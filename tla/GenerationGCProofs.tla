------------------------- MODULE GenerationGCProofs -------------------------
(***************************************************************************)
(* Proofs about GenerationGC for any revisions, digests, delta bases,      *)
(* savers and external backend: the history stays whole, checkpoint and    *)
(* governed revisions stay, and the deletions the audit reports happened.  *)
(***************************************************************************)
EXTENDS GenerationGC, TLAPS

Saves == [pc : {"idle", "selected", "inserted"}, rev : Revs \cup {None},
          row : Revision \cup {NoRev}, existing : BOOLEAN]
Sweeps == [pc : {"idle", "selected", "locked"}, digest : Digests \cup {None},
           outcome : {"none", "deleted", "not_found", "failed"}]

Tables == TypeOK /\ save \in [Savers -> Saves] /\ blobGc \in Sweeps

(* A save under way has an id of its own that no revision bears yet.       *)
SavesApart ==
    \A s \in Savers :
        /\ save[s].pc = "idle" => save[s].rev = None
        /\ save[s].pc # "idle" =>
              /\ save[s].rev \in Revs /\ revs[save[s].rev] = NoRev
              /\ save[s].row \in Revision
              /\ \A t \in Savers : save[t].rev = save[s].rev => t = s

(* What an inserted row references cannot be deleted before the commit.    *)
KeysHeld ==
    \A s \in Inserted :
        /\ save[s].row.parent \in Live
        /\ save[s].row.source \in Live \cup {None}
        /\ save[s].existing => blobs[save[s].row.digest] # "absent"
        /\ (~save[s].existing /\ Base[save[s].row.digest] # None) =>
              blobs[Base[save[s].row.digest]] # "absent"

(* A sweep that holds the lock of a blob shares it with no inserted row,   *)
(* and an outcome other than a failure means that the object is gone.      *)
SweepApart ==
    /\ blobGc.pc # "idle" => blobGc.digest \in Digests /\ blobs[blobGc.digest] # "absent"
    /\ blobGc.pc = "locked" =>
         \A s \in Inserted : blobGc.digest \notin {save[s].row.digest, Base[save[s].row.digest]}
    /\ (blobGc.outcome \in {"deleted", "not_found"} /\ blobGc.digest \in External) =>
         blobGc.digest \notin objects

(* The row a DELETE has selected is still there.                           *)
SelectedEphemeral == revGc # None => revGc \in Live /\ revs[revGc].tier = "ephemeral"

GInv == /\ Tables /\ SavesApart /\ KeysHeld /\ SweepApart /\ SelectedEphemeral
        /\ HistoryIntact /\ AuditTellsTheTruth

LEMMA RowsAreNotAbsent == \A row \in Revision : row # NoRev
  BY DEF Revision, NoRev, Tiers

LEMMA IdlesTyped == IdleSave \in Saves /\ IdleSweep \in Sweeps
  BY DEF IdleSave, IdleSweep, Saves, Sweeps

LEMMA InitGInv == Init => GInv
  <1> SUFFICES ASSUME Init PROVE GInv
    OBVIOUS
  <1>1. PICK h \in Revs, e \in Revs, te \in SavedTiers, dh \in Digests, de \in Digests,
             stored \in SUBSET Digests :
          /\ h # e /\ dh \notin External
          /\ {dh, de} \subseteq stored
          /\ \A d \in stored : Base[d] \in stored \cup {None}
          /\ revs = [r \in Revs |->
               CASE r = h -> [tier |-> "checkpoint", digest |-> dh, parent |-> None, source |-> None]
                 [] r = e -> [tier |-> te, digest |-> de, parent |-> None, source |-> None]
                 [] OTHER -> NoRev]
          /\ head = h
          /\ blobs = [d \in Digests |-> IF d \in stored THEN "ready" ELSE "absent"]
          /\ objects = stored \cap External
    BY DEF Init
  <1>2. /\ pins = {} /\ audit = {} /\ pinning = None /\ revGc = None
        /\ save = [s \in Savers |-> IdleSave] /\ blobGc = IdleSweep
    BY DEF Init
  <1> DEFINE rh == [tier |-> "checkpoint", digest |-> dh, parent |-> None, source |-> None]
             re == [tier |-> te, digest |-> de, parent |-> None, source |-> None]
  <1>3. /\ rh \in Revision /\ re \in Revision
        /\ rh.digest \in stored /\ re.digest \in stored
        /\ rh.parent = None /\ rh.source = None /\ re.parent = None /\ re.source = None
    BY <1>1, SavedTiersAssumption DEF Revision, Tiers
  <1> HIDE DEF rh, re
  <1>4. /\ revs \in [Revs -> Revision \cup {NoRev}]
        /\ \A r \in Revs : revs[r] \in {rh, re, NoRev}
        /\ revs[h] = rh
    <2>1. revs = [r \in Revs |-> CASE r = h -> rh [] r = e -> re [] OTHER -> NoRev]
      BY <1>1 DEF rh, re
    <2>2. QED
      BY <1>1, <1>3, <2>1
  <1>5. \A s \in Savers : save[s].pc = "idle" /\ save[s].rev = None
    BY <1>2 DEF IdleSave
  <1>6. blobGc.pc = "idle" /\ blobGc.outcome = "none"
    BY <1>2 DEF IdleSweep
  <1>7. Tables
    <2>1. save \in [Savers -> Saves] /\ blobGc \in Sweeps
      BY <1>2, IdlesTyped
    <2>2. blobs \in [Digests -> BlobStates] /\ objects \subseteq External
      BY <1>1 DEF BlobStates
    <2>3. QED
      BY <1>1, <1>2, <1>4, <1>5, <2>1, <2>2 DEF Tables, TypeOK
  <1>8. SavesApart /\ KeysHeld
    BY <1>5 DEF SavesApart, KeysHeld, Inserted
  <1>9. SweepApart /\ SelectedEphemeral
    BY <1>2, <1>6 DEF SweepApart, SelectedEphemeral
  <1>10. HistoryIntact
    <2>1. rh # NoRev
      BY <1>3, RowsAreNotAbsent
    <2>2. head \in Live
      BY <1>1, <1>4, <2>1 DEF Live
    <2>3. \A r \in Live : revs[r] \in {rh, re}
      BY <1>4 DEF Live
    <2>4. \A d \in Digests : blobs[d] # "absent" <=> d \in stored
      BY <1>1
    <2>5. QED
      BY <1>1, <1>3, <2>2, <2>3, <2>4, NoneAssumption, BaseAssumption DEF HistoryIntact
  <1>11. AuditTellsTheTruth
    BY <1>2 DEF AuditTellsTheTruth
  <1>12. QED
    BY <1>7, <1>8, <1>9, <1>10, <1>11 DEF GInv
-----------------------------------------------------------------------------
(* A saver's row changes while the tables stay as they are. *)
LEMMA SaveStepKeeps ==
    ASSUME GInv, NEW s \in Savers, NEW new \in Saves,
           save' = [save EXCEPT ![s] = new],
           UNCHANGED <<revs, head, pins, blobs, objects, audit, pinning, revGc, blobGc>>,
           new.pc = "idle" => new.rev = None,
           new.pc # "idle" =>
              /\ new.rev \in Revs /\ revs[new.rev] = NoRev /\ new.row \in Revision
              /\ \A t \in Savers : save[t].rev = new.rev => t = s,
           new.pc = "inserted" =>
              /\ new.row.parent \in Live /\ new.row.source \in Live \cup {None}
              /\ new.existing => blobs[new.row.digest] # "absent"
              /\ (~new.existing /\ Base[new.row.digest] # None) => blobs[Base[new.row.digest]] # "absent"
              /\ blobGc.pc = "locked" => blobGc.digest \notin {new.row.digest, Base[new.row.digest]}
    PROVE  GInv'
  <1> USE DEF GInv
  <1>1. save'[s] = new /\ \A t \in Savers : t # s => save'[t] = save[t]
    BY DEF Tables
  <1>2. Tables'
    <2>1. save' \in [Savers -> Saves]
      BY DEF Tables
    <2>2. \A t \in Savers : save'[t].rev \in Revs \cup {None}
      BY <2>1 DEF Saves
    <2>3. QED
      BY <2>1, <2>2 DEF Tables, TypeOK
  <1>3. Live' = Live
    BY DEF Live
  <1>4. Inserted' \subseteq Inserted \cup {s}
    BY <1>1 DEF Inserted
  <1>5. s \in Inserted' => new.pc = "inserted"
    BY <1>1 DEF Inserted
  <1>6. SavesApart'
    BY <1>1, NoneAssumption DEF SavesApart
  <1>7. KeysHeld'
    BY <1>1, <1>3, <1>4, <1>5 DEF KeysHeld
  <1>8. SweepApart'
    BY <1>1, <1>4, <1>5 DEF SweepApart
  <1>9. SelectedEphemeral'
    BY <1>3 DEF SelectedEphemeral
  <1>10. HistoryIntact' /\ AuditTellsTheTruth'
    BY <1>3 DEF HistoryIntact, AuditTellsTheTruth
  <1>11. QED
    BY <1>2, <1>6, <1>7, <1>8, <1>9, <1>10

LEMMA SelectBlobKeeps ==
    ASSUME GInv, NEW s \in Savers, NEW r \in Revs, NEW d \in Digests,
           NEW tier \in SavedTiers, NEW source \in Revs \cup {None},
           SelectBlob(s, r, d, tier, source)
    PROVE  GInv'
  <1> DEFINE row == [tier |-> tier, digest |-> d, parent |-> head, source |-> source]
             new == [pc |-> "selected", rev |-> r, existing |-> blobs[d] = "ready", row |-> row]
  <1>1. row \in Revision
    BY SavedTiersAssumption DEF Revision, GInv, Tables, TypeOK, Tiers
  <1> HIDE DEF row
  <1>2. new \in Saves /\ new.pc = "selected" /\ new.rev = r /\ new.row = row
    BY <1>1 DEF Saves
  <1>3. /\ save' = [save EXCEPT ![s] = new]
        /\ UNCHANGED <<revs, head, pins, blobs, objects, audit, pinning, revGc, blobGc>>
        /\ revs[r] = NoRev /\ \A t \in Savers : save[t].rev # r
    BY DEF SelectBlob, row
  <1> HIDE DEF new
  <1>4. QED
    BY <1>1, <1>2, <1>3, SaveStepKeeps

LEMMA InsertRevisionKeeps ==
    ASSUME GInv, NEW s \in Savers, InsertRevision(s)
    PROVE  GInv'
  <1> DEFINE row == save[s].row
  <1>1. /\ save[s].pc = "selected" /\ save[s] \in Saves
        /\ save[s].rev \in Revs /\ revs[save[s].rev] = NoRev /\ row \in Revision
        /\ \A t \in Savers : save[t].rev = save[s].rev => t = s
    BY DEF InsertRevision, GInv, Tables, SavesApart
  <1>2. UNCHANGED <<revs, head, pins, blobs, objects, audit, pinning, revGc, blobGc>>
    BY DEF InsertRevision
  <1>3. CASE References(row, save[s].existing)
    <2> DEFINE new == [save[s] EXCEPT !.pc = "inserted"]
    <2>1. /\ new \in Saves /\ new.pc = "inserted" /\ new.rev = save[s].rev
          /\ new.row = row /\ new.existing = save[s].existing
      BY <1>1 DEF Saves
    <2>2. save' = [save EXCEPT ![s] = new]
      BY <1>3 DEF InsertRevision, GInv, Tables
    <2>3. /\ row.parent \in Live /\ row.source \in Live \cup {None}
          /\ save[s].existing => blobs[row.digest] # "absent"
          /\ (~save[s].existing /\ Base[row.digest] # None) => blobs[Base[row.digest]] # "absent"
      BY <1>3 DEF References
    <2>4. blobGc.pc = "locked" => blobGc.digest \notin {row.digest, Base[row.digest]}
      BY DEF InsertRevision
    <2> HIDE DEF new
    <2>5. QED
      BY <1>1, <1>2, <2>1, <2>2, <2>3, <2>4, SaveStepKeeps
  <1>4. CASE ~References(row, save[s].existing)
    <2>1. save' = [save EXCEPT ![s] = IdleSave]
      BY <1>4 DEF InsertRevision
    <2>2. IdleSave.pc = "idle" /\ IdleSave.rev = None
      BY DEF IdleSave
    <2>3. QED
      BY <1>2, <2>1, <2>2, IdlesTyped, SaveStepKeeps
  <1>5. QED
    BY <1>3, <1>4

LEMMA CommitSaveKeeps ==
    ASSUME GInv, NEW s \in Savers, CommitSave(s)
    PROVE  GInv' /\ \A r \in Live : revs'[r] = revs[r]
  <1> USE DEF GInv
  <1> DEFINE row == save[s].row
             rev == save[s].rev
             d == row.digest
  <1>1. /\ save[s].pc = "inserted" /\ s \in Inserted
        /\ rev \in Revs /\ revs[rev] = NoRev /\ row \in Revision /\ d \in Digests
        /\ \A t \in Savers : save[t].rev = rev => t = s
    BY DEF CommitSave, Inserted, SavesApart, Revision
  <1>2. save' = [save EXCEPT ![s] = IdleSave] /\ UNCHANGED <<pins, objects, audit, pinning, revGc, blobGc>>
    BY DEF CommitSave
  <1>3. IdleSave.pc = "idle" /\ IdleSave.rev = None /\ IdleSave \in Saves
    BY IdlesTyped DEF IdleSave
  <1>4. save'[s] = IdleSave /\ \A t \in Savers : t # s => save'[t] = save[t]
    BY <1>2 DEF Tables
  <1>5. CASE head # row.parent
    <2>1. UNCHANGED <<revs, head, pins, blobs, objects, audit, pinning, revGc, blobGc>>
      BY <1>2, <1>5 DEF CommitSave
    <2>2. GInv'
      BY <1>2, <1>3, <2>1, SaveStepKeeps
    <2>3. QED
      BY <2>1, <2>2
  <1>6. CASE head = row.parent
    <2>1. /\ revs' = [revs EXCEPT ![rev] = row] /\ head' = rev
          /\ blobs' = IF save[s].existing THEN blobs ELSE [blobs EXCEPT ![d] = "ready"]
      BY <1>6 DEF CommitSave
    <2> HIDE DEF row, rev, d
    <2>2. row # NoRev
      BY <1>1, RowsAreNotAbsent
    <2>3. /\ revs' \in [Revs -> Revision \cup {NoRev}]
          /\ revs'[rev] = row /\ \A r \in Revs : r # rev => revs'[r] = revs[r]
      BY <1>1, <2>1 DEF Tables, TypeOK
    <2>4. Live' = Live \cup {rev} /\ rev \notin Live
      BY <1>1, <2>2, <2>3 DEF Live
    <2>5. \A r \in Live : revs'[r] = revs[r]
      BY <2>3, <2>4 DEF Live
    <2>6. /\ blobs' \in [Digests -> BlobStates]
          /\ \A b \in Digests : blobs[b] # "absent" => blobs'[b] # "absent"
          /\ \A b \in Digests : blobs'[b] # "absent" => blobs[b] # "absent" \/ (b = d /\ ~save[s].existing)
          /\ blobs'[d] # "absent"
      <3>1. CASE save[s].existing
        <4>1. blobs' = blobs /\ blobs[d] # "absent"
          BY <1>1, <2>1, <3>1 DEF KeysHeld, d, row
        <4>2. QED
          BY <4>1 DEF Tables, TypeOK
      <3>2. CASE ~save[s].existing
        BY <1>1, <2>1, <3>2 DEF Tables, TypeOK, BlobStates
      <3>3. QED
        BY <3>1, <3>2
    <2>7. Tables'
      <3>1. save' \in [Savers -> Saves]
        BY <1>2, <1>3 DEF Tables
      <3>2. \A t \in Savers : save'[t].rev \in Revs \cup {None}
        BY <3>1 DEF Saves
      <3>3. QED
        BY <1>1, <1>2, <2>1, <2>3, <2>6, <3>1, <3>2 DEF Tables, TypeOK
    <2>8. SavesApart'
      <3>1. SUFFICES ASSUME NEW t \in Savers
                     PROVE  /\ save'[t].pc = "idle" => save'[t].rev = None
                            /\ save'[t].pc # "idle" =>
                                 /\ save'[t].rev \in Revs /\ revs'[save'[t].rev] = NoRev
                                 /\ save'[t].row \in Revision
                                 /\ \A u \in Savers : save'[u].rev = save'[t].rev => u = t
        BY DEF SavesApart
      <3>2. CASE t = s
        BY <1>3, <1>4, <3>2
      <3>3. CASE t # s
        <4>1. save'[t] = save[t]
          BY <1>4, <3>3
        <4>2. ASSUME save[t].pc # "idle"
              PROVE  /\ save[t].rev \in Revs /\ revs'[save[t].rev] = NoRev /\ save[t].row \in Revision
                     /\ \A u \in Savers : save'[u].rev = save[t].rev => u = t
          <5>1. /\ save[t].rev \in Revs /\ revs[save[t].rev] = NoRev /\ save[t].row \in Revision
                /\ \A u \in Savers : save[u].rev = save[t].rev => u = t
            BY <4>2 DEF SavesApart
          <5>2. save[t].rev # rev
            BY <1>1, <3>3
          <5>3. \A u \in Savers : save'[u].rev = save[t].rev => u = t
            BY <1>3, <1>4, <5>1, NoneAssumption
          <5>4. QED
            BY <2>3, <5>1, <5>2, <5>3
        <4>3. save[t].pc = "idle" => save[t].rev = None
          BY DEF SavesApart
        <4>4. QED
          BY <4>1, <4>2, <4>3
      <3>4. QED
        BY <3>2, <3>3
    <2>9. \A t \in Inserted' : t \in Inserted /\ t # s /\ save'[t] = save[t]
      BY <1>3, <1>4 DEF Inserted
    <2>10. KeysHeld'
      <3>1. \A t \in Inserted : save[t].row \in Revision /\ save[t].row.digest \in Digests
        BY DEF SavesApart, Inserted, Revision
      <3>2. QED
        BY <2>4, <2>6, <2>9, <3>1, BaseAssumption DEF KeysHeld
    <2>11. SweepApart'
      BY <1>2, <2>6, <2>9 DEF SweepApart
    <2>12. SelectedEphemeral'
      BY <1>2, <2>4, <2>5 DEF SelectedEphemeral
    <2>13. HistoryIntact'
      <3>1. /\ row.parent \in Live /\ row.source \in Live \cup {None}
            /\ (~save[s].existing /\ Base[d] # None) => blobs[Base[d]] # "absent"
        BY <1>1 DEF KeysHeld, d, row
      <3>2. head' \in Live'
        BY <2>1, <2>4
      <3>3. ASSUME NEW r \in Live'
            PROVE  /\ revs'[r].parent \in Live' \cup {None} /\ revs'[r].source \in Live' \cup {None}
                   /\ blobs'[revs'[r].digest] # "absent"
        <4>1. CASE r = rev
          BY <2>3, <2>4, <2>6, <3>1, <4>1 DEF d
        <4>2. CASE r \in Live
          <5>1. revs'[r] = revs[r] /\ revs[r].digest \in Digests
            BY <2>5, <4>2 DEF Tables, TypeOK, Live, Revision
          <5>2. QED
            BY <2>4, <2>6, <4>2, <5>1 DEF HistoryIntact
        <4>3. QED
          BY <2>4, <4>1, <4>2
      <3>4. ASSUME NEW b \in Digests, blobs'[b] # "absent", Base[b] # None
            PROVE  blobs'[Base[b]] # "absent"
        <4>1. Base[b] \in Digests
          BY <3>4, BaseAssumption
        <4>2. blobs[Base[b]] # "absent"
          BY <2>6, <3>1, <3>4 DEF HistoryIntact
        <4>3. QED
          BY <2>6, <4>1, <4>2
      <3>5. QED
        BY <3>2, <3>3, <3>4 DEF HistoryIntact
    <2>14. AuditTellsTheTruth'
      BY <1>2 DEF AuditTellsTheTruth
    <2>15. QED
      BY <2>5, <2>7, <2>8, <2>10, <2>11, <2>12, <2>13, <2>14
  <1>7. QED
    BY <1>5, <1>6

(* Steps that change no row, only pins, selections and the sweep's place.  *)
LEMMA RowsUntouched ==
    ASSUME GInv, UNCHANGED <<revs, head, blobs, save, audit>>
    PROVE  SavesApart' /\ KeysHeld' /\ HistoryIntact' /\ Live' = Live /\ Inserted' = Inserted
  <1> USE DEF GInv
  <1>1. Live' = Live /\ Inserted' = Inserted
    BY DEF Live, Inserted
  <1>2. SavesApart' /\ KeysHeld' /\ HistoryIntact'
    BY <1>1 DEF SavesApart, KeysHeld, HistoryIntact
  <1>3. QED
    BY <1>1, <1>2

LEMMA PinsAndSelectionKeep ==
    ASSUME GInv, \/ \E r \in Revs : InsertPin(r) \/ SelectRevision(r)
                 \/ CommitPin
    PROVE  GInv'
  <1> USE DEF GInv
  <1>1. UNCHANGED <<revs, head, blobs, objects, audit, save, blobGc>>
    BY DEF InsertPin, SelectRevision, CommitPin
  <1>2. SavesApart' /\ KeysHeld' /\ HistoryIntact' /\ Live' = Live /\ Inserted' = Inserted
    BY <1>1, RowsUntouched
  <1>3. pins' \subseteq Revs /\ pinning' \in Revs \cup {None} /\ revGc' \in Revs \cup {None}
    BY DEF InsertPin, SelectRevision, CommitPin, Tables, TypeOK
  <1>4. Tables'
    BY <1>1, <1>3 DEF Tables, TypeOK
  <1>5. SweepApart' /\ AuditTellsTheTruth'
    BY <1>1, <1>2 DEF SweepApart, AuditTellsTheTruth
  <1>6. SelectedEphemeral'
    <2>1. revGc' = revGc \/ \E r \in Revs : revGc' = r /\ Unprotected(r)
      BY DEF InsertPin, SelectRevision, CommitPin
    <2>2. QED
      BY <1>1, <1>2, <2>1 DEF SelectedEphemeral, Unprotected
  <1>7. QED
    BY <1>2, <1>4, <1>5, <1>6

LEMMA DeleteRevisionKeeps ==
    ASSUME GInv, DeleteRevision
    PROVE  GInv' /\ \A r \in Live : revs[r].tier # "ephemeral" => revs'[r] = revs[r]
  <1> USE DEF GInv
  <1>1. /\ revGc # None /\ ~Shared(revGc) /\ revGc' = None
        /\ UNCHANGED <<head, blobs, objects, save, pinning, blobGc>>
    BY DEF DeleteRevision
  <1>2. revGc \in Live /\ revGc \in Revs /\ revs[revGc].tier = "ephemeral"
    BY <1>1 DEF SelectedEphemeral, Live
  <1>3. CASE UNCHANGED <<revs, pins, audit>>
    <2>1. SavesApart' /\ KeysHeld' /\ HistoryIntact' /\ Live' = Live /\ Inserted' = Inserted
      BY <1>1, <1>3, RowsUntouched
    <2>2. Tables'
      BY <1>1, <1>3 DEF Tables, TypeOK
    <2>3. SweepApart' /\ AuditTellsTheTruth' /\ SelectedEphemeral'
      BY <1>1, <1>3, <2>1 DEF SweepApart, AuditTellsTheTruth, SelectedEphemeral
    <2>4. QED
      BY <1>3, <2>1, <2>2, <2>3
  <1>4. CASE /\ ~Referenced(revGc)
             /\ revs' = [revs EXCEPT ![revGc] = NoRev] /\ pins' = pins \ {revGc}
             /\ audit' = audit \cup {[target |-> revGc, outcome |-> "deleted"]}
    <2>1. /\ revs' \in [Revs -> Revision \cup {NoRev}]
          /\ revs'[revGc] = NoRev /\ \A r \in Revs : r # revGc => revs'[r] = revs[r]
      BY <1>2, <1>4 DEF Tables, TypeOK
    <2>2. Live' = Live \ {revGc} /\ Inserted' = Inserted
      BY <1>1, <1>2, <2>1 DEF Live, Inserted
    <2>3. Tables'
      <3>1. [target |-> revGc, outcome |-> "deleted"] \in Event
        BY <1>2 DEF Event
      <3>2. QED
        BY <1>1, <1>4, <2>1, <3>1 DEF Tables, TypeOK
    <2>4. SavesApart'
      <3>1. \A r \in Revs : revs[r] = NoRev => revs'[r] = NoRev
        BY <2>1
      <3>2. QED
        BY <1>1, <3>1 DEF SavesApart
    <2>5. KeysHeld'
      <3>1. \A s \in Inserted : revGc \notin {save[s].row.parent, save[s].row.source}
        BY <1>1 DEF Shared
      <3>2. QED
        BY <1>1, <2>2, <3>1 DEF KeysHeld
    <2>6. HistoryIntact'
      <3>1. revGc # head /\ \A c \in Live : revGc \notin {revs[c].parent, revs[c].source}
        BY <1>4 DEF Referenced
      <3>2. \A r \in Live' : r \in Live /\ revs'[r] = revs[r]
        BY <2>1, <2>2 DEF Live
      <3>3. QED
        BY <1>1, <2>2, <3>1, <3>2 DEF HistoryIntact
    <2>7. SweepApart' /\ SelectedEphemeral'
      BY <1>1, <2>2 DEF SweepApart, SelectedEphemeral
    <2>8. AuditTellsTheTruth'
      BY <1>1, <1>2, <1>4, TargetAssumption, ExternalAssumption DEF AuditTellsTheTruth
    <2>9. \A r \in Live : revs[r].tier # "ephemeral" => revs'[r] = revs[r]
      BY <1>2, <2>1 DEF Live
    <2>10. QED
      BY <2>3, <2>4, <2>5, <2>6, <2>7, <2>8, <2>9
  <1>5. QED
    BY <1>3, <1>4 DEF DeleteRevision

LEMMA SweepStepsKeep ==
    ASSUME GInv, (\E d \in Digests : SelectCandidate(d)) \/ LockCandidate \/ DeleteObject \/ CrashSweep
    PROVE  GInv'
  <1> USE DEF GInv
  <1>1. UNCHANGED <<revs, head, pins, blobs, audit, save, pinning, revGc>>
    BY DEF SelectCandidate, LockCandidate, DeleteObject, CrashSweep
  <1>2. SavesApart' /\ KeysHeld' /\ HistoryIntact' /\ Live' = Live /\ Inserted' = Inserted
    BY <1>1, RowsUntouched
  <1>3. SelectedEphemeral'
    BY <1>1, <1>2 DEF SelectedEphemeral
  <1>4. objects' \subseteq objects
    BY DEF SelectCandidate, LockCandidate, DeleteObject, CrashSweep
  <1>5. AuditTellsTheTruth'
    BY <1>1, <1>4 DEF AuditTellsTheTruth
  <1>6. blobGc' \in Sweeps /\ SweepApart'
    <2>1. CASE \E d \in Digests : SelectCandidate(d)
      <3>1. PICK d \in Digests : /\ blobGc' = [pc |-> "selected", digest |-> d, outcome |-> "none"]
                                 /\ blobs[d] # "absent"
        BY <2>1 DEF SelectCandidate
      <3>2. QED
        BY <1>1, <3>1 DEF SweepApart, Sweeps
    <2>2. CASE LockCandidate
      <3>1. /\ blobGc.pc = "selected" /\ blobGc' = [blobGc EXCEPT !.pc = "locked"] /\ objects' = objects
            /\ \A s \in Inserted : blobGc.digest \notin {save[s].row.digest, Base[save[s].row.digest]}
        BY <2>2 DEF LockCandidate
      <3>2. /\ blobGc' \in Sweeps /\ blobGc'.digest = blobGc.digest /\ blobGc'.outcome = blobGc.outcome
        BY <3>1 DEF Tables, Sweeps
      <3>3. QED
        BY <1>1, <1>2, <3>1, <3>2 DEF SweepApart
    <2>3. CASE DeleteObject
      <3>1. /\ blobGc.pc = "locked"
            /\ \/ /\ objects' = objects \ {blobGc.digest}
                  /\ \E o \in {"deleted", "not_found"} : blobGc' = [blobGc EXCEPT !.outcome = o]
               \/ objects' = objects /\ blobGc' = [blobGc EXCEPT !.outcome = "failed"]
        BY <2>3 DEF DeleteObject
      <3>2. /\ blobGc' \in Sweeps /\ blobGc'.digest = blobGc.digest /\ blobGc'.pc = blobGc.pc
            /\ objects' # objects \ {blobGc.digest} => blobGc'.outcome = "failed"
        BY <3>1 DEF Tables, Sweeps
      <3>3. (blobGc'.outcome \in {"deleted", "not_found"}) => blobGc'.digest \notin objects'
        BY <3>2
      <3>4. QED
        BY <1>1, <1>2, <3>2, <3>3 DEF SweepApart
    <2>4. CASE CrashSweep
      <3>1. blobGc' = IdleSweep
        BY <2>4 DEF CrashSweep
      <3>2. blobGc'.pc = "idle" /\ blobGc'.outcome = "none"
        BY <3>1 DEF IdleSweep
      <3>3. QED
        BY <3>1, <3>2, IdlesTyped DEF SweepApart
    <2>5. QED
      BY <2>1, <2>2, <2>3, <2>4
  <1>7. Tables'
    BY <1>1, <1>4, <1>6 DEF Tables, TypeOK
  <1>8. QED
    BY <1>2, <1>3, <1>5, <1>6, <1>7

LEMMA FinishSweepKeeps ==
    ASSUME GInv, FinishSweep
    PROVE  GInv'
  <1> USE DEF GInv
  <1> DEFINE d == blobGc.digest
             gone == blobGc.outcome # "failed" /\ Unreferenced(d)
             told == IF gone THEN blobGc.outcome ELSE "failed"
  <1>1. /\ blobGc.pc = "locked" /\ blobGc.outcome # "none" /\ d \in Digests
        /\ blobs' = [blobs EXCEPT ![d] = IF gone THEN "absent" ELSE "deleting"]
        /\ audit' = audit \cup {[target |-> d, outcome |-> told]}
        /\ blobGc' = IdleSweep
        /\ UNCHANGED <<revs, head, pins, objects, save, pinning, revGc>>
    BY DEF FinishSweep, SweepApart
  <1>2. told \in {"deleted", "not_found", "failed"}
        /\ (told # "failed" /\ d \in External => d \notin objects)
    BY <1>1 DEF Tables, Sweeps, SweepApart
  <1>3. gone => Unreferenced(d)
    OBVIOUS
  <1> HIDE DEF told, gone, d
  <1>4. /\ blobs' \in [Digests -> BlobStates] /\ blobs'[d] \in {"absent", "deleting"}
        /\ blobs'[d] = "absent" => gone
        /\ \A b \in Digests : b # d => blobs'[b] = blobs[b]
    BY <1>1 DEF Tables, TypeOK, BlobStates
  <1>5. Live' = Live /\ Inserted' = Inserted
    BY <1>1 DEF Live, Inserted
  <1>6. Tables'
    <2>1. [target |-> d, outcome |-> told] \in Event
      BY <1>1, <1>2 DEF Event
    <2>2. QED
      BY <1>1, <1>4, <2>1, IdlesTyped DEF Tables, TypeOK
  <1>7. SavesApart' /\ SelectedEphemeral'
    BY <1>1, <1>5 DEF SavesApart, SelectedEphemeral
  <1>8. KeysHeld'
    <2>1. \A s \in Inserted : d \notin {save[s].row.digest, Base[save[s].row.digest]}
      BY <1>1 DEF SweepApart, d
    <2>2. \A s \in Inserted : save[s].row.digest \in Digests
      BY DEF SavesApart, Inserted, Revision
    <2>3. QED
      BY <1>1, <1>4, <1>5, <2>1, <2>2, BaseAssumption DEF KeysHeld
  <1>9. SweepApart'
    <2>1. blobGc'.pc = "idle" /\ blobGc'.outcome = "none"
      BY <1>1 DEF IdleSweep
    <2>2. QED
      BY <2>1 DEF SweepApart
  <1>10. HistoryIntact'
    <2>1. ASSUME NEW r \in Live PROVE blobs'[revs[r].digest] # "absent"
      <3>1. revs[r].digest \in Digests /\ blobs[revs[r].digest] # "absent"
        BY DEF HistoryIntact, Live, Tables, TypeOK, Revision
      <3>2. QED
        BY <1>3, <1>4, <3>1 DEF Unreferenced
    <2>2. ASSUME NEW b \in Digests, blobs'[b] # "absent", Base[b] # None
          PROVE  blobs'[Base[b]] # "absent"
      <3>1. blobs[b] # "absent"
        BY <1>1, <1>4, <2>2 DEF SweepApart, d
      <3>2. Base[b] \in Digests /\ blobs[Base[b]] # "absent"
        BY <2>2, <3>1, BaseAssumption DEF HistoryIntact
      <3>3. QED
        BY <1>3, <1>4, <3>1, <3>2 DEF Unreferenced
    <2>3. QED
      BY <1>1, <1>5, <2>1, <2>2 DEF HistoryIntact
  <1>11. AuditTellsTheTruth'
    BY <1>1, <1>2 DEF AuditTellsTheTruth
  <1>12. QED
    BY <1>6, <1>7, <1>8, <1>9, <1>10, <1>11
-----------------------------------------------------------------------------
LEMMA NextGInv ==
    GInv /\ [Next]_vars => GInv' /\ \A r \in Live : revs[r].tier # "ephemeral" => revs'[r] = revs[r]
  <1> SUFFICES ASSUME GInv, [Next]_vars
               PROVE  GInv' /\ \A r \in Live : revs[r].tier # "ephemeral" => revs'[r] = revs[r]
    OBVIOUS
  <1>1. CASE UNCHANGED vars
    <2>1. SavesApart' /\ KeysHeld' /\ HistoryIntact' /\ Live' = Live /\ Inserted' = Inserted
      BY <1>1, RowsUntouched DEF vars
    <2>2. Tables' /\ SweepApart' /\ AuditTellsTheTruth' /\ SelectedEphemeral'
      BY <1>1, <2>1 DEF vars, GInv, Tables, TypeOK, SweepApart, AuditTellsTheTruth, SelectedEphemeral
    <2>3. QED
      BY <1>1, <2>1, <2>2 DEF vars, GInv
  <1>2. ASSUME NEW s \in Savers, Saving(s)
        PROVE  GInv' /\ \A r \in Live : revs'[r] = revs[r]
    <2>1. CASE CommitSave(s)
      BY <2>1, CommitSaveKeeps
    <2>2. CASE InsertRevision(s)
      <3>1. revs' = revs
        BY <2>2 DEF InsertRevision
      <3>2. QED
        BY <2>2, <3>1, InsertRevisionKeeps
    <2>3. ASSUME NEW r \in Revs, NEW d \in Digests, NEW tier \in SavedTiers,
                 NEW source \in Revs \cup {None}, SelectBlob(s, r, d, tier, source)
          PROVE  GInv' /\ revs' = revs
      <3>1. revs' = revs
        BY <2>3 DEF SelectBlob
      <3>2. QED
        BY <2>3, <3>1, SelectBlobKeeps
    <2>4. QED
      BY <1>2, <2>1, <2>2, <2>3 DEF Saving
  <1>3. CASE (\E r \in Revs : InsertPin(r) \/ SelectRevision(r)) \/ CommitPin
    <2>1. revs' = revs
      BY <1>3 DEF InsertPin, SelectRevision, CommitPin
    <2>2. QED
      BY <1>3, <2>1, PinsAndSelectionKeep
  <1>4. CASE DeleteRevision
    BY <1>4, DeleteRevisionKeeps
  <1>5. CASE (\E d \in Digests : SelectCandidate(d)) \/ LockCandidate \/ DeleteObject \/ CrashSweep
    <2>1. revs' = revs
      BY <1>5 DEF SelectCandidate, LockCandidate, DeleteObject, CrashSweep
    <2>2. QED
      BY <1>5, <2>1, SweepStepsKeep
  <1>6. CASE FinishSweep
    <2>1. revs' = revs
      BY <1>6 DEF FinishSweep
    <2>2. QED
      BY <1>6, <2>1, FinishSweepKeeps
  <1>7. QED
    BY <1>1, <1>2, <1>3, <1>4, <1>5, <1>6 DEF Next, Collecting

(* The invariant holds of every state of the store and its collector.      *)
THEOREM AlwaysGInv == Spec => []GInv
  <1>1. GInv /\ [Next]_vars => GInv'
    BY NextGInv
  <1>2. QED
    BY <1>1, InitGInv, PTL DEF Spec

(* The tables have their types, and every event a real outcome. *)
THEOREM GCTypes == Spec => []TypeOK
  <1>1. GInv => TypeOK
    BY DEF GInv, Tables
  <1>2. QED
    BY <1>1, AlwaysGInv, PTL

(* Sweeps and deletes that selected their row before a save committed      *)
(* never leave the history with a hole: the foreign keys and the row locks *)
(* cover what the WHERE clauses could not yet see.                         *)
THEOREM HistoryStaysWhole == Spec => []HistoryIntact
  <1>1. GInv => HistoryIntact
    BY DEF GInv
  <1>2. QED
    BY <1>1, AlwaysGInv, PTL

(* An object the audit reports as deleted or not found never comes back,   *)
(* however often the sweep crashes between the deletion and its commit.    *)
THEOREM AuditIsTrue == Spec => []AuditTellsTheTruth
  <1>1. GInv => AuditTellsTheTruth
    BY DEF GInv
  <1>2. QED
    BY <1>1, AlwaysGInv, PTL

(* No step takes away or alters a checkpoint or governed revision. *)
THEOREM DurableRevisionsStay == Spec => DurableKept
  <1> DEFINE A == \A r \in Live : revs[r].tier # "ephemeral" => revs'[r] = revs[r]
  <1>1. GInv /\ [Next]_vars => [A]_vars
    BY NextGInv
  <1> HIDE DEF A
  <1>2. Spec => [][A]_vars
    BY <1>1, AlwaysGInv, PTL DEF Spec
  <1>3. QED
    BY <1>2 DEF DurableKept, A
=============================================================================
