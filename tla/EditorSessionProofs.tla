------------------------- MODULE EditorSessionProofs -------------------------
(***************************************************************************)
(* Proofs about the editor, for any documents, tabs and bounds: what the   *)
(* open document, its ETag and its marks say holds however loads, saves,   *)
(* adoptions, crashes and recoveries interleave; the pictures of islands   *)
(* survive as long as a document of a history names them; a machine's text *)
(* is shown as reviewed only once a person vouched for it; and cards are   *)
(* merged by the decisions of their document.                              *)
(***************************************************************************)
EXTENDS MCEditor, SequenceTheorems, FiniteSetTheorems, TLAPS

ETags == [id : Docs, rev : 1..MaxRevs]
Stored == [rev : 0..MaxRevs, texts : [1..MaxRevs -> SUBSET Edits], archived : BOOLEAN]
Marks == [dirty : BOOLEAN, conflict : BOOLEAN, archived : BOOLEAN]
Load == [step : {"none", "get", "got", "put", "created", "done"}, id : Docs, reload : BOOLEAN,
         create : BOOLEAN, sample : BOOLEAN, found : {"none", "found", "missing", "failed"},
         rev : 0..MaxRevs]
Save == [step : {"none", "sent", "answered"}, doc : Content \cup {NoDoc},
         etag : ETags \cup {NoEtag}, out : {"none", "ok", "conflict", "failed"}, blind : BOOLEAN]
Flip == [step : {"none", "sent", "answered"}, id : Docs, archive : BOOLEAN,
         active : BOOLEAN, ok : BOOLEAN]

ServerOK == server \in [Docs -> Stored]

MarksOK ==
    /\ marks \in Marks
    /\ loading \in BOOLEAN /\ reloading \in BOOLEAN /\ pack \in BOOLEAN

FlipOK == flip \in Flip

(* The editor is empty only between the reload of the page and the first   *)
(* answer, and then it remembers nothing either.                           *)
WorkOK ==
    /\ doc \in Content \cup {NoDoc} /\ active \in Docs /\ origin \in Origins
    /\ past \in Seq(Content) /\ future \in Seq(Content)
    /\ adopt \in Content \cup {NoDoc} /\ snapshot \in Content \cup {NoDoc}
    /\ evicted \in Content \cup {NoDoc}
    /\ offered \in {"no", "screen", "banner"}
    /\ offered # "no" => evicted # NoDoc
    /\ doc = NoDoc => past = <<>> /\ future = <<>> /\ adopt = NoDoc /\ snapshot = NoDoc

(* The history holds no more documents than edits and merges were made;    *)
(* a remembered merge will add one more.                                   *)
HistoryOK ==
    /\ edits \in 0..MaxEdits /\ turns \in 0..MaxTurns
    /\ Len(past) + Len(future) + (IF snapshot = NoDoc THEN 0 ELSE 1) <= edits + (MaxTurns - turns)

(* A load that found a document holds a revision the server issued, and    *)
(* only the default document is ever created by a load.                    *)
LoadOK(l, s) ==
    /\ l \in Load /\ l.step # "none"
    /\ l.create => l.id = Home
    /\ l.step = "put" => l.create
    /\ (l.step \in {"got", "created"} /\ l.found = "found") => l.rev \in 1..s[l.id].rev

LoadsOK ==
    /\ loads \in Seq(Load) /\ Len(loads) > 0
    /\ \A i \in 1..Len(loads) : LoadOK(loads[i], server)

(* The loading mark stands for the newest load.                            *)
LoadingOK ==
    /\ (loading /\ ~pack) => loads[Len(loads)].step # "done"
    /\ reloading => \E i \in 1..Len(loads) : loads[i].reload /\ (loads[i].step # "done" \/ Stale(i))

(* An acknowledged save is the revision its new ETag names; one under way  *)
(* without ETag, and not blind, is of a document the server does not have. *)
SaveOK ==
    /\ save \in Save
    /\ save.step = "none" => save = NoSave
    /\ save.step # "none" => save.doc # NoDoc
    /\ save.step = "sent" => save.out = "none"
    /\ save.out = "ok" => /\ save.etag # NoEtag /\ save.etag.id = save.doc.id
                          /\ save.etag.rev <= server[save.etag.id].rev
                          /\ save.doc = Revision(save.etag.id, save.etag.rev)
    /\ (save.step = "sent" /\ save.etag = NoEtag /\ ~save.blind) =>
           save.doc.id # Home /\ server[save.doc.id].rev = 0

(* The ETag of the editor was issued.                                      *)
EtagOK ==
    /\ etag \in ETags \cup {NoEtag}
    /\ etag # NoEtag => etag.rev <= server[etag.id].rev

(* A document from the server has its ETag; a new one has none, and the    *)
(* server has nothing under its id until its first save is answered.       *)
OriginOK ==
    /\ (doc # NoDoc /\ origin \in {"server", "created"}) => etag # NoEtag
    /\ origin = "new" =>
          /\ active # Home
          /\ \/ server[active].rev = 0
             \/ save.step = "answered" /\ save.out = "ok" /\ save.doc.id = active

EInv ==
    /\ ServerOK /\ MarksOK /\ FlipOK /\ WorkOK /\ HistoryOK
    /\ LoadsOK /\ LoadingOK /\ SaveOK /\ EtagOK /\ OriginOK /\ CleanIsStored

LEMMA Bounds ==
  /\ MaxEdits \in Nat /\ MaxRevs \in Nat /\ MaxLoads \in Nat /\ MaxTurns \in Nat /\ MaxRevs > 0
  /\ Home \in Docs /\ "none" \notin Docs
  BY BoundsAssumption, DocsAssumption

LEMMA FirstLoadOK ==
  /\ FirstLoad \in Load /\ FirstLoad.create /\ FirstLoad.id = Home /\ FirstLoad.step = "get"
  /\ \A s : LoadOK(FirstLoad, s)
  <1>1. NoLoad \in Load /\ NoLoad.id = Home
    BY Bounds DEF NoLoad, Load
  <1>2. FirstLoad \in Load /\ FirstLoad.create /\ FirstLoad.id = Home /\ FirstLoad.step = "get"
    BY <1>1 DEF FirstLoad, Load
  <1>3. QED
    BY <1>2 DEF LoadOK

LEMMA InitEInv == Init => EInv
  <1> SUFFICES ASSUME Init PROVE EInv
    OBVIOUS
  <1> USE Bounds
  <1>1. ServerOK
    BY DEF Init, ServerOK, Stored
  <1>2. MarksOK /\ FlipOK
    BY DEF Init, MarksOK, Marks, FlipOK, NoFlip, Flip
  <1>3. WorkOK /\ OriginOK /\ CleanIsStored /\ EtagOK
    BY DEF Init, WorkOK, OriginOK, CleanIsStored, EtagOK, Origins
  <1>4. HistoryOK
    BY DEF Init, HistoryOK
  <1>5. LoadsOK /\ LoadingOK
    BY FirstLoadOK DEF Init, LoadsOK, LoadingOK
  <1>6. SaveOK
    BY DEF Init, SaveOK, NoSave, Save, NoDoc
  <1>7. QED
    BY <1>1, <1>2, <1>3, <1>4, <1>5, <1>6 DEF EInv

-----------------------------------------------------------------------------
(* The server.                                                             *)

(* The actions that leave the server alone.                                *)
AwayFromServer ==
    \/ UserActs
    \/ \E i \in 1..Len(loads) : ServerGet(i) \/ ReceiveLoad(i) \/ ReceiveCreate(i)
    \/ ReceiveSave \/ ReceiveFlip \/ ReceivePack \/ ReceiveAdopt
    \/ Crash \/ ReloadPage \/ Recover

LEMMA ServerUntouched == AwayFromServer => UNCHANGED server
  <1>1. UserActs => UNCHANGED server
    BY DEF UserActs, OpenRecent, StartFlip, ReloadAfterConflict, Edit, MoveCamera, Undo, Redo, StartSave,
           New, Duplicate, ImportDocument, OpenSample, ApplyMerge, UndoLastMerge, StartAdopt, DismissRecovery
  <1>2. QED
    BY Zenon, <1>1 DEF AwayFromServer, ServerGet, ReceiveLoad, ReceiveCreate, ReceiveSave, ReceiveFlip, ReceivePack,
                ReceiveAdopt, Crash, ReloadPage, Recover

(* A new revision adds its text and leaves the older ones.                 *)
LEMMA AddsRevision ==
  ASSUME ServerOK, NEW d \in Docs, NEW w \in SUBSET Edits, server[d].rev < MaxRevs
  PROVE  /\ NextRev(d, w) \in [Docs -> Stored]
         /\ NextRev(d, w)[d].rev = server[d].rev + 1
         /\ NextRev(d, w)[d].texts[server[d].rev + 1] = w
         /\ \A r \in 1..server[d].rev : NextRev(d, w)[d].texts[r] = server[d].texts[r]
         /\ \A e \in Docs : e # d => NextRev(d, w)[e] = server[e]
  <1> DEFINE s == server[d]
  <1> DEFINE t == [s EXCEPT !.rev = s.rev + 1, !.texts[s.rev + 1] = w]
  <1> USE Bounds
  <1>1. s \in Stored
    BY DEF ServerOK
  <1>2. s.rev + 1 \in 1..MaxRevs
    BY <1>1 DEF Stored
  <1>3. /\ t \in Stored /\ t.rev = s.rev + 1 /\ t.texts[s.rev + 1] = w
        /\ \A r \in 1..s.rev : t.texts[r] = s.texts[r]
    <2>1. t.rev = s.rev + 1 /\ t.texts = [s.texts EXCEPT ![s.rev + 1] = w]
      BY <1>1 DEF Stored
    <2>2. \A u \in Stored, n \in 0..MaxRevs, f \in [1..MaxRevs -> SUBSET Edits] :
            [u EXCEPT !.rev = n, !.texts = f] \in Stored
      BY DEF Stored
    <2>3. s.texts \in [1..MaxRevs -> SUBSET Edits]
      BY <1>1 DEF Stored
    <2>4. [s.texts EXCEPT ![s.rev + 1] = w] \in [1..MaxRevs -> SUBSET Edits]
      BY <1>2, <2>3
    <2>5. t = [s EXCEPT !.rev = s.rev + 1, !.texts = [s.texts EXCEPT ![s.rev + 1] = w]]
      BY <1>1 DEF Stored
    <2>6. t.texts[s.rev + 1] = w /\ \A r \in 1..s.rev : t.texts[r] = s.texts[r]
      BY <1>1, <1>2, <2>1, <2>3 DEF Stored
    <2>7. t \in Stored
      <3>1. s.rev + 1 \in 0..MaxRevs
        BY <1>1, <1>2 DEF Stored
      <3> HIDE DEF s, t
      <3>2. QED
        BY Zenon, <1>1, <2>2, <2>4, <2>5, <3>1
    <2>8. QED
      BY <2>1, <2>6, <2>7
  <1>4. NextRev(d, w) = [server EXCEPT ![d] = t]
    BY <1>1, <1>2 DEF NextRev, ServerOK, Stored
  <1> HIDE DEF t
  <1>5. NextRev(d, w)[d] = t /\ \A e \in Docs : e # d => NextRev(d, w)[e] = server[e]
    BY <1>4 DEF ServerOK
  <1>6. QED
    BY <1>3, <1>4, <1>5 DEF ServerOK

(* Revisions are never taken back or rewritten.                            *)
ServerGrows ==
    \A d \in Docs : /\ server'[d].rev >= server[d].rev
                    /\ \A r \in 1..server[d].rev : server'[d].texts[r] = server[d].texts[r]

LEMMA Grows == ASSUME EInv, Next PROVE ServerOK' /\ ServerGrows
  <1>1. ServerOK /\ (\A d \in Docs : server[d] \in Stored /\ server[d].rev \in Nat)
    BY DEF EInv, ServerOK, Stored
  <1>2. ASSUME UNCHANGED server PROVE ServerOK' /\ ServerGrows
    BY <1>1, <1>2 DEF ServerOK, ServerGrows
  <1>3. ASSUME NEW d \in Docs, NEW w \in SUBSET Edits, server[d].rev < MaxRevs, server' = NextRev(d, w)
        PROVE  ServerOK' /\ ServerGrows
    BY <1>1, <1>3, AddsRevision DEF ServerOK, ServerGrows
  <1>4. CASE AwayFromServer
    BY <1>2, <1>4, ServerUntouched
  <1>5. ASSUME NEW i \in 1..Len(loads), ServerCreate(i) PROVE ServerOK' /\ ServerGrows
    <2>1. loads \in Seq(Load)
      BY DEF EInv, LoadsOK
    <2> loads[i] \in Load
      BY <1>5, <2>1
    <2>0. loads[i].id \in Docs
      BY DEF Load
    <2>2. CASE UNCHANGED server
      BY <1>2, <2>2
    <2>3. CASE server[loads[i].id].rev < MaxRevs /\ server' = NextRev(loads[i].id, {})
      BY <1>3, <2>0, <2>3
    <2>4. QED
      BY <1>5, <2>2, <2>3 DEF ServerCreate
  <1>6. ASSUME ServerPut PROVE ServerOK' /\ ServerGrows
    <2>1. save.doc \in Content
      BY <1>6 DEF EInv, SaveOK, Save, ServerPut
    <2>2. save.doc.id \in Docs /\ save.doc.work \in SUBSET Edits
      BY <2>1 DEF Content
    <2>3. CASE UNCHANGED server
      BY <1>2, <2>3
    <2>4. CASE server[save.doc.id].rev < MaxRevs /\ server' = NextRev(save.doc.id, save.doc.work)
      BY <1>3, <2>2, <2>4
    <2>5. QED
      BY <1>6, <2>3, <2>4 DEF ServerPut
  <1>7. ASSUME ServerFlip PROVE ServerOK' /\ ServerGrows
    <2>1. flip.id \in Docs /\ flip.archive \in BOOLEAN
      BY DEF EInv, FlipOK, Flip
    <2>2. CASE UNCHANGED server
      BY <1>2, <2>2
    <2>3. CASE server' = [server EXCEPT ![flip.id].archived = flip.archive]
      <3>1. server'[flip.id] \in Stored /\ server'[flip.id].rev = server[flip.id].rev
            /\ server'[flip.id].texts = server[flip.id].texts
        BY <1>1, <2>1, <2>3 DEF ServerOK, Stored
      <3>2. \A d \in Docs : d # flip.id => server'[d] = server[d]
        BY <1>1, <2>1, <2>3 DEF ServerOK
      <3>3. ServerOK'
        BY <1>1, <2>3, <3>1, <3>2 DEF ServerOK
      <3>4. QED
        BY <1>1, <3>1, <3>2, <3>3 DEF ServerGrows
    <2>4. QED
      BY <1>7, <2>2, <2>3 DEF ServerFlip
  <1>8. ASSUME NEW d \in Docs, OtherSaves(d) PROVE ServerOK' /\ ServerGrows
    <2>1. server[d].rev \in 1..(MaxRevs - 1) /\ edits < MaxEdits /\ edits \in Nat
          /\ server' = NextRev(d, server[d].texts[server[d].rev] \cup {edits + 1})
      BY <1>8 DEF OtherSaves, EInv, HistoryOK
    <2>2. server[d].rev < MaxRevs
      BY <2>1, Bounds
    <2>3. server[d].texts[server[d].rev] \in SUBSET Edits
      BY <1>1, <2>1, Bounds DEF Stored
    <2>4. edits + 1 \in Edits
      BY <2>1, Bounds DEF Edits
    <2>5. QED
      BY <1>3, <2>1, <2>2, <2>3, <2>4
  <1>9. QED
    BY <1>4, <1>5, <1>6, <1>7, <1>8 DEF Next, Answers, AwayFromServer

-----------------------------------------------------------------------------
(* The marks, and the call that archives.                                  *)

LEMMA MarksAreMarks ==
  ASSUME MarksOK
  PROVE  /\ Mark(Clean) \in Marks /\ Mark(Dirty) \in Marks
         /\ \A b \in BOOLEAN : /\ [marks EXCEPT !.archived = b] \in Marks
                               /\ [marks EXCEPT !.dirty = b] \in Marks
                               /\ [marks EXCEPT !.conflict = b] \in Marks
  BY DEF MarksOK, Marks, Mark, Clean, Dirty

LEMMA ApplyMarks == ASSUME MarksOK, NEW b, NEW n, Apply(b, n) PROVE marks' \in Marks
  BY MarksAreMarks DEF Apply, MarksOK

LEMMA LoadMarks ==
  ASSUME MarksOK, NEW d, NEW r \in BOOLEAN, NEW c, NEW s, NEW a \in BOOLEAN, StartLoad(d, r, c, s, a)
  PROVE  marks' \in Marks /\ loading' = TRUE /\ reloading' \in BOOLEAN
  BY MarksAreMarks DEF StartLoad, MarksOK

LEMMA AnswerMarks ==
  ASSUME MarksOK, NEW i, ReceiveLoad(i) \/ ReceiveCreate(i)
  PROVE  marks' \in Marks /\ loading' \in BOOLEAN /\ reloading' \in BOOLEAN
  <1>1. \A from : Show(i, from) => marks' \in Marks
    BY MarksAreMarks DEF Show
  <1>2. LoadRefused(i) => marks' \in Marks
    BY MarksAreMarks DEF LoadRefused, BuiltInSample, MarksOK
  <1>3. EndLoad(i) => loading' \in BOOLEAN /\ reloading' \in BOOLEAN
    BY DEF EndLoad
  <1>4. QED
    BY <1>1, <1>2, <1>3 DEF ReceiveLoad, ReceiveCreate, MarksOK

LEMMA MarksStep == ASSUME EInv, Next PROVE MarksOK' /\ FlipOK'
  <1> USE MarksAreMarks DEF EInv
  <1>0. MarksOK /\ FlipOK /\ ServerOK
    OBVIOUS
  <1>1. ASSUME NEW d \in Docs, OpenRecent(d) PROVE MarksOK' /\ FlipOK'
    <2>1. server[d].archived \in BOOLEAN
      BY <1>0 DEF ServerOK, Stored
    <2>2. QED
      BY <1>0, <1>1, <2>1, LoadMarks DEF OpenRecent, MarksOK, FlipOK
  <1>2. ASSUME ReloadAfterConflict PROVE MarksOK' /\ FlipOK'
    BY <1>0, <1>2, LoadMarks DEF ReloadAfterConflict, MarksOK, FlipOK
  <1>3. ASSUME Edit \/ ApplyMerge \/ UndoLastMerge PROVE MarksOK' /\ FlipOK'
    BY <1>0, <1>3, ApplyMarks DEF Edit, ApplyMerge, UndoLastMerge, MarksOK, FlipOK
  <1>4. ASSUME MoveCamera \/ Undo \/ Redo \/ StartSave \/ StartAdopt \/ DismissRecovery \/ OpenSample
        PROVE  MarksOK' /\ FlipOK'
    BY <1>0, <1>4 DEF MoveCamera, Undo, Redo, StartSave, StartAdopt, DismissRecovery, OpenSample, MarksOK, FlipOK
  <1>5. ASSUME New \/ Duplicate \/ ImportDocument PROVE MarksOK' /\ FlipOK'
    BY <1>0, <1>5 DEF New, Duplicate, ImportDocument, MarksOK, FlipOK
  <1>6. ASSUME NEW d \in Docs, StartFlip(d) PROVE MarksOK' /\ FlipOK'
    BY <1>0, <1>6 DEF StartFlip, MarksOK, FlipOK, Flip
  <1>7. ASSUME ServerFlip \/ ReceiveFlip PROVE MarksOK' /\ FlipOK'
    <2>1. CASE ServerFlip
      BY <1>0, <2>1 DEF ServerFlip, MarksOK, FlipOK, Flip
    <2>2. CASE ReceiveFlip
      BY <1>0, <2>2, Bounds DEF ReceiveFlip, MarksOK, FlipOK, Flip, NoFlip
    <2>3. QED
      BY <1>7, <2>1, <2>2
  <1>8. ASSUME NEW i \in 1..Len(loads), ReceiveLoad(i) \/ ReceiveCreate(i) PROVE MarksOK' /\ FlipOK'
    BY Zenon, <1>0, <1>8, AnswerMarks DEF ReceiveLoad, ReceiveCreate, MarksOK, FlipOK
  <1>9. ASSUME NEW i \in 1..Len(loads), ServerGet(i) \/ ServerCreate(i) PROVE MarksOK' /\ FlipOK'
    BY <1>0, <1>9 DEF ServerGet, ServerCreate, MarksOK, FlipOK
  <1>10. ASSUME ServerPut \/ ReceiveSave PROVE MarksOK' /\ FlipOK'
    BY <1>0, <1>10 DEF ServerPut, ReceiveSave, SaveOk, MarksOK, FlipOK
  <1>11. ASSUME ReceivePack \/ ReceiveAdopt PROVE MarksOK' /\ FlipOK'
    <2>1. CASE ReceiveAdopt
      BY <1>0, <2>1, ApplyMarks DEF ReceiveAdopt, MarksOK, FlipOK
    <2>2. CASE ReceivePack
      <3>1. BuiltInSample => marks' \in Marks
        BY <1>0 DEF BuiltInSample
      <3>2. QED
        BY <1>0, <2>2, <3>1, LoadMarks DEF ReceivePack, MarksOK, FlipOK
    <2>3. QED
      BY <1>11, <2>1, <2>2
  <1>12. ASSUME Crash \/ Recover PROVE MarksOK' /\ FlipOK'
    BY <1>0, <1>12 DEF Crash, Recover, MarksOK, FlipOK
  <1>13. ASSUME ReloadPage PROVE MarksOK' /\ FlipOK'
    BY <1>0, <1>13, Bounds DEF ReloadPage, MarksOK, Marks, FlipOK, Flip, NoFlip
  <1>14. ASSUME NEW d \in Docs, OtherSaves(d) PROVE MarksOK' /\ FlipOK'
    BY <1>0, <1>14 DEF OtherSaves, MarksOK, FlipOK
  <1>15. QED
    BY <1>1, <1>2, <1>3, <1>4, <1>5, <1>6, <1>7, <1>8, <1>9, <1>10, <1>11, <1>12, <1>13, <1>14
       DEF Next, UserActs, Answers

-----------------------------------------------------------------------------
(* The document, its history and the copies remembered of it.              *)

LEMMA ContentIsWork ==
  /\ NoDoc \notin Content
  /\ \A d \in Docs : [id |-> d, work |-> {}] \in Content
  /\ \A c \in Content, d \in Docs : [c EXCEPT !.id = d] \in Content
  /\ \A c \in Content, n \in SUBSET Edits : [c EXCEPT !.work = @ \cup n] \in Content
  BY Bounds DEF Content, NoDoc

LEMMA NextEdit == ASSUME HistoryOK, edits < MaxEdits PROVE {edits + 1} \in SUBSET Edits
  BY Bounds DEF HistoryOK, Edits

LEMMA PutWork ==
  ASSUME WorkOK, NEW d \in Content, NEW from \in Origins, Replace(d, from),
         UNCHANGED <<adopt, snapshot, evicted, offered>>
  PROVE  WorkOK'
  <1>1. d # NoDoc /\ d.id \in Docs
    BY ContentIsWork DEF Content
  <1>2. QED
    BY <1>1 DEF WorkOK, Replace

LEMMA ApplyWork ==
  ASSUME WorkOK, doc # NoDoc, NEW base \in Content, NEW n \in SUBSET Edits, Apply(base, n)
  PROVE  doc' \in Content /\ past' \in Seq(Content) /\ future' \in Seq(Content)
  <1>1. [base EXCEPT !.work = @ \cup n] \in Content
    BY ContentIsWork
  <1>2. CASE isReadOnly
    BY <1>2 DEF Apply, WorkOK
  <1>3. CASE ~isReadOnly
    <2>1. past \in Seq(Content) /\ doc \in Content
      BY DEF WorkOK
    <2>2. Append(past, doc) \in Seq(Content) /\ <<>> \in Seq(Content)
      BY <2>1
    <2>3. QED
      BY <1>1, <1>3, <2>2 DEF Apply
  <1>4. QED
    BY <1>2, <1>3

LEMMA RevisionIsWork ==
  ASSUME ServerOK, NEW d \in Docs, NEW r \in 1..MaxRevs PROVE Revision(d, r) \in Content
  BY Bounds DEF ServerOK, Stored, Revision, Content

LEMMA WorkStep == ASSUME EInv, Next PROVE WorkOK'
  <1>0. WorkOK /\ ServerOK /\ HistoryOK /\ LoadsOK /\ SaveOK
    BY DEF EInv
  <1> USE ContentIsWork
  <1>1. ASSUME UNCHANGED <<doc, active, past, future, origin, adopt, snapshot, evicted, offered>> PROVE WorkOK'
    BY <1>0, <1>1 DEF WorkOK
  <1>2. ASSUME New \/ Duplicate \/ ImportDocument PROVE WorkOK'
    <2>1. UNCHANGED <<adopt, snapshot, evicted, offered>>
      BY <1>2 DEF New, Duplicate, ImportDocument
    <2>2. \E d \in Content, from \in Origins : Replace(d, from)
      BY <1>0, <1>2 DEF New, Duplicate, ImportDocument, WorkOK, FreshIds, Origins
    <2>3. QED
      BY <1>0, <2>1, <2>2, PutWork
  <1>3. ASSUME Edit \/ ApplyMerge PROVE WorkOK'
    <2>1. doc \in Content /\ doc # NoDoc /\ Apply(doc, {edits + 1}) /\ {edits + 1} \in SUBSET Edits
      BY <1>0, <1>3, NextEdit DEF Edit, ApplyMerge, WorkOK
    <2>2. doc' \in Content /\ past' \in Seq(Content) /\ future' \in Seq(Content)
      BY <1>0, <2>1, ApplyWork
    <2>3. QED
      BY <1>0, <1>3, <2>1, <2>2 DEF Edit, ApplyMerge, WorkOK
  <1>4. ASSUME UndoLastMerge PROVE WorkOK'
    <2>1. snapshot \in Content /\ doc # NoDoc /\ Apply(snapshot, {}) /\ {} \in SUBSET Edits
      BY <1>0, <1>4 DEF UndoLastMerge, WorkOK
    <2>2. doc' \in Content /\ past' \in Seq(Content) /\ future' \in Seq(Content)
      BY <1>0, <2>1, ApplyWork
    <2>3. QED
      BY <1>0, <1>4, <2>2 DEF UndoLastMerge, WorkOK
  <1>5. ASSUME ReceiveAdopt PROVE WorkOK'
    <2>1. adopt \in Content /\ doc # NoDoc /\ doc \in Content
      BY <1>0, <1>5 DEF ReceiveAdopt, WorkOK
    <2>2. CASE edits < MaxEdits /\ Apply(adopt, {edits + 1})
      <3>1. doc' \in Content /\ past' \in Seq(Content) /\ future' \in Seq(Content)
        BY <1>0, <2>1, <2>2, NextEdit, ApplyWork
      <3>2. QED
        BY <1>0, <1>5, <3>1 DEF ReceiveAdopt, WorkOK
    <2>3. CASE UNCHANGED <<doc, past, future>>
      BY <1>0, <1>5, <2>1, <2>3 DEF ReceiveAdopt, WorkOK
    <2>4. QED
      BY <1>5, <2>2, <2>3 DEF ReceiveAdopt
  <1>6. ASSUME Undo PROVE WorkOK'
    <2>1. doc \in Content /\ past \in Seq(Content) /\ past # <<>> /\ future \in Seq(Content)
      BY <1>0, <1>6 DEF Undo, WorkOK
    <2>2. past[Len(past)] \in Content /\ SubSeq(past, 1, Len(past) - 1) \in Seq(Content)
      BY <2>1
    <2>3. <<doc>> \o future \in Seq(Content)
      BY <2>1
    <2>4. QED
      BY <1>0, <1>6, <2>2, <2>3 DEF Undo, WorkOK
  <1>7. ASSUME Redo PROVE WorkOK'
    <2>1. doc \in Content /\ future \in Seq(Content) /\ future # <<>> /\ past \in Seq(Content)
      BY <1>0, <1>7 DEF Redo, WorkOK
    <2>2. Head(future) \in Content /\ Tail(future) \in Seq(Content)
      BY <2>1
    <2>3. Append(past, doc) \in Seq(Content)
      BY <2>1
    <2>4. QED
      BY <1>0, <1>7, <2>2, <2>3 DEF Redo, WorkOK
  <1>8. ASSUME StartAdopt \/ Crash \/ DismissRecovery PROVE WorkOK'
    BY <1>0, <1>8 DEF StartAdopt, Crash, DismissRecovery, WorkOK
  <1>9. ASSUME Recover PROVE WorkOK'
    <2>1. evicted \in Content
      BY <1>0, <1>9 DEF Recover, WorkOK
    <2>2. QED
      BY <1>0, <1>9, <2>1 DEF Recover, Replace, WorkOK, Content, Origins
  <1>10. ASSUME ReloadPage PROVE WorkOK'
    BY <1>0, <1>10, Bounds DEF ReloadPage, WorkOK, Origins
  <1>11. ASSUME ReceivePack PROVE WorkOK'
    <2>1. UNCHANGED <<adopt, snapshot, evicted, offered>>
      BY <1>11 DEF ReceivePack
    <2>2. CASE UNCHANGED <<doc, active, past, future, origin>>
      BY <1>1, <2>1, <2>2
    <2>3. CASE \E d \in Docs : Replace([id |-> d, work |-> {}], "sample")
      BY <1>0, <2>1, <2>3, PutWork DEF Origins
    <2>4. QED
      BY <1>11, <2>2, <2>3, Bounds DEF ReceivePack, BuiltInSample
  <1>12. ASSUME NEW i \in 1..Len(loads), ReceiveLoad(i) \/ ReceiveCreate(i) PROVE WorkOK'
    <2>1. UNCHANGED <<adopt, snapshot, evicted, offered>>
      BY <1>12 DEF ReceiveLoad, ReceiveCreate
    <2>2. CASE UNCHANGED <<doc, active, past, future, origin>>
      BY <1>1, <2>1, <2>2
    <2>3. CASE BuiltInSample
      BY <1>0, <2>1, <2>3, PutWork, Bounds DEF BuiltInSample, Origins
    <2>4. CASE loads[i].found = "found" /\ (Show(i, "server") \/ Show(i, "created"))
      <3>1. loads[i] \in Load /\ loads[i].rev \in 1..server[loads[i].id].rev
        BY <1>0, <1>12, <2>4 DEF LoadsOK, LoadOK, ReceiveLoad, ReceiveCreate
      <3>2. loads[i].id \in Docs /\ server[loads[i].id].rev \in 0..MaxRevs
        BY <1>0, <3>1 DEF Load, ServerOK, Stored
      <3>3. Revision(loads[i].id, loads[i].rev) \in Content
        BY <1>0, <3>1, <3>2, Bounds, RevisionIsWork
      <3>4. QED
        BY <1>0, <2>1, <2>4, <3>3, PutWork DEF Show, Origins
    <2>5. QED
      BY <1>12, <2>2, <2>3, <2>4 DEF ReceiveLoad, ReceiveCreate, LoadRefused
  <1>13. ASSUME ReceiveSave PROVE WorkOK'
    <2>1. UNCHANGED <<adopt, snapshot, evicted, offered>>
      BY <1>13 DEF ReceiveSave
    <2>2. CASE UNCHANGED <<doc, active, past, future, origin>>
      BY <1>1, <2>1, <2>2
    <2>3. CASE SaveOk
      <3>1. save.doc \in Content
        BY <1>0, <1>13 DEF SaveOK, Save, ReceiveSave
      <3>2. QED
        BY <1>0, <2>1, <2>3, <3>1, PutWork DEF SaveOk, Origins
    <2>4. QED
      BY <1>13, <2>2, <2>3 DEF ReceiveSave
  <1>14. ASSUME \/ \E d \in Docs : OpenRecent(d) \/ StartFlip(d) \/ OtherSaves(d)
                \/ \E i \in 1..Len(loads) : ServerGet(i) \/ ServerCreate(i)
                \/ ReloadAfterConflict \/ MoveCamera \/ StartSave \/ OpenSample
                \/ ServerPut \/ ServerFlip \/ ReceiveFlip
         PROVE  WorkOK'
    BY Zenon, <1>1, <1>14 DEF OpenRecent, StartFlip, OtherSaves, ServerGet, ServerCreate, ReloadAfterConflict, MoveCamera,
                       StartSave, OpenSample, ServerPut, ServerFlip, ReceiveFlip
  <1>15. QED
    BY <1>2, <1>3, <1>4, <1>5, <1>6, <1>7, <1>8, <1>9, <1>10, <1>11, <1>12, <1>13, <1>14
       DEF Next, UserActs, Answers

(* How much the editor remembers.                                          *)
Remembered == Len(past) + Len(future) + (IF snapshot = NoDoc THEN 0 ELSE 1)

(* A change remembers one document more and forgets the undone ones.       *)
LEMMA ApplyLength ==
  ASSUME WorkOK, NEW base, NEW n, Apply(base, n)
  PROVE  /\ Len(past') \in Nat /\ Len(future') \in Nat
         /\ Len(past') + Len(future') <= Len(past) + Len(future) + 1
  <1>1. past \in Seq(Content) /\ future \in Seq(Content) /\ Len(past) \in Nat /\ Len(future) \in Nat
    BY DEF WorkOK
  <1>2. Len(Append(past, doc)) = Len(past) + 1 /\ Len(<<>>) = 0
    BY <1>1
  <1>3. CASE isReadOnly
    BY <1>1, <1>3 DEF Apply
  <1>4. CASE ~isReadOnly
    BY <1>1, <1>2, <1>4 DEF Apply
  <1>5. QED
    BY <1>3, <1>4

LEMMA HistoryStep == ASSUME EInv, Next PROVE HistoryOK'
  <1>0. WorkOK /\ HistoryOK
    BY DEF EInv
  <1>a. past \in Seq(Content) /\ future \in Seq(Content) /\ Len(past) \in Nat /\ Len(future) \in Nat
    BY <1>0 DEF WorkOK
  <1>b. edits \in Nat /\ turns \in Nat /\ edits \in 0..MaxEdits /\ turns \in 0..MaxTurns
        /\ Remembered <= edits + (MaxTurns - turns)
    BY <1>0, Bounds DEF HistoryOK, Remembered
  <1>c. Len(<<>>) = 0
    OBVIOUS
  <1> USE Bounds
  <1>1. ASSUME UNCHANGED <<past, future, snapshot, edits>>, turns' = turns \/ TakeTurn PROVE HistoryOK'
    BY <1>a, <1>b, <1>1 DEF HistoryOK, Remembered, TakeTurn
  <1>2. ASSUME past' = <<>>, future' = <<>>, UNCHANGED <<snapshot, edits>>, turns' = turns \/ TakeTurn
        PROVE  HistoryOK'
    BY <1>a, <1>b, <1>c, <1>2 DEF HistoryOK, Remembered, TakeTurn
  <1>3. ASSUME Edit PROVE HistoryOK'
    <2>1. Len(past') \in Nat /\ Len(future') \in Nat /\ Len(past') + Len(future') <= Len(past) + Len(future) + 1
      BY <1>0, <1>3, ApplyLength DEF Edit
    <2>2. QED
      BY <1>3, <1>a, <1>b, <2>1 DEF Edit, HistoryOK, Remembered
  <1>4. ASSUME ApplyMerge PROVE HistoryOK'
    <2>1. Len(past') \in Nat /\ Len(future') \in Nat /\ Len(past') + Len(future') <= Len(past) + Len(future) + 1
      BY <1>0, <1>4, ApplyLength DEF ApplyMerge
    <2>2. QED
      BY <1>4, <1>a, <1>b, <2>1 DEF ApplyMerge, TakeTurn, HistoryOK, Remembered
  <1>5. ASSUME UndoLastMerge PROVE HistoryOK'
    <2>1. Len(past') \in Nat /\ Len(future') \in Nat /\ Len(past') + Len(future') <= Len(past) + Len(future) + 1
      BY <1>0, <1>5, ApplyLength DEF UndoLastMerge
    <2>2. QED
      BY <1>5, <1>a, <1>b, <2>1 DEF UndoLastMerge, HistoryOK, Remembered
  <1>6. ASSUME ReceiveAdopt PROVE HistoryOK'
    <2>1. CASE edits < MaxEdits /\ edits' = edits + 1 /\ Apply(adopt, {edits + 1})
      <3>1. Len(past') \in Nat /\ Len(future') \in Nat /\ Len(past') + Len(future') <= Len(past) + Len(future) + 1
        BY <1>0, <2>1, ApplyLength
      <3>2. QED
        BY <1>6, <1>a, <1>b, <2>1, <3>1 DEF ReceiveAdopt, HistoryOK, Remembered
    <2>2. CASE UNCHANGED <<past, future, edits>>
      BY <1>1, <1>6, <2>2 DEF ReceiveAdopt
    <2>3. QED
      BY <1>6, <2>1, <2>2 DEF ReceiveAdopt
  <1>7. ASSUME Undo PROVE HistoryOK'
    <2>1. past # <<>> /\ Len(past) > 0
      BY <1>7, <1>a DEF Undo
    <2>2. Len(SubSeq(past, 1, Len(past) - 1)) = Len(past) - 1
      <3>1. \A i \in 1..(Len(past) - 1) : past[i] \in Content
        BY <1>a
      <3>2. Len(past) - 1 \in Int /\ 1 \in Int
        BY <1>a
      <3>3. Len(SubSeq(past, 1, Len(past) - 1)) = IF 1 <= Len(past) - 1 THEN (Len(past) - 1) - 1 + 1 ELSE 0
        BY <3>1, <3>2, SubSeqProperties
      <3> DEFINE l == Len(past)
      <3> DEFINE m == Len(SubSeq(past, 1, l - 1))
      <3>4. l \in Nat /\ l > 0 /\ m = IF 1 <= l - 1 THEN (l - 1) - 1 + 1 ELSE 0
        BY <1>a, <2>1, <3>3
      <3> HIDE DEF l, m
      <3>5. m = l - 1
        BY <3>4
      <3>6. QED
        BY <3>5 DEF l, m
    <2>3. doc \in Content
      BY <1>0, <2>1 DEF WorkOK
    <2>4. <<doc>> \in Seq(Content) /\ Len(<<doc>>) = 1
      BY <2>3
    <2>5. Len(<<doc>> \o future) = Len(future) + 1
      BY <1>a, <2>4
    <2>6. Len(past') = Len(past) - 1 /\ Len(future') = Len(future) + 1
      BY <1>7, <2>2, <2>5 DEF Undo
    <2>7. UNCHANGED <<snapshot, edits, turns>>
      BY <1>7 DEF Undo
    <2>8. QED
      BY <1>a, <1>b, <2>6, <2>7 DEF HistoryOK, Remembered
  <1>8. ASSUME Redo PROVE HistoryOK'
    <2>1. future # <<>> /\ Len(future) > 0
      BY <1>8, <1>a DEF Redo
    <2>2. Len(Append(past, doc)) = Len(past) + 1 /\ Len(Tail(future)) = Len(future) - 1
      BY <1>a, <2>1
    <2>3. QED
      BY <1>8, <1>a, <1>b, <2>1, <2>2 DEF Redo, HistoryOK, Remembered
  <1>9. ASSUME NEW d \in Docs, OtherSaves(d) PROVE HistoryOK'
    BY <1>9, <1>a, <1>b DEF OtherSaves, TakeTurn, HistoryOK, Remembered
  <1>10. ASSUME ReloadPage PROVE HistoryOK'
    BY <1>10, <1>a, <1>b, <1>c DEF ReloadPage, TakeTurn, HistoryOK, Remembered
  <1>11. ASSUME New \/ Duplicate \/ ImportDocument \/ Recover PROVE HistoryOK'
    BY <1>2, <1>11 DEF New, Duplicate, ImportDocument, Recover, Replace
  <1>12. ASSUME ReceiveSave \/ ReceivePack PROVE HistoryOK'
    BY <1>1, <1>2, <1>12 DEF ReceiveSave, SaveOk, ReceivePack, BuiltInSample, Replace
  <1>13. ASSUME NEW i \in 1..Len(loads), ReceiveLoad(i) \/ ReceiveCreate(i) PROVE HistoryOK'
    BY <1>1, <1>2, <1>13 DEF ReceiveLoad, ReceiveCreate, Show, LoadRefused, BuiltInSample, Replace
  <1>14. ASSUME \/ \E d \in Docs : OpenRecent(d) \/ StartFlip(d)
                \/ \E i \in 1..Len(loads) : ServerGet(i) \/ ServerCreate(i)
                \/ ReloadAfterConflict \/ MoveCamera \/ StartSave \/ OpenSample \/ StartAdopt \/ DismissRecovery
                \/ ServerPut \/ ServerFlip \/ ReceiveFlip \/ Crash
         PROVE  HistoryOK'
    BY Zenon, <1>1, <1>14 DEF OpenRecent, StartFlip, ServerGet, ServerCreate, ReloadAfterConflict, MoveCamera, StartSave,
                       OpenSample, StartAdopt, DismissRecovery, ServerPut, ServerFlip, ReceiveFlip, Crash
  <1>15. QED
    BY <1>3, <1>4, <1>5, <1>6, <1>7, <1>8, <1>9, <1>10, <1>11, <1>12, <1>13, <1>14
       DEF Next, UserActs, Answers

-----------------------------------------------------------------------------
(* The loads.                                                              *)

LEMMA LoadKept ==
  ASSUME ServerOK, ServerOK', ServerGrows, NEW l, LoadOK(l, server)
  PROVE  LoadOK(l, server')
  <1>1. l.id \in Docs /\ l.rev \in Nat
    BY Bounds DEF LoadOK, Load
  <1>2. server[l.id].rev \in Nat /\ server'[l.id].rev \in Nat /\ server'[l.id].rev >= server[l.id].rev
    BY <1>1, Bounds DEF ServerOK, Stored, ServerGrows
  <1>3. QED
    BY <1>1, <1>2 DEF LoadOK

LEMMA OneLoad ==
  ASSUME LoadsOK, ServerOK, ServerOK', ServerGrows, NEW i \in 1..Len(loads), NEW l, LoadOK(l, server'),
         loads' = [loads EXCEPT ![i] = l]
  PROVE  /\ LoadsOK' /\ Len(loads') = Len(loads) /\ loads'[i] = l
         /\ \A j \in 1..Len(loads) : j # i => loads'[j] = loads[j]
  <1>1. l \in Load
    BY DEF LoadOK
  <1>2. loads \in Seq(Load) /\ Len(loads) > 0
    BY DEF LoadsOK
  <1>3. loads' \in Seq(Load) /\ Len(loads') = Len(loads) /\ loads'[i] = l
        /\ \A j \in 1..Len(loads) : j # i => loads'[j] = loads[j]
    BY <1>1, <1>2
  <1>4. \A j \in 1..Len(loads) : LoadOK(loads'[j], server')
    <2> SUFFICES ASSUME NEW j \in 1..Len(loads) PROVE LoadOK(loads'[j], server')
      OBVIOUS
    <2>1. CASE j = i
      BY <1>3, <2>1
    <2>2. CASE j # i
      <3>1. LoadOK(loads[j], server)
        BY DEF LoadsOK
      <3>2. QED
        BY <1>3, <2>2, <3>1, LoadKept
    <2>3. QED
      BY <2>1, <2>2
  <1>5. QED
    BY <1>2, <1>3, <1>4 DEF LoadsOK

(* Starting a load adds one that is under way.                             *)
LEMMA NewLoad ==
  ASSUME LoadsOK, ServerOK, ServerOK', ServerGrows, NEW d \in Docs, NEW r \in BOOLEAN, NEW c \in BOOLEAN,
         NEW s \in BOOLEAN, NEW a, c => d = Home, StartLoad(d, r, c, s, a)
  PROVE  /\ LoadsOK' /\ Len(loads') = Len(loads) + 1
         /\ loads'[Len(loads) + 1].step = "get" /\ loads'[Len(loads) + 1].reload = r
         /\ \A j \in 1..Len(loads) : loads'[j] = loads[j]
  <1> DEFINE l == [NoLoad EXCEPT !.step = "get", !.id = d, !.reload = r, !.create = c, !.sample = s]
  <1>1. NoLoad \in Load
    BY Bounds DEF NoLoad, Load
  <1>2. /\ l \in Load /\ l.step = "get" /\ l.id = d /\ l.reload = r /\ l.create = c
    BY <1>1 DEF Load
  <1>3. loads' = Append(loads, l)
    BY DEF StartLoad
  <1> HIDE DEF l
  <1>4. loads \in Seq(Load) /\ Len(loads) \in Nat /\ Len(loads) > 0
    BY DEF LoadsOK
  <1>5. /\ loads' \in Seq(Load) /\ Len(loads') = Len(loads) + 1 /\ loads'[Len(loads) + 1] = l
        /\ \A j \in 1..Len(loads) : loads'[j] = loads[j]
    BY <1>2, <1>3, <1>4
  <1>6. LoadOK(l, server')
    BY <1>2 DEF LoadOK
  <1>7. \A j \in 1..Len(loads') : LoadOK(loads'[j], server')
    <2> SUFFICES ASSUME NEW j \in 1..Len(loads') PROVE LoadOK(loads'[j], server')
      OBVIOUS
    <2>1. CASE j = Len(loads) + 1
      BY <1>5, <1>6, <2>1
    <2>2. CASE j \in 1..Len(loads)
      BY <1>5, <2>2, LoadKept DEF LoadsOK
    <2>3. QED
      BY <1>4, <1>5, <2>1, <2>2
  <1>8. QED
    BY <1>2, <1>4, <1>5, <1>7 DEF LoadsOK

LEMMA SameLoads ==
  ASSUME LoadsOK, ServerOK, ServerOK', ServerGrows, UNCHANGED loads PROVE LoadsOK'
  BY LoadKept DEF LoadsOK

(* What an answer does to its load: the load stays the same request, and   *)
(* goes on or is done.                                                     *)
LEMMA AnsweredLoad ==
  ASSUME LoadsOK, ServerOK, ServerOK', ServerGrows, NEW i \in 1..Len(loads),
         ServerGet(i) \/ ReceiveLoad(i) \/ ServerCreate(i) \/ ReceiveCreate(i)
  PROVE  /\ LoadsOK' /\ Len(loads') = Len(loads) /\ loads'[i].reload = loads[i].reload
         /\ loads[i].step # "done"
         /\ \A j \in 1..Len(loads) : j # i => loads'[j] = loads[j]
  <1> USE Bounds
  <1>1. LoadOK(loads[i], server) /\ loads[i] \in Load /\ loads \in Seq(Load)
    BY DEF LoadsOK, LoadOK
  <1>2. loads[i].id \in Docs /\ server[loads[i].id].rev \in 0..MaxRevs /\ server'[loads[i].id].rev \in 0..MaxRevs
        /\ server'[loads[i].id].rev >= server[loads[i].id].rev /\ loads[i].reload \in BOOLEAN
    BY <1>1 DEF Load, ServerOK, Stored, ServerGrows
  <1>3. \A l : (LoadOK(l, server') /\ l.reload = loads[i].reload /\ loads' = [loads EXCEPT ![i] = l]) =>
               /\ LoadsOK' /\ Len(loads') = Len(loads) /\ loads'[i].reload = loads[i].reload
               /\ \A j \in 1..Len(loads) : j # i => loads'[j] = loads[j]
    BY OneLoad
  <1>4. CASE ServerGet(i)
    <2>1. PICK out \in {"found", "missing", "failed"} :
            /\ out = "found" => server[loads[i].id].rev > 0
            /\ loads' = [loads EXCEPT ![i].step = "got", ![i].found = out, ![i].rev = server[loads[i].id].rev]
      BY <1>4 DEF ServerGet
    <2> DEFINE l == [loads[i] EXCEPT !.step = "got", !.found = out, !.rev = server[loads[i].id].rev]
    <2>2. loads' = [loads EXCEPT ![i] = l]
      BY <1>1, <2>1
    <2>3. /\ l \in Load /\ l.step = "got" /\ l.found = out /\ l.rev = server[loads[i].id].rev
          /\ l.id = loads[i].id /\ l.create = loads[i].create /\ l.reload = loads[i].reload
      BY <1>1, <1>2 DEF Load
    <2> HIDE DEF l
    <2>4. LoadOK(l, server')
      BY <1>1, <1>2, <2>1, <2>3 DEF LoadOK
    <2>5. QED
      BY <1>3, <1>4, <2>2, <2>3, <2>4 DEF ServerGet
  <1>5. CASE ServerCreate(i)
    <2>1. CASE /\ server[loads[i].id].rev < MaxRevs /\ server' = NextRev(loads[i].id, {})
               /\ loads' = [loads EXCEPT ![i].step = "created", ![i].found = "found", ![i].rev = server[loads[i].id].rev + 1]
      <3> DEFINE n == server[loads[i].id].rev + 1
      <3> DEFINE l == [loads[i] EXCEPT !.step = "created", !.found = "found", !.rev = n]
      <3>1. loads' = [loads EXCEPT ![i] = l]
        BY <1>1, <2>1
      <3>2. n \in 0..MaxRevs /\ n \in 1..MaxRevs
        BY <1>2, <2>1
      <3> HIDE DEF n
      <3>3. /\ l \in Load /\ l.step = "created" /\ l.rev = n
            /\ l.id = loads[i].id /\ l.create = loads[i].create /\ l.reload = loads[i].reload
        BY <1>1, <3>2 DEF Load
      <3> HIDE DEF l
      <3>4. server'[l.id].rev = l.rev
        BY <1>2, <2>1, <3>3, AddsRevision DEF n
      <3>5. LoadOK(l, server')
        BY <1>1, <3>2, <3>3, <3>4 DEF LoadOK
      <3>6. QED
        BY <1>3, <1>5, <3>1, <3>3, <3>5 DEF ServerCreate
    <2>2. CASE loads' = [loads EXCEPT ![i].step = "created", ![i].found = "failed"]
      <3> DEFINE l == [loads[i] EXCEPT !.step = "created", !.found = "failed"]
      <3>1. loads' = [loads EXCEPT ![i] = l]
        BY <1>1, <2>2
      <3>2. /\ l \in Load /\ l.step = "created" /\ l.found = "failed"
            /\ l.id = loads[i].id /\ l.create = loads[i].create /\ l.reload = loads[i].reload
        BY <1>1 DEF Load
      <3> HIDE DEF l
      <3>3. LoadOK(l, server')
        BY <1>1, <3>2 DEF LoadOK
      <3>4. QED
        BY <1>3, <1>5, <3>1, <3>2, <3>3 DEF ServerCreate
    <2>3. QED
      BY <1>5, <2>1, <2>2 DEF ServerCreate
  <1>6. CASE loads[i].step # "done" /\ loads' = [loads EXCEPT ![i] = [NoLoad EXCEPT !.step = "done", !.reload = loads[i].reload]]
    <2> DEFINE l == [NoLoad EXCEPT !.step = "done", !.reload = loads[i].reload]
    <2>1. NoLoad \in Load /\ NoLoad.create = FALSE
      BY DEF NoLoad, Load
    <2>2. l \in Load /\ l.step = "done" /\ l.create = FALSE /\ l.reload = loads[i].reload
      BY <1>2, <2>1 DEF Load
    <2> HIDE DEF l
    <2>3. LoadOK(l, server')
      BY <2>2 DEF LoadOK
    <2>4. QED
      BY <1>3, <1>6, <2>2, <2>3 DEF l
  <1>7. CASE loads[i].step = "got" /\ loads[i].create /\ loads' = [loads EXCEPT ![i].step = "put"]
    <2> DEFINE l == [loads[i] EXCEPT !.step = "put"]
    <2>1. loads' = [loads EXCEPT ![i] = l]
      BY <1>1, <1>7
    <2>2. l \in Load /\ l.step = "put" /\ l.id = loads[i].id /\ l.create = loads[i].create /\ l.reload = loads[i].reload
      BY <1>1 DEF Load
    <2> HIDE DEF l
    <2>3. LoadOK(l, server')
      BY <1>1, <1>7, <2>2 DEF LoadOK
    <2>4. QED
      BY <1>3, <1>7, <2>1, <2>2, <2>3
  <1>8. QED
    BY <1>4, <1>5, <1>6, <1>7 DEF ReceiveLoad, ReceiveCreate

LEMMA LoadsStep == ASSUME EInv, Next PROVE LoadsOK' /\ LoadingOK'
  <1>0. /\ LoadsOK /\ LoadingOK /\ MarksOK /\ ServerOK /\ ServerOK' /\ ServerGrows
        /\ loads \in Seq(Load) /\ Len(loads) \in Nat /\ Len(loads) > 0
    BY Grows DEF EInv, LoadsOK
  <1> USE Bounds
  <1>1. ASSUME UNCHANGED <<loads, loading, reloading, pack>> PROVE LoadsOK' /\ LoadingOK'
    BY <1>0, <1>1, SameLoads DEF LoadingOK, Stale
  <1>2. ASSUME NEW d \in Docs, NEW r \in BOOLEAN, NEW c \in BOOLEAN, NEW s \in BOOLEAN, NEW a,
               c => d = Home, StartLoad(d, r, c, s, a)
        PROVE  LoadsOK' /\ LoadingOK'
    <2>1. /\ LoadsOK' /\ Len(loads') = Len(loads) + 1
          /\ loads'[Len(loads) + 1].step = "get" /\ loads'[Len(loads) + 1].reload = r
          /\ \A j \in 1..Len(loads) : loads'[j] = loads[j]
      BY <1>0, <1>2, NewLoad
    <2>2. reloading' => reloading \/ r
      BY <1>2 DEF StartLoad
    <2>3. CASE reloading
      <3>1. PICK i \in 1..Len(loads) : loads[i].reload
        BY <1>0, <2>3 DEF LoadingOK
      <3>2. i \in 1..Len(loads') /\ i # Len(loads') /\ loads'[i].reload
        BY <1>0, <2>1, <3>1
      <3>3. QED
        BY <1>0, <2>1, <3>2 DEF LoadingOK, Stale
    <2>4. CASE reloading' /\ r
      <3>1. Len(loads) + 1 \in 1..Len(loads')
        BY <1>0, <2>1
      <3>2. QED
        BY <2>1, <2>4, <3>1 DEF LoadingOK, Stale
    <2>5. CASE ~reloading'
      BY <2>1, <2>5 DEF LoadingOK
    <2>6. QED
      BY <2>2, <2>3, <2>4, <2>5
  <1>3. ASSUME NEW i \in 1..Len(loads), ServerGet(i) \/ ServerCreate(i) \/ ReceiveLoad(i) \/ ReceiveCreate(i)
        PROVE  LoadsOK' /\ LoadingOK'
    <2>1. /\ LoadsOK' /\ Len(loads') = Len(loads) /\ loads'[i].reload = loads[i].reload
          /\ loads[i].step # "done"
          /\ \A j \in 1..Len(loads) : j # i => loads'[j] = loads[j]
      BY <1>0, <1>3, AnsweredLoad
    <2>2. pack' = pack
      BY <1>3 DEF ServerGet, ServerCreate, ReceiveLoad, ReceiveCreate
    <2>3. \/ loads'[i].step # "done" /\ UNCHANGED <<loading, reloading>>
          \/ EndLoad(i)
      <3>1. loads[i] \in Load
        BY <1>0
      <3>2. CASE ServerGet(i)
        <4>1. PICK out \in {"found", "missing", "failed"} :
                loads' = [loads EXCEPT ![i].step = "got", ![i].found = out, ![i].rev = server[loads[i].id].rev]
          BY <3>2 DEF ServerGet
        <4>2. loads'[i].step = "got"
          BY <1>0, <3>1, <4>1 DEF Load
        <4>3. QED
          BY <3>2, <4>2 DEF ServerGet
      <3>3. CASE ServerCreate(i)
        <4>1. loads'[i].step = "created"
          BY <1>0, <3>1, <3>3 DEF ServerCreate, Load
        <4>2. QED
          BY <3>3, <4>1 DEF ServerCreate
      <3>4. CASE ReceiveLoad(i) /\ loads' = [loads EXCEPT ![i].step = "put"] /\ UNCHANGED <<loading, reloading>>
        <4>1. loads'[i].step = "put"
          BY <1>0, <3>1, <3>4 DEF Load
        <4>2. QED
          BY <3>4, <4>1
      <3>5. QED
        BY <1>3, <3>2, <3>3, <3>4 DEF ReceiveLoad, ReceiveCreate
    <2>4. (loading' /\ ~pack') => loads'[Len(loads')].step # "done"
      <3>1. ASSUME loading', ~pack' PROVE loads'[Len(loads')].step # "done"
        <4>1. loading /\ ~pack /\ (i = Len(loads) => loads'[i].step # "done")
          BY <2>2, <2>3, <3>1 DEF EndLoad, Stale
        <4>2. CASE i = Len(loads)
          BY <2>1, <4>1, <4>2
        <4>3. CASE i # Len(loads)
          BY <1>0, <2>1, <4>1, <4>3 DEF LoadingOK
        <4>4. QED
          BY <4>2, <4>3
      <3>2. QED
        BY <3>1
    <2>5. reloading' => \E j \in 1..Len(loads') : loads'[j].reload /\ (loads'[j].step # "done" \/ j # Len(loads'))
      <3>1. ASSUME reloading' PROVE \E j \in 1..Len(loads') : loads'[j].reload /\ (loads'[j].step # "done" \/ j # Len(loads'))
        <4>1. reloading /\ (loads[i].reload => loads'[i].step # "done" \/ i # Len(loads))
          BY <2>3, <3>1 DEF EndLoad, Stale
        <4>2. PICK j \in 1..Len(loads) : loads[j].reload /\ (loads[j].step # "done" \/ j # Len(loads))
          BY <1>0, <4>1 DEF LoadingOK, Stale
        <4>3. CASE j = i
          BY <2>1, <4>1, <4>2, <4>3
        <4>4. CASE j # i
          BY <2>1, <4>2, <4>4
        <4>5. QED
          BY <4>3, <4>4
      <3>2. QED
        BY <3>1
    <2>6. QED
      BY <2>1, <2>4, <2>5 DEF LoadingOK, Stale
  <1>4. ASSUME ReloadPage PROVE LoadsOK' /\ LoadingOK'
    BY <1>4, FirstLoadOK DEF ReloadPage, LoadsOK, LoadingOK
  <1>5. ASSUME OpenSample PROVE LoadsOK' /\ LoadingOK'
    BY <1>0, <1>5, SameLoads DEF OpenSample, LoadingOK, Stale
  <1>6. ASSUME ReceivePack PROVE LoadsOK' /\ LoadingOK'
    <2>1. CASE StartLoad(Home, FALSE, TRUE, TRUE, FALSE)
      BY <1>2, <2>1
    <2>2. CASE loading' = FALSE /\ UNCHANGED <<loads, reloading>>
      BY <1>0, <2>2, SameLoads DEF LoadingOK, Stale
    <2>3. QED
      BY <1>6, <2>1, <2>2 DEF ReceivePack
  <1>7. ASSUME NEW d \in Docs, OpenRecent(d) PROVE LoadsOK' /\ LoadingOK'
    BY <1>2, <1>7 DEF OpenRecent
  <1>8. ASSUME ReloadAfterConflict PROVE LoadsOK' /\ LoadingOK'
    <2>1. active \in Docs
      BY DEF EInv, WorkOK
    <2>2. QED
      BY <1>2, <1>8, <2>1 DEF ReloadAfterConflict
  <1>9. ASSUME \/ \E d \in Docs : StartFlip(d) \/ OtherSaves(d)
               \/ Edit \/ MoveCamera \/ Undo \/ Redo \/ StartSave \/ New \/ Duplicate \/ ImportDocument
               \/ ApplyMerge \/ UndoLastMerge \/ StartAdopt \/ DismissRecovery
               \/ ServerPut \/ ReceiveSave \/ ServerFlip \/ ReceiveFlip \/ ReceiveAdopt \/ Crash \/ Recover
        PROVE  LoadsOK' /\ LoadingOK'
    BY <1>1, <1>9 DEF StartFlip, OtherSaves, Edit, MoveCamera, Undo, Redo, StartSave, New, Duplicate, ImportDocument,
         ApplyMerge, UndoLastMerge, StartAdopt, DismissRecovery, ServerPut, ReceiveSave, ServerFlip, ReceiveFlip,
         ReceiveAdopt, Crash, Recover
  <1>10. QED
    BY <1>2, <1>3, <1>4, <1>5, <1>6, <1>7, <1>8, <1>9 DEF Next, UserActs, Answers

-----------------------------------------------------------------------------
(* The ETag and what it says of a clean document.                          *)

LEMMA ETagIsIssued ==
  ASSUME NEW d \in Docs, NEW r \in 1..MaxRevs
  PROVE  ETag(d, r) \in ETags /\ ETag(d, r) # NoEtag /\ ETag(d, r).id = d /\ ETag(d, r).rev = r
  BY Bounds DEF ETag, ETags, NoEtag

LEMMA RevisionKept ==
  ASSUME ServerOK, ServerOK', ServerGrows, NEW d \in Docs, NEW r \in 1..server[d].rev
  PROVE  Revision(d, r)' = Revision(d, r) /\ r <= server'[d].rev
  BY Bounds DEF ServerOK, Stored, ServerGrows, Revision

(* Steps that keep the ETag, and keep the document or mark it dirty.       *)
LEMMA EtagKept ==
  ASSUME EInv, Next, etag' = etag, marks'.dirty \/ (doc' = doc /\ marks'.dirty = marks.dirty)
  PROVE  EtagOK' /\ CleanIsStored'
  <1>0. /\ ServerOK /\ ServerOK' /\ ServerGrows /\ EtagOK /\ CleanIsStored
    BY Grows DEF EInv
  <1>1. CASE etag = NoEtag
    BY <1>0, <1>1 DEF EtagOK, CleanIsStored
  <1>2. CASE etag # NoEtag
    <2>1. etag.id \in Docs /\ etag.rev \in 1..MaxRevs /\ etag.rev <= server[etag.id].rev
      BY <1>0, <1>2 DEF EtagOK, ETags
    <2>2. etag.rev \in 1..server[etag.id].rev
      BY <1>0, <2>1, Bounds DEF ServerOK, Stored
    <2> DEFINE d == etag.id
    <2> DEFINE r == etag.rev
    <2>3. Revision(d, r) = [id |-> d, work |-> server[d].texts[r]]
      BY DEF Revision
    <2>4. [id |-> d, work |-> server'[d].texts[r]] = Revision(d, r) /\ r <= server'[d].rev
      BY <1>0, <2>1, <2>2, RevisionKept DEF Revision
    <2>5. etag'.id = d /\ etag'.rev = r
      OBVIOUS
    <2>6. EtagOK'
      BY <1>0, <2>4 DEF EtagOK
    <2>7. CleanIsStored'
      BY <1>0, <2>3, <2>4 DEF CleanIsStored, Revision
    <2>8. QED
      BY <2>6, <2>7
  <1>3. QED
    BY <1>1, <1>2

(* Steps that put an issued revision into the editor under its ETag.       *)
LEMMA EtagShown ==
  ASSUME EInv, Next, NEW d \in Docs, NEW r \in 1..server[d].rev,
         etag' = ETag(d, r), doc' = Revision(d, r), UNCHANGED server
  PROVE  EtagOK' /\ CleanIsStored'
  <1>1. r \in 1..MaxRevs
    BY Bounds DEF EInv, ServerOK, Stored
  <1>2. QED
    BY <1>1, ETagIsIssued DEF EtagOK, CleanIsStored, Revision

LEMMA ShowsIssued ==
  ASSUME EInv, Next, NEW i \in 1..Len(loads), ReceiveLoad(i) \/ ReceiveCreate(i), loads[i].found = "found",
         NEW from, Show(i, from)
  PROVE  /\ loads[i].id \in Docs /\ loads[i].rev \in 1..server[loads[i].id].rev
         /\ loads[i].rev \in 1..MaxRevs
  <1>1. LoadOK(loads[i], server) /\ loads[i].step \in {"got", "created"}
    BY DEF EInv, LoadsOK, ReceiveLoad, ReceiveCreate
  <1>2. loads[i].id \in Docs /\ loads[i].rev \in 1..server[loads[i].id].rev
    BY <1>1 DEF LoadOK, Load
  <1>3. QED
    BY <1>2, Bounds DEF EInv, ServerOK, Stored

LEMMA EtagStep == ASSUME EInv, Next PROVE EtagOK' /\ CleanIsStored'
  <1>0. MarksOK /\ ServerOK /\ EtagOK
    BY DEF EInv
  <1>1. ASSUME etag' = NoEtag PROVE EtagOK' /\ CleanIsStored'
    BY <1>1 DEF EtagOK, CleanIsStored
  <1>2. (\A b \in BOOLEAN : /\ [marks EXCEPT !.archived = b].dirty = marks.dirty
                            /\ [marks EXCEPT !.conflict = b].dirty = marks.dirty
                            /\ [marks EXCEPT !.dirty = TRUE].dirty)
        /\ Mark(Dirty).dirty
    BY <1>0 DEF MarksOK, Marks, Mark, Dirty
  <1>3. ASSUME NEW b, NEW n, Apply(b, n) PROVE marks'.dirty \/ (doc' = doc /\ marks'.dirty = marks.dirty)
    BY <1>2, <1>3 DEF Apply
  <1>4. ASSUME Edit \/ ApplyMerge \/ UndoLastMerge \/ ReceiveAdopt PROVE EtagOK' /\ CleanIsStored'
    BY <1>3, <1>4, EtagKept DEF Edit, ApplyMerge, UndoLastMerge, ReceiveAdopt
  <1>5. ASSUME MoveCamera \/ Undo \/ Redo \/ Recover PROVE EtagOK' /\ CleanIsStored'
    BY <1>2, <1>5, EtagKept DEF MoveCamera, Undo, Redo, Recover
  <1>6. ASSUME New \/ Duplicate \/ ImportDocument \/ ReloadPage PROVE EtagOK' /\ CleanIsStored'
    BY <1>1, <1>6 DEF New, Duplicate, ImportDocument, ReloadPage
  <1>7. ASSUME NEW d \in Docs, OpenRecent(d) PROVE EtagOK' /\ CleanIsStored'
    <2>1. server[d].archived \in BOOLEAN
      BY <1>0 DEF ServerOK, Stored
    <2>2. QED
      BY <1>2, <1>7, <2>1, EtagKept DEF OpenRecent, StartLoad
  <1>8. ASSUME ReloadAfterConflict PROVE EtagOK' /\ CleanIsStored'
    BY <1>2, <1>8, EtagKept DEF ReloadAfterConflict, StartLoad
  <1>9. ASSUME ReceivePack PROVE EtagOK' /\ CleanIsStored'
    BY <1>1, <1>2, <1>9, EtagKept DEF ReceivePack, StartLoad, BuiltInSample
  <1>10. ASSUME NEW i \in 1..Len(loads), ReceiveLoad(i) \/ ReceiveCreate(i) PROVE EtagOK' /\ CleanIsStored'
    <2>1. CASE UNCHANGED <<doc, etag, marks>>
      BY <2>1, EtagKept
    <2>2. CASE BuiltInSample
      BY <1>1, <2>2 DEF BuiltInSample
    <2>3. ASSUME loads[i].found = "found", NEW from, Show(i, from) PROVE EtagOK' /\ CleanIsStored'
      <3>1. UNCHANGED server
        BY <1>10 DEF ReceiveLoad, ReceiveCreate
      <3>2. loads[i].id \in Docs /\ loads[i].rev \in 1..server[loads[i].id].rev
        BY <1>10, <2>3, ShowsIssued
      <3>3. QED
        BY <2>3, <3>1, <3>2, EtagShown DEF Show, Replace
    <2>4. QED
      BY <1>10, <2>1, <2>2, <2>3 DEF ReceiveLoad, ReceiveCreate, LoadRefused
  <1>11. ASSUME ReceiveSave PROVE EtagOK' /\ CleanIsStored'
    <2>1. CASE save.out = "ok" /\ SaveOk
      <3>1. /\ save.etag \in ETags /\ save.etag # NoEtag /\ save.doc = Revision(save.etag.id, save.etag.rev)
            /\ save.etag.rev <= server[save.etag.id].rev
        BY <2>1 DEF EInv, SaveOK, Save
      <3>2. etag' = save.etag /\ doc' = save.doc /\ server' = server
        BY <1>11, <2>1 DEF SaveOk, Replace, ReceiveSave
      <3>3. QED
        BY <3>1, <3>2 DEF EtagOK, CleanIsStored, Revision
    <2>2. CASE marks' = [marks EXCEPT !.conflict = TRUE] /\ UNCHANGED <<doc, etag>>
      BY <1>2, <2>2, EtagKept
    <2>3. CASE UNCHANGED <<doc, etag, marks>>
      BY <2>3, EtagKept
    <2>4. QED
      BY <1>11, <2>1, <2>2, <2>3 DEF ReceiveSave
  <1>12. ASSUME ReceiveFlip PROVE EtagOK' /\ CleanIsStored'
    <2>1. flip.archive \in BOOLEAN
      BY DEF EInv, FlipOK, Flip
    <2>2. QED
      BY <1>2, <1>12, <2>1, EtagKept DEF ReceiveFlip
  <1>13. ASSUME \/ \E d \in Docs : StartFlip(d) \/ OtherSaves(d)
                \/ \E i \in 1..Len(loads) : ServerGet(i) \/ ServerCreate(i)
                \/ StartSave \/ OpenSample \/ StartAdopt \/ DismissRecovery \/ ServerPut \/ ServerFlip \/ Crash
         PROVE  EtagOK' /\ CleanIsStored'
    <2>1. UNCHANGED <<doc, etag, marks>>
      BY Zenon, <1>13 DEF StartFlip, OtherSaves, ServerGet, ServerCreate, StartSave, OpenSample, StartAdopt, DismissRecovery,
                   ServerPut, ServerFlip, Crash
    <2>2. QED
      BY <2>1, EtagKept
  <1>14. QED
    BY <1>4, <1>5, <1>6, <1>7, <1>8, <1>9, <1>10, <1>11, <1>12, <1>13 DEF Next, UserActs, Answers

-----------------------------------------------------------------------------
(* The save under way, and where the document came from.                   *)

(* A document the server does not have, other than the default one, is     *)
(* stored by the save under way or by nothing.                             *)
LEMMA Unsaved ==
  ASSUME EInv, Next, NEW d \in Docs, d # Home, server[d].rev = 0
  PROVE  \/ server'[d].rev = 0
         \/ ServerPut /\ save'.out = "ok" /\ save'.step = "answered" /\ save'.doc.id = d
  <1>0. ServerOK /\ LoadsOK /\ SaveOK /\ FlipOK
    BY DEF EInv
  <1>1. CASE AwayFromServer
    BY <1>1, ServerUntouched
  <1>2. ASSUME NEW e \in Docs, NEW w \in SUBSET Edits, server[e].rev < MaxRevs, server' = NextRev(e, w), e # d
        PROVE  server'[d].rev = 0
    BY <1>0, <1>2, AddsRevision
  <1>3. ASSUME NEW i \in 1..Len(loads), ServerCreate(i) PROVE server'[d].rev = 0
    <2>1. loads[i].id = Home
      BY <1>0, <1>3 DEF ServerCreate, LoadsOK, LoadOK
    <2>2. QED
      BY <1>2, <1>3, <2>1, Bounds DEF ServerCreate
  <1>4. CASE ServerFlip
    <2>1. flip.id \in Docs
      BY <1>0 DEF FlipOK, Flip
    <2>2. CASE server' = [server EXCEPT ![flip.id].archived = flip.archive]
      <3>1. server'[flip.id].rev = server[flip.id].rev
        BY <1>0, <2>1, <2>2 DEF ServerOK, Stored
      <3>2. \A e \in Docs : e # flip.id => server'[e] = server[e]
        BY <1>0, <2>1, <2>2 DEF ServerOK
      <3>3. QED
        BY <3>1, <3>2
    <2>3. QED
      BY <1>4, <2>2 DEF ServerFlip
  <1>5. ASSUME NEW e \in Docs, OtherSaves(e) PROVE server'[d].rev = 0
    <2>1. server[e].rev \in 1..(MaxRevs - 1) /\ edits < MaxEdits /\ edits \in Nat
          /\ server' = NextRev(e, server[e].texts[server[e].rev] \cup {edits + 1})
      BY <1>5, Bounds DEF OtherSaves, EInv, HistoryOK
    <2>2. server[e].rev < MaxRevs /\ e # d
      BY <2>1, Bounds
    <2>3. server[e].texts[server[e].rev] \in SUBSET Edits
      BY <1>0, <2>1, Bounds DEF ServerOK, Stored
    <2>4. edits + 1 \in Edits
      BY <2>1, Bounds DEF Edits
    <2>5. QED
      BY <1>2, <2>1, <2>2, <2>3, <2>4
  <1>6. CASE ServerPut
    <2>1. CASE UNCHANGED server
      BY <2>1
    <2>2. CASE /\ server[save.doc.id].rev < MaxRevs /\ server' = NextRev(save.doc.id, save.doc.work)
               /\ save' = [save EXCEPT !.step = "answered", !.out = "ok", !.etag = ETag(save.doc.id, server[save.doc.id].rev + 1)]
      <3>1. save \in Save /\ save.doc \in Content /\ save.doc.id \in Docs /\ save.doc.work \in SUBSET Edits
        BY <1>0, <1>6 DEF ServerPut, SaveOK, Save, Content
      <3>2. CASE save.doc.id # d
        BY <1>2, <2>2, <3>1, <3>2
      <3>3. CASE save.doc.id = d
        BY <1>6, <2>2, <3>1, <3>3 DEF Save
      <3>4. QED
        BY <3>2, <3>3
    <2>3. QED
      BY <1>6, <2>1, <2>2 DEF ServerPut
  <1>7. QED
    BY <1>1, <1>3, <1>4, <1>5, <1>6 DEF Next, Answers, AwayFromServer

LEMMA SaveStep == ASSUME EInv, Next PROVE SaveOK'
  <1>0. /\ ServerOK /\ ServerOK' /\ ServerGrows /\ SaveOK /\ WorkOK /\ EtagOK /\ OriginOK
    BY Grows DEF EInv
  <1>1. ASSUME UNCHANGED save, ~ServerPut PROVE SaveOK'
    <2>1. ASSUME save.out = "ok"
          PROVE  save.doc = Revision(save.etag.id, save.etag.rev)' /\ save.etag.rev <= server'[save.etag.id].rev
      <3>1. /\ save.etag \in ETags /\ save.etag.rev <= server[save.etag.id].rev
            /\ save.doc = Revision(save.etag.id, save.etag.rev)
        BY <1>0, <2>1 DEF SaveOK, Save
      <3>2. save.etag.id \in Docs /\ save.etag.rev \in 1..server[save.etag.id].rev
        BY <1>0, <3>1, Bounds DEF ETags, ServerOK, Stored
      <3> DEFINE d == save.etag.id
      <3> DEFINE r == save.etag.rev
      <3>3. [id |-> d, work |-> server'[d].texts[r]] = [id |-> d, work |-> server[d].texts[r]] /\ r <= server'[d].rev
        BY <1>0, <3>2, RevisionKept DEF Revision
      <3>4. QED
        BY <1>1, <3>1, <3>3 DEF Revision
    <2>2. ASSUME save.step = "sent", save.etag = NoEtag, ~save.blind PROVE server'[save.doc.id].rev = 0
      <3>1. save.doc \in Content /\ save.doc.id # Home /\ server[save.doc.id].rev = 0
        BY <1>0, <2>2 DEF SaveOK, Save
      <3>2. QED
        BY <1>1, <3>1, Unsaved DEF Content
    <2>3. QED
      BY <1>0, <1>1, <2>1, <2>2 DEF SaveOK
  <1>2. CASE StartSave
    <2>1. save' = [step |-> "sent", doc |-> doc, etag |-> etag, out |-> "none",
                   blind |-> origin \in {"import", "sample", "recovered"} \/ doc.id # active] /\ server' = server
      BY <1>2 DEF StartSave
    <2>2. doc # NoDoc /\ save.step = "none"
      BY <1>2 DEF StartSave
    <2>3. save' \in Save
      BY <1>0, <2>1 DEF Save, WorkOK, EtagOK
    <2>4. ASSUME etag = NoEtag, origin \notin {"import", "sample", "recovered"}, doc.id = active
          PROVE  doc.id # Home /\ server[doc.id].rev = 0
      <3>1. origin = "new"
        BY <1>0, <2>2, <2>4 DEF WorkOK, OriginOK, Origins
      <3>2. QED
        BY <1>0, <2>2, <2>4, <3>1 DEF OriginOK
    <2>5. /\ save'.step = "sent" /\ save'.doc = doc /\ save'.etag = etag /\ save'.out = "none"
          /\ save'.blind = (origin \in {"import", "sample", "recovered"} \/ doc.id # active)
      BY <2>1
    <2>6. QED
      BY <2>1, <2>2, <2>3, <2>4, <2>5 DEF SaveOK
  <1>3. CASE ServerPut
    <2>1. save \in Save /\ save.doc # NoDoc /\ save.doc \in Content /\ save.step = "sent"
      BY <1>0, <1>3 DEF ServerPut, SaveOK, Save
    <2>2. save.doc.id \in Docs /\ save.doc.work \in SUBSET Edits
      BY <2>1 DEF Content
    <2>3. CASE /\ server[save.doc.id].rev < MaxRevs /\ server' = NextRev(save.doc.id, save.doc.work)
               /\ save' = [save EXCEPT !.step = "answered", !.out = "ok", !.etag = ETag(save.doc.id, server[save.doc.id].rev + 1)]
      <3> DEFINE d == save.doc.id
      <3> DEFINE r == server[d].rev + 1
      <3>1. r \in 1..MaxRevs /\ server'[d].rev = r /\ server'[d].texts[r] = save.doc.work
        <4>1. r \in 1..MaxRevs
          BY <1>0, <2>2, <2>3, Bounds DEF ServerOK, Stored
        <4>2. QED
          BY <1>0, <2>2, <2>3, <4>1, AddsRevision
      <3>2. ETag(d, r) \in ETags /\ ETag(d, r) # NoEtag /\ ETag(d, r).id = d /\ ETag(d, r).rev = r
        BY <2>2, <3>1, ETagIsIssued
      <3>3. /\ save' \in Save /\ save'.step = "answered" /\ save'.out = "ok" /\ save'.doc = save.doc
            /\ save'.etag = ETag(d, r)
        BY <2>1, <2>3, <3>2 DEF Save
      <3>4. save.doc = [id |-> d, work |-> server'[d].texts[r]]
        BY <2>1, <3>1 DEF Content
      <3>5. save'.etag.id = d /\ save'.etag.rev = r
        BY <3>2, <3>3
      <3>6. save'.etag.rev <= server'[save'.etag.id].rev
        BY <3>1, <3>5
      <3>7. save'.doc = [id |-> save'.etag.id, work |-> server'[save'.etag.id].texts[save'.etag.rev]]
        BY Zenon, <3>3, <3>4, <3>5
      <3>8. save'.etag # NoEtag /\ save'.etag.id = save'.doc.id /\ save'.doc # NoDoc
        BY <2>1, <3>2, <3>3
      <3> HIDE DEF d, r
      <3>9. QED
        BY <3>3, <3>6, <3>7, <3>8 DEF SaveOK, Revision
    <2>4. ASSUME NEW o \in {"conflict", "failed"}, save' = [save EXCEPT !.step = "answered", !.out = o] PROVE SaveOK'
      <3>1. save' \in Save /\ save'.step = "answered" /\ save'.out = o /\ save'.doc = save.doc
        BY <2>1, <2>4 DEF Save
      <3>2. QED
        BY <2>1, <3>1 DEF SaveOK
    <2>5. QED
      BY <1>3, <2>3, <2>4 DEF ServerPut
  <1>4. CASE save' = NoSave
    BY <1>4, ContentIsWork DEF SaveOK, NoSave, Save
  <1>5. CASE ~(StartSave \/ ServerPut \/ ReceiveSave \/ ReloadPage)
    <2>1. UNCHANGED save
      BY Zenon, <1>5 DEF Next, UserActs, Answers, OpenRecent, StartFlip, ReloadAfterConflict, Edit, MoveCamera, Undo, Redo,
        New, Duplicate, ImportDocument, OpenSample, ApplyMerge, UndoLastMerge, StartAdopt, DismissRecovery, ServerGet,
        ReceiveLoad, ServerCreate, ReceiveCreate, ServerFlip, ReceiveFlip, ReceivePack, ReceiveAdopt, Crash, Recover,
        OtherSaves
    <2>2. QED
      BY <1>1, <1>5, <2>1
  <1>6. QED
    BY <1>2, <1>3, <1>4, <1>5 DEF ReceiveSave, ReloadPage

LEMMA OriginStep == ASSUME EInv, Next PROVE OriginOK'
  <1>0. /\ ServerOK /\ SaveOK /\ WorkOK /\ EtagOK /\ OriginOK
    BY DEF EInv
  <1> USE ContentIsWork, Bounds
  <1>1. ASSUME UNCHANGED <<active, origin, etag>>, doc # NoDoc \/ doc' = doc, UNCHANGED save \/ StartSave \/ ServerPut
        PROVE  OriginOK'
    <2>1. ASSUME origin = "new"
          PROVE  \/ server'[active].rev = 0
                 \/ save'.step = "answered" /\ save'.out = "ok" /\ save'.doc.id = active
      <3>1. active # Home /\ active \in Docs
        BY <1>0, <2>1 DEF OriginOK, WorkOK
      <3>2. CASE server[active].rev = 0
        BY <3>1, <3>2, Unsaved
      <3>3. CASE save.step = "answered" /\ save.out = "ok" /\ save.doc.id = active
        BY <1>1, <3>3 DEF StartSave, ServerPut
      <3>4. QED
        BY <1>0, <2>1, <3>2, <3>3 DEF OriginOK
    <2>2. QED
      BY <1>0, <1>1, <2>1 DEF OriginOK
  <1>2. ASSUME origin' \in {"import", "sample", "recovered"} PROVE OriginOK'
    BY <1>2 DEF OriginOK
  <1>3. ASSUME origin' \in {"server", "created"}, etag' # NoEtag \/ doc' = NoDoc PROVE OriginOK'
    BY <1>3 DEF OriginOK
  <1>4. ASSUME New \/ Duplicate PROVE OriginOK'
    <2>1. PICK d \in FreshIds : /\ active' = d /\ origin' = "new"
      <3>1. CASE New
        BY <3>1 DEF New, Replace
      <3>2. ASSUME NEW d \in FreshIds, Replace([doc EXCEPT !.id = d], "new"), doc \in Content
            PROVE  active' = d /\ origin' = "new"
        BY <3>2 DEF Replace, Content
      <3>3. CASE Duplicate
        BY <1>0, <3>2, <3>3 DEF Duplicate, WorkOK
      <3>4. QED
        BY <1>4, <3>1, <3>3
    <2>2. server' = server
      BY <1>4 DEF New, Duplicate
    <2>3. QED
      BY <2>1, <2>2 DEF OriginOK, FreshIds
  <1>5. ASSUME ImportDocument \/ Recover PROVE OriginOK'
    BY <1>2, <1>5 DEF ImportDocument, Recover, Replace
  <1>6. ASSUME ReloadPage PROVE OriginOK'
    BY <1>3, <1>6 DEF ReloadPage
  <1>7. ASSUME ReceivePack PROVE OriginOK'
    <2>1. CASE UNCHANGED <<doc, active, past, future, etag, origin>>
      BY <1>1, <1>7, <2>1 DEF ReceivePack
    <2>2. CASE origin' = "sample"
      BY <1>2, <2>2
    <2>3. QED
      BY <1>7, <2>1, <2>2 DEF ReceivePack, BuiltInSample, Replace
  <1>8. ASSUME NEW i \in 1..Len(loads), ReceiveLoad(i) \/ ReceiveCreate(i) PROVE OriginOK'
    <2>1. CASE UNCHANGED <<doc, active, past, future, origin, etag, marks>>
      BY <1>1, <1>8, <2>1 DEF ReceiveLoad, ReceiveCreate
    <2>2. CASE BuiltInSample
      BY <1>2, <2>2 DEF BuiltInSample, Replace
    <2>3. ASSUME loads[i].found = "found", NEW from \in {"server", "created"}, Show(i, from) PROVE OriginOK'
      <3>1. loads[i].id \in Docs /\ loads[i].rev \in 1..MaxRevs
        BY <1>8, <2>3, ShowsIssued
      <3>2. etag' # NoEtag /\ origin' = from
        BY <2>3, <3>1, ETagIsIssued DEF Show, Replace
      <3>3. QED
        BY <1>3, <3>2
    <2>4. QED
      BY <1>8, <2>1, <2>2, <2>3 DEF ReceiveLoad, ReceiveCreate, LoadRefused
  <1>9. ASSUME ReceiveSave PROVE OriginOK'
    <2>1. CASE save.out = "ok" /\ SaveOk
      <3>1. etag' # NoEtag /\ origin' = "server"
        BY <1>0, <2>1 DEF SaveOk, Replace, SaveOK
      <3>2. QED
        BY <1>3, <3>1
    <2>2. CASE save.out # "ok" /\ UNCHANGED <<doc, active, origin, etag, server>>
      BY <1>0, <2>2 DEF OriginOK
    <2>3. QED
      BY <1>9, <2>1, <2>2 DEF ReceiveSave
  <1>10. ASSUME Edit \/ ApplyMerge \/ UndoLastMerge \/ ReceiveAdopt \/ Undo \/ Redo PROVE OriginOK'
    <2>1. doc # NoDoc
      BY <1>0, <1>10 DEF Edit, ApplyMerge, UndoLastMerge, ReceiveAdopt, Undo, Redo, WorkOK
    <2>2. UNCHANGED <<active, origin, etag, save>>
      BY <1>10 DEF Edit, ApplyMerge, UndoLastMerge, ReceiveAdopt, Undo, Redo
    <2>3. QED
      BY <1>1, <2>1, <2>2
  <1>11. ASSUME \/ \E d \in Docs : OpenRecent(d) \/ StartFlip(d) \/ OtherSaves(d)
                \/ \E i \in 1..Len(loads) : ServerGet(i) \/ ServerCreate(i)
                \/ ReloadAfterConflict \/ MoveCamera \/ StartSave \/ OpenSample \/ StartAdopt \/ DismissRecovery
                \/ ServerPut \/ ServerFlip \/ ReceiveFlip \/ Crash
         PROVE  OriginOK'
    <2>1. UNCHANGED <<doc, active, origin, etag>> /\ (UNCHANGED save \/ StartSave \/ ServerPut)
      BY Zenon, <1>11 DEF OpenRecent, StartFlip, OtherSaves, ServerGet, ServerCreate, ReloadAfterConflict, MoveCamera, StartSave,
                   OpenSample, StartAdopt, DismissRecovery, ServerPut, ServerFlip, ReceiveFlip, Crash
    <2>2. QED
      BY <1>1, <2>1
  <1>12. QED
    BY <1>4, <1>5, <1>6, <1>7, <1>8, <1>9, <1>10, <1>11 DEF Next, UserActs, Answers

-----------------------------------------------------------------------------
(* The invariant, and what follows from it.                                *)

LEMMA NextEInv == EInv /\ [Next]_vars => EInv'
  <1> SUFFICES ASSUME EInv, [Next]_vars PROVE EInv'
    OBVIOUS
  <1>1. CASE Next
    BY <1>1, Grows, MarksStep, WorkStep, HistoryStep, LoadsStep, EtagStep, SaveStep, OriginStep DEF EInv
  <1>2. CASE UNCHANGED vars
    BY <1>2 DEF vars, EInv, ServerOK, MarksOK, FlipOK, WorkOK, HistoryOK, LoadsOK, LoadingOK, SaveOK, EtagOK, OriginOK,
                CleanIsStored, Revision, Stale
  <1>3. QED
    BY <1>1, <1>2

(* What the open document, its ETag and its marks say holds throughout:    *)
(* saves, loads, adoptions, crashes and recoveries in any order.           *)
THEOREM EditorHolds == Spec => []EInv
  BY InitEInv, NextEInv, PTL DEF Spec

LEMMA InvariantSuffices == EInv => SessionInvariant
  <1> SUFFICES ASSUME EInv PROVE SessionInvariant
    OBVIOUS
  <1> USE Bounds
  <1>0. /\ ServerOK /\ MarksOK /\ FlipOK /\ WorkOK /\ HistoryOK
        /\ LoadsOK /\ LoadingOK /\ SaveOK /\ EtagOK /\ OriginOK /\ CleanIsStored
    BY DEF EInv
  <1>1. \A d \in Docs : /\ server[d].rev \in 0..MaxRevs
                       /\ server[d].texts \in [1..MaxRevs -> SUBSET Edits]
                       /\ server[d].archived \in BOOLEAN
    BY <1>0 DEF ServerOK, Stored
  <1>2. /\ Len(past) <= MaxEdits + MaxTurns /\ Len(future) <= MaxEdits + MaxTurns
        /\ \A i \in 1..Len(past) : past[i] \in Content
        /\ \A i \in 1..Len(future) : future[i] \in Content
    <2>1. past \in Seq(Content) /\ future \in Seq(Content) /\ Len(past) \in Nat /\ Len(future) \in Nat
      BY <1>0 DEF WorkOK
    <2>2. QED
      BY <1>0, <2>1 DEF HistoryOK
  <1>3. \A i \in 1..Len(loads) : loads[i].step \in {"get", "got", "put", "created", "done"}
    BY <1>0 DEF LoadsOK, LoadOK, Load
  <1>4. save.step \in {"none", "sent", "answered"} /\ flip.step \in {"none", "sent", "answered"}
    BY <1>0 DEF SaveOK, Save, FlipOK, Flip
  <1>5. TypeOK
    BY <1>0, <1>1, <1>2, <1>3, <1>4 DEF TypeOK, WorkOK, EtagOK, ETags, MarksOK, Marks, HistoryOK
  <1>6. MarksEnd
    <2>1. Len(loads) \in 1..Len(loads)
      BY <1>0 DEF LoadsOK
    <2>2. QED
      BY <1>0, <2>1 DEF MarksEnd, LoadingOK
  <1>7. QED
    BY <1>0, <1>5, <1>6 DEF SessionInvariant

(* A document without the dirty mark is the revision its ETag names, and   *)
(* the loading marks end with the loads that set them (App.tsx, loadDocument *)
(* and handleSave).                                                        *)
THEOREM SessionHolds == Spec => []SessionInvariant
  BY EditorHolds, InvariantSuffices, PTL

(* handleSave under put_document's If-Match: a save that replaces a stored *)
(* revision replaces the one seen under its ETag, the blind ones excepted. *)
THEOREM SavesReplaceWhatWasSeen == Spec => NoBlindOverwrite
  <1>1. ASSUME EInv, Next, save.step = "sent", save'.out = "ok", server[save.doc.id].rev > 0
        PROVE  save.etag = ETag(save.doc.id, server[save.doc.id].rev) \/ save.blind
    <2>1. SaveOK /\ save \in Save
      BY <1>1 DEF EInv, SaveOK
    <2>2. save.out = "none"
      BY <1>1, <2>1 DEF SaveOK
    <2>3. CASE ServerPut
      <3>1. ETagMatches(save.doc.id, save.etag)
        BY <1>1, <2>1, <2>3 DEF ServerPut, Save
      <3>2. CASE save.etag = NoEtag
        BY <1>1, <2>1, <3>2 DEF SaveOK
      <3>3. QED
        BY <3>1, <3>2 DEF ETagMatches
    <2>4. CASE ~ServerPut
      <3>1. save' = save \/ save' = NoSave
        BY Zenon, <1>1, <2>4 DEF Next, UserActs, Answers, OpenRecent, StartFlip, ReloadAfterConflict, Edit, MoveCamera, Undo,
          Redo, StartSave, New, Duplicate, ImportDocument, OpenSample, ApplyMerge, UndoLastMerge, StartAdopt,
          DismissRecovery, ServerGet, ReceiveLoad, ServerCreate, ReceiveCreate, ReceiveSave, ServerFlip, ReceiveFlip,
          ReceivePack, ReceiveAdopt, Crash, ReloadPage, Recover, OtherSaves
      <3>2. QED
        BY <1>1, <2>2, <3>1 DEF NoSave
    <2>5. QED
      BY <2>3, <2>4
  <1>2. EInv /\ [Next]_vars =>
          [(save.step = "sent" /\ save'.out = "ok" /\ server[save.doc.id].rev > 0) =>
              save.etag = ETag(save.doc.id, server[save.doc.id].rev) \/ save.blind]_vars
    BY <1>1
  <1>3. QED
    BY <1>2, EditorHolds, PTL DEF Spec, NoBlindOverwrite

(* Where the work of the shown document goes.                              *)
LEMMA ApplyKeeps ==
  ASSUME WorkOK, doc \in Content, NEW b, NEW n, Apply(b, n), NEW w \in doc.work
  PROVE  w \in doc'.work \/ \E i \in 1..Len(past') : w \in past'[i].work
  <1>1. CASE isReadOnly
    BY <1>1 DEF Apply
  <1>2. CASE ~isReadOnly
    <2>1. past \in Seq(Content) /\ past' = Append(past, doc)
      BY <1>2 DEF Apply, WorkOK
    <2>2. Len(past) + 1 \in 1..Len(past') /\ past'[Len(past) + 1] = doc
      BY <2>1
    <2>3. QED
      BY <2>2
  <1>3. QED
    BY <1>1, <1>2

LEMMA WorkIsKept ==
  ASSUME EInv, NEW w \in doc.work,
         \/ Edit \/ Undo \/ Redo \/ ApplyMerge \/ UndoLastMerge \/ ReceiveAdopt \/ ReceiveFlip
         \/ ReceiveSave /\ save.out # "ok"
  PROVE  KeptNext(w)
  <1>0. WorkOK
    BY DEF EInv
  <1>1. CASE ReceiveFlip \/ (ReceiveSave /\ save.out # "ok")
    BY <1>1 DEF ReceiveFlip, ReceiveSave, KeptNext
  <1>2. CASE Edit \/ ApplyMerge \/ UndoLastMerge
    <2>1. doc \in Content
      BY <1>0, <1>2 DEF WorkOK, Edit, ApplyMerge, UndoLastMerge
    <2>2. QED
      BY <1>0, <1>2, <2>1, ApplyKeeps DEF Edit, ApplyMerge, UndoLastMerge, KeptNext
  <1>3. CASE ReceiveAdopt
    <2>1. doc \in Content
      BY <1>0, <1>3 DEF WorkOK, ReceiveAdopt
    <2>2. QED
      BY <1>0, <1>3, <2>1, ApplyKeeps DEF ReceiveAdopt, KeptNext
  <1>4. CASE Undo
    <2>1. doc \in Content /\ future \in Seq(Content)
      BY <1>0, <1>4 DEF WorkOK, Undo
    <2>2. future' = <<doc>> \o future
      BY <1>4 DEF Undo
    <2>3. 1 \in 1..Len(future') /\ future'[1] = doc
      BY <2>1, <2>2
    <2>4. QED
      BY <2>3 DEF KeptNext
  <1>5. CASE Redo
    <2>1. doc \in Content /\ past \in Seq(Content)
      BY <1>0, <1>5 DEF WorkOK, Redo
    <2>2. past' = Append(past, doc)
      BY <1>5 DEF Redo
    <2>3. Len(past) + 1 \in 1..Len(past') /\ past'[Len(past) + 1] = doc
      BY <2>1, <2>2
    <2>4. QED
      BY <2>3 DEF KeptNext
  <1>6. QED
    BY <1>1, <1>2, <1>3, <1>4, <1>5

(* An overtaken load ends without touching the editor.                     *)
LEMMA LateLoadIsDropped ==
  ASSUME EInv, Next, NEW i \in 1..Len(loads), loads[i].step # "done", i < Len(loads), i <= Len(loads'),
         loads'[i].step = "done", ~loads[i].sample
  PROVE  doc' = doc /\ etag' = etag /\ marks' = marks
  <1>0. /\ LoadsOK /\ ServerOK /\ ServerOK' /\ ServerGrows /\ WorkOK
        /\ loads \in Seq(Load) /\ Len(loads) \in Nat
    BY Grows DEF EInv, LoadsOK
  <1>1. loads' # loads
    OBVIOUS
  <1>2. ASSUME NEW d \in Docs, NEW r \in BOOLEAN, NEW c \in BOOLEAN, NEW s \in BOOLEAN, NEW a,
               c => d = Home, StartLoad(d, r, c, s, a)
        PROVE  FALSE
    BY <1>0, <1>2, NewLoad
  <1>3. ASSUME NEW j \in 1..Len(loads), ServerGet(j) \/ ServerCreate(j) \/ ReceiveLoad(j) \/ ReceiveCreate(j)
        PROVE  doc' = doc /\ etag' = etag /\ marks' = marks
    <2>1. j = i
      BY <1>0, <1>3, AnsweredLoad
    <2>2. Stale(i)
      BY <1>0 DEF Stale
    <2>3. QED
      BY <1>3, <2>1, <2>2 DEF ServerGet, ServerCreate, ReceiveLoad, ReceiveCreate, LoadRefused
  <1>4. CASE ReloadPage
    <2>1. loads' = <<FirstLoad>> /\ i = 1
      BY <1>4 DEF ReloadPage
    <2>2. loads'[i].step = "get"
      BY <2>1, FirstLoadOK
    <2>3. QED
      BY <2>2
  <1>5. CASE \E d \in Docs : OpenRecent(d)
    BY <1>2, <1>5 DEF OpenRecent
  <1>6. CASE ReloadAfterConflict
    BY <1>0, <1>2, <1>6 DEF ReloadAfterConflict, WorkOK
  <1>7. CASE ReceivePack
    BY <1>1, <1>2, <1>7, Bounds DEF ReceivePack
  <1>8. CASE UNCHANGED loads
    BY <1>1, <1>8
  <1>9. QED
    BY Zenon, <1>3, <1>4, <1>5, <1>6, <1>7, <1>8 DEF Next, UserActs, Answers, StartFlip, Edit, MoveCamera, Undo, Redo,
       StartSave, New, Duplicate, ImportDocument, OpenSample, ApplyMerge, UndoLastMerge, StartAdopt, DismissRecovery,
       ServerPut, ReceiveSave, ServerFlip, ReceiveFlip, ReceiveAdopt, Crash, Recover, OtherSaves

(* Only putting another document into the editor gives up unsaved work     *)
(* (useDocumentHistory, applyDocumentChange), and a load that was          *)
(* overtaken leaves the editor alone (loadDocument's request number).      *)
THEOREM WorkSurvivesHolds == Spec => WorkSurvives
  <1>1. EInv /\ [Next]_vars =>
          [\A w \in doc.work :
             (\/ Edit \/ Undo \/ Redo \/ ApplyMerge \/ UndoLastMerge \/ ReceiveAdopt \/ ReceiveFlip
              \/ ReceiveSave /\ save.out # "ok") => KeptNext(w)]_vars
    BY WorkIsKept
  <1>2. EInv /\ [Next]_vars =>
          [\A i \in 1..Len(loads) :
             (loads[i].step # "done" /\ i < Len(loads) /\ i <= Len(loads') /\ loads'[i].step = "done" /\ ~loads[i].sample)
                => doc' = doc /\ etag' = etag /\ marks' = marks]_vars
    BY LateLoadIsDropped
  <1>3. Spec => WorkKept
    BY <1>1, EditorHolds, PTL DEF Spec, WorkKept
  <1>4. Spec => LateLoadDropped
    BY <1>2, EditorHolds, PTL DEF Spec, LateLoadDropped
  <1>5. QED
    BY <1>3, <1>4 DEF WorkSurvives

-----------------------------------------------------------------------------
(* CueAssets.  What may be in its variables.                               *)

Cue == Refs \cup {Cues!NoCue}

Histories == [past : Seq(Cues!Page), present : Cues!Page, future : Seq(Cues!Page)]

Easel == [step : {"idle", "saving", "stored", "restored"},
          base : Cues!Page \cup {[id |-> Cues!NoDoc, cue |-> Cues!NoCue]}, ref : Cue]

CueTypes ==
    /\ stored \in [Refs -> CueDocs \cup {Cues!NoDoc}]
    /\ cloud \in [CueDocs -> Cue]
    /\ view \in [Tabs -> Histories] /\ \A t \in Tabs : Len(view[t].past) <= CueHistory
    /\ sweeps \subseteq [tab : Tabs, id : CueDocs, keep : SUBSET Refs]
    /\ easel \in [Tabs -> Easel]
    /\ drawn \subseteq Refs /\ unkept \subseteq Refs /\ exposed \subseteq Refs

Names(h) == Cues!Named(Cues!Pages(h))

(* Only what was drawn is named anywhere.                                  *)
DrawnFirst ==
    /\ \A t \in Tabs : /\ Names(view[t]) \subseteq drawn
                       /\ easel[t].ref \in drawn \cup {Cues!NoCue}
                       /\ easel[t].base.cue \in drawn \cup {Cues!NoCue}
    /\ \A d \in CueDocs : cloud[d] \in drawn \cup {Cues!NoCue}

(* A picture in an editor's hands belongs to the document the editor was   *)
(* opened on and to no other editor; a new one is named nowhere yet.       *)
InHand ==
    \A t \in Tabs :
        /\ easel[t].step \in {"idle", "saving"} => easel[t].ref = Cues!NoCue
        /\ easel[t].step # "idle" => easel[t].base \in Cues!Page
        /\ easel[t].step \in {"stored", "restored"} => easel[t].ref \in Refs
        /\ easel[t].step = "restored" => easel[t].base.cue = easel[t].ref
        /\ easel[t].ref # Cues!NoCue =>
             /\ stored[easel[t].ref] \in {Cues!NoDoc, easel[t].base.id}
             /\ \A u \in Tabs : u # t => easel[u].ref # easel[t].ref

NewInHand ==
    \A t \in Tabs : easel[t].step = "stored" =>
        /\ \A u \in Tabs : easel[t].ref \notin Names(view[u]) /\ easel[u].base.cue # easel[t].ref
        /\ \A d \in CueDocs : cloud[d] # easel[t].ref

(* What a history names has its record, and no sweep will take it.         *)
KeptUnlessExposed ==
    \A t \in Tabs : \A r \in Names(view[t]) : r \notin exposed =>
        /\ stored[r] # Cues!NoDoc
        /\ \A s \in sweeps : s.id = stored[r] => r \in s.keep

(* A record of the document a tab shows is named, or doomed, or in hand.   *)
SweptUnlessNamed ==
    \A t \in Tabs : \A r \in Refs : stored[r] = view[t].present.id =>
        \/ r \in Names(view[t]) \cup unkept \cup exposed
        \/ \E s \in sweeps : s.tab = t /\ s.id = stored[r] /\ r \notin s.keep
        \/ \E u \in Tabs : easel[u].ref = r

CInv == /\ CueTypes /\ DrawnFirst /\ InHand /\ NewInHand /\ KeptUnlessExposed
        /\ SweptUnlessNamed

-----------------------------------------------------------------------------
(* What the histories name.                                                *)

LEMMA NamesAre == \A h, r : r \in Names(h) <=> r # Cues!NoCue /\ \E p \in Cues!Pages(h) : p.cue = r
  BY DEF Names, Cues!Named

LEMMA PagesAre ==
  ASSUME NEW h \in Histories
  PROVE  /\ Cues!Pages(h) \subseteq Cues!Page
         /\ \A p : p \in Cues!Pages(h) <=> \/ \E i \in DOMAIN h.past : p = h.past[i]
                                           \/ p = h.present
                                           \/ \E i \in DOMAIN h.future : p = h.future[i]
  <1>1. h.past \in Seq(Cues!Page) /\ h.present \in Cues!Page /\ h.future \in Seq(Cues!Page)
    BY DEF Histories
  <1>2. \A p : p \in Cues!Pages(h) <=> \/ \E i \in DOMAIN h.past : p = h.past[i]
                                       \/ p = h.present
                                       \/ \E i \in DOMAIN h.future : p = h.future[i]
    BY DEF Cues!Pages, Cues!ToSet
  <1>3. \A i \in DOMAIN h.past : h.past[i] \in Cues!Page
    BY <1>1
  <1>4. \A i \in DOMAIN h.future : h.future[i] \in Cues!Page
    BY <1>1
  <1>5. QED
    BY <1>1, <1>2, <1>3, <1>4

LEMMA PagesWithin ==
  ASSUME NEW h \in Histories, NEW S, h.present \in S, \A i \in DOMAIN h.past : h.past[i] \in S,
         \A i \in DOMAIN h.future : h.future[i] \in S
  PROVE  \A p \in Cues!Pages(h) : p \in S
  BY PagesAre

LEMMA NamesTyped ==
  ASSUME NEW h \in Histories
  PROVE  Names(h) \subseteq Refs
  BY PagesAre, NamesAre DEF Cues!Page

LEMMA OpenedNames ==
  ASSUME NEW d \in CueDocs, NEW c \in Cue
  PROVE  /\ Cues!Opened(d, c) \in Histories /\ Len(Cues!Opened(d, c).past) = 0
         /\ Cues!Opened(d, c).present.id = d
         /\ \A r : r \in Names(Cues!Opened(d, c)) <=> r = c /\ r # Cues!NoCue
  <1>1. Cues!Opened(d, c) = [past |-> <<>>, present |-> [id |-> d, cue |-> c], future |-> <<>>]
    BY DEF Cues!Opened
  <1>2. Cues!Opened(d, c) \in Histories
    BY <1>1 DEF Histories, Cues!Page, Cue
  <1>3. \A p : p \in Cues!Pages(Cues!Opened(d, c)) <=> p = [id |-> d, cue |-> c]
    BY <1>1, <1>2, PagesAre
  <1>4. QED
    BY <1>1, <1>2, <1>3, NamesAre

LEMMA PushedPast ==
  ASSUME NEW h \in Histories, NEW p \in Cues!Page, Len(h.past) <= CueHistory
  PROVE  /\ Cues!Pushed(h, p).past \in Seq(Cues!Page) /\ Len(Cues!Pushed(h, p).past) <= CueHistory
         /\ \A i \in DOMAIN Cues!Pushed(h, p).past : Cues!Pushed(h, p).past[i] \in Cues!Pages(h)
         /\ Cues!Pushed(h, p).present = p /\ Cues!Pushed(h, p).future = <<>>
         /\ Cues!Pushed(h, p) \in Histories
  <1> DEFINE all == Append(h.past, h.present)
             cut == IF Len(all) > CueHistory THEN Tail(all) ELSE all
  <1>1. Cues!Pushed(h, p) = [past |-> cut, present |-> p, future |-> <<>>]
    BY DEF Cues!Pushed
  <1>2. h.past \in Seq(Cues!Page) /\ h.present \in Cues!Page /\ CueHistory \in Nat
    BY CueAssumption DEF Histories
  <1>3. all \in Seq(Cues!Page) /\ Len(all) = Len(h.past) + 1 /\ Len(h.past) \in Nat
    BY <1>2
  <1>4. \A i \in DOMAIN all : all[i] \in Cues!Pages(h)
    <2>1. \A i \in 1..Len(h.past) : all[i] = h.past[i]
      BY <1>2
    <2>2. all[Len(h.past) + 1] = h.present /\ DOMAIN all = 1..(Len(h.past) + 1)
      BY <1>2
    <2>3. QED
      BY <1>2, <1>3, <2>1, <2>2, PagesAre
  <1>5. cut \in Seq(Cues!Page) /\ Len(cut) <= CueHistory /\ \A i \in DOMAIN cut : cut[i] \in Cues!Pages(h)
    <2> HIDE DEF all
    <2>1. CASE Len(all) > CueHistory
      <3>1. /\ Tail(all) \in Seq(Cues!Page) /\ Len(Tail(all)) = Len(all) - 1
            /\ \A i \in DOMAIN Tail(all) : i + 1 \in DOMAIN all /\ Tail(all)[i] = all[i + 1]
        BY <1>2, <1>3, <2>1
      <3>2. QED
        BY <1>2, <1>3, <1>4, <2>1, <3>1
    <2>2. CASE ~(Len(all) > CueHistory)
      BY <1>2, <1>3, <1>4, <2>2
    <2>3. QED
      BY <2>1, <2>2
  <1>6. QED
    BY <1>1, <1>2, <1>5 DEF Histories

LEMMA PushedNames ==
  ASSUME NEW h \in Histories, NEW p \in Cues!Page, Len(h.past) <= CueHistory
  PROVE  /\ \A r \in Names(Cues!Pushed(h, p)) : r \in Names(h) \/ r = p.cue
         /\ p.cue # Cues!NoCue => p.cue \in Names(Cues!Pushed(h, p))
  <1> PICK k : k = Cues!Pushed(h, p)
    OBVIOUS
  <1>1. /\ k \in Histories /\ k.present = p /\ k.future = <<>>
        /\ \A i \in DOMAIN k.past : k.past[i] \in Cues!Pages(h)
    BY PushedPast
  <1>2. \A q : q \in Cues!Pages(k) => q \in Cues!Pages(h) \/ q = p
    BY <1>1, PagesAre
  <1>3. p \in Cues!Pages(k)
    BY <1>1, PagesAre
  <1>4. QED
    BY <1>2, <1>3, NamesAre

(* Undo and redo move pages within the history.                            *)
LEMMA UndoneNames ==
  ASSUME NEW h \in Histories, Len(h.past) <= CueHistory, h.past # <<>>,
         NEW k, k = [past |-> Cues!Front(h.past), present |-> Cues!Last(h.past),
                     future |-> <<h.present>> \o h.future]
  PROVE  k \in Histories /\ Len(k.past) <= CueHistory /\ Names(k) \subseteq Names(h)
  <1>1. /\ h.past \in Seq(Cues!Page) /\ h.present \in Cues!Page /\ h.future \in Seq(Cues!Page)
        /\ CueHistory \in Nat
    BY CueAssumption DEF Histories
  <1>2. /\ Cues!Front(h.past) \in Seq(Cues!Page) /\ Len(Cues!Front(h.past)) = Len(h.past) - 1
        /\ \A i \in DOMAIN Cues!Front(h.past) : i \in DOMAIN h.past /\ Cues!Front(h.past)[i] = h.past[i]
        /\ Len(h.past) \in Nat \ {0} /\ Cues!Last(h.past) = h.past[Len(h.past)]
    BY <1>1 DEF Cues!Front, Cues!Last
  <1>3. /\ <<h.present>> \o h.future \in Seq(Cues!Page)
        /\ \A i \in DOMAIN (<<h.present>> \o h.future) :
             \/ (<<h.present>> \o h.future)[i] = h.present
             \/ \E j \in DOMAIN h.future : (<<h.present>> \o h.future)[i] = h.future[j]
    <2>1. \A i \in 1..(1 + Len(h.future)) : i = 1 \/ i - 1 \in 1..Len(h.future)
      BY <1>1
    <2>2. QED
      BY <1>1, <2>1
  <1>4. k \in Histories /\ Len(k.past) <= CueHistory
    BY <1>1, <1>2, <1>3 DEF Histories
  <1>5. \A p : p \in Cues!Pages(k) => p \in Cues!Pages(h)
    <2>1. Cues!Last(h.past) \in Cues!Pages(h)
      BY <1>1, <1>2, PagesAre
    <2>2. \A i \in DOMAIN k.past : k.past[i] \in Cues!Pages(h)
      BY <1>2, PagesAre
    <2>3. \A i \in DOMAIN k.future : k.future[i] \in Cues!Pages(h)
      BY <1>3, PagesAre
    <2>4. k.present = Cues!Last(h.past)
      OBVIOUS
    <2>5. k.present \in Cues!Pages(h)
      BY <2>1, <2>4
    <2>6. QED
      BY <1>4, <2>2, <2>3, <2>5, PagesWithin
  <1>6. \A r : r \in Names(k) => r \in Names(h)
    BY <1>5, NamesAre
  <1>7. QED
    BY <1>4, <1>6

LEMMA RedoneNames ==
  ASSUME NEW h \in Histories, Len(h.past) <= CueHistory, h.future # <<>>,
         NEW k, k = [past |-> Cues!Pushed(h, h.present).past, present |-> Head(h.future),
                     future |-> Tail(h.future)]
  PROVE  k \in Histories /\ Len(k.past) <= CueHistory /\ Names(k) \subseteq Names(h)
  <1>1. h.present \in Cues!Page /\ h.future \in Seq(Cues!Page)
    BY DEF Histories
  <1>2. /\ Cues!Pushed(h, h.present).past \in Seq(Cues!Page)
        /\ Len(Cues!Pushed(h, h.present).past) <= CueHistory
        /\ \A i \in DOMAIN Cues!Pushed(h, h.present).past :
              Cues!Pushed(h, h.present).past[i] \in Cues!Pages(h)
    BY <1>1, PushedPast
  <1>3. /\ Head(h.future) = h.future[1] /\ 1 \in DOMAIN h.future /\ Tail(h.future) \in Seq(Cues!Page)
        /\ \A i \in DOMAIN Tail(h.future) : i + 1 \in DOMAIN h.future /\ Tail(h.future)[i] = h.future[i + 1]
    BY <1>1
  <1>4. k \in Histories /\ Len(k.past) <= CueHistory
    BY <1>1, <1>2, <1>3 DEF Histories
  <1>5. \A p : p \in Cues!Pages(k) => p \in Cues!Pages(h)
    <2>1. Head(h.future) \in Cues!Pages(h)
      BY <1>3, PagesAre
    <2>2. \A i \in DOMAIN k.past : k.past[i] \in Cues!Pages(h)
      BY <1>2
    <2>3. \A i \in DOMAIN k.future : k.future[i] \in Cues!Pages(h)
      BY <1>3, PagesAre
    <2>4. k.present = Head(h.future)
      OBVIOUS
    <2>5. k.present \in Cues!Pages(h)
      BY <2>1, <2>4
    <2>6. QED
      BY <1>4, <2>2, <2>3, <2>5, PagesWithin
  <1>6. \A r : r \in Names(k) => r \in Names(h)
    BY <1>5, NamesAre
  <1>7. QED
    BY <1>4, <1>6

-----------------------------------------------------------------------------
LEMMA CueStarts == Cues!Init => CInv
  <1> SUFFICES ASSUME Cues!Init PROVE CInv
    OBVIOUS
  <1>1. PICK d \in CueDocs : view = [t \in Tabs |-> Cues!Opened(d, Cues!NoCue)]
    BY DEF Cues!Init
  <1>2. /\ Cues!Opened(d, Cues!NoCue) \in Histories /\ Len(Cues!Opened(d, Cues!NoCue).past) = 0
        /\ Cues!Opened(d, Cues!NoCue).present.id = d
        /\ \A r : r \notin Names(Cues!Opened(d, Cues!NoCue))
    BY OpenedNames DEF Cue
  <1>3. \A t \in Tabs : /\ view[t] \in Histories /\ Len(view[t].past) <= CueHistory
                        /\ view[t].present.id = d /\ \A r : r \notin Names(view[t])
    BY <1>1, <1>2, CueAssumption
  <1>4. \A t \in Tabs : easel[t] = [step |-> "idle", base |-> [id |-> Cues!NoDoc, cue |-> Cues!NoCue],
                                    ref |-> Cues!NoCue]
    BY DEF Cues!Init, Cues!Blank
  <1>5. CueTypes
    <2>1. easel \in [Tabs -> Easel]
      BY <1>4 DEF Cues!Init, Easel, Cue
    <2>2. view \in [Tabs -> Histories]
      BY <1>1, <1>3
    <2>3. QED
      BY <1>3, <2>1, <2>2 DEF Cues!Init, CueTypes, Cue
  <1>6. DrawnFirst /\ InHand /\ NewInHand
    BY <1>3, <1>4 DEF Cues!Init, DrawnFirst, InHand, NewInHand
  <1>7. KeptUnlessExposed /\ SweptUnlessNamed
    BY <1>3, CueAssumption DEF Cues!Init, KeptUnlessExposed, SweptUnlessNamed
  <1>8. QED
    BY <1>5, <1>6, <1>7 DEF CInv

(* A new history h of tab t, and the sweep that follows it.  The tab may   *)
(* put down what its editor holds, if h shows it in the document it is of. *)
LEMMA TurnKeeps ==
  ASSUME CInv, NEW t \in Tabs, NEW h \in Histories, Len(h.past) <= CueHistory, Cues!Turn(t, h),
         Names(h) \subseteq drawn, cloud' \in [CueDocs -> drawn \cup {Cues!NoCue}],
         UNCHANGED <<stored, drawn, unkept>>,
         \/ easel' = easel
         \/ /\ easel' = [easel EXCEPT ![t] = Cues!Blank] /\ easel[t].ref \in Names(h)
            /\ h.present.id = easel[t].base.id,
         \A u \in Tabs : easel'[u].step = "stored" =>
            easel[u].ref \notin Names(h) /\ \A d \in CueDocs : cloud'[d] # easel[u].ref
  PROVE  CInv'
  <1>1. /\ view' = [view EXCEPT ![t] = h] /\ exposed' = exposed \cup Cues!Exposing(t, h)
        /\ sweeps' = sweeps \cup {[tab |-> t, id |-> h.present.id, keep |-> Names(h)]}
    BY DEF Cues!Turn, Cues!Kept, Names
  <1>2. h.present \in Cues!Page /\ h.present.id \in CueDocs /\ Names(h) \subseteq Refs
    BY NamesTyped DEF Histories, Cues!Page
  <1>3. PICK new : /\ new.tab = t /\ new.id = h.present.id /\ new.keep = Names(h)
                  /\ new \in [tab : Tabs, id : CueDocs, keep : SUBSET Refs]
                  /\ sweeps' = sweeps \cup {new}
    <2>1. PICK x : x = [tab |-> t, id |-> h.present.id, keep |-> Names(h)]
      OBVIOUS
    <2>2. x.tab = t /\ x.id = h.present.id /\ x.keep = Names(h) /\ x \in [tab : Tabs, id : CueDocs, keep : SUBSET Refs]
      BY <1>2, <2>1
    <2>3. QED
      BY <1>1, <2>1, <2>2
  <1>4. CueTypes
    BY DEF CInv
  <1>5. view'[t] = h /\ \A u \in Tabs : u # t => view'[u] = view[u]
    BY <1>1, <1>4 DEF CueTypes
  <1>6. \A u \in Tabs : \/ easel'[u] = easel[u]
                        \/ /\ u = t /\ easel'[u] = Cues!Blank /\ easel[t].ref \in Names(h)
                           /\ h.present.id = easel[t].base.id
    BY <1>4 DEF CueTypes
  <1>7. PICK blank : /\ blank = Cues!Blank /\ blank.step = "idle" /\ blank.base.id = Cues!NoDoc
                    /\ blank.base.cue = Cues!NoCue /\ blank.ref = Cues!NoCue /\ blank \in Easel
    <2>1. PICK none : none = [id |-> Cues!NoDoc, cue |-> Cues!NoCue]
      OBVIOUS
    <2>2. PICK x : x = [step |-> "idle", base |-> none, ref |-> Cues!NoCue]
      OBVIOUS
    <2>3. x = Cues!Blank
      BY <2>1, <2>2 DEF Cues!Blank
    <2>4. x \in Easel
      BY <2>1, <2>2 DEF Easel, Cue
    <2>5. x.step = "idle" /\ x.base.id = Cues!NoDoc /\ x.base.cue = Cues!NoCue /\ x.ref = Cues!NoCue
      BY <2>1, <2>2
    <2>6. QED
      BY <2>3, <2>4, <2>5
  <1>8. easel' \in [Tabs -> Easel]
    BY <1>4, <1>7 DEF CueTypes
  <1>9. /\ \A r \in Names(h) : r \notin exposed' =>
              /\ r \in Names(view[t]) \/ (stored[r] = h.present.id /\ ~Cues!Doomed(r))
              /\ \A u \in Tabs : u # t => view[u].present.id # stored[r]
        /\ \A u \in Tabs : u # t =>
              \A r \in Names(view[u]) : r \in Refs /\ r \notin Names(h) /\ stored[r] = h.present.id => r \in exposed'
        /\ exposed \subseteq exposed' /\ exposed' \subseteq Refs
    <2>1. Cues!Exposing(t, h) \subseteq Refs
      BY <1>2 DEF Cues!Exposing, Names
    <2>2. QED
      BY <1>1, <1>4, <2>1 DEF Cues!Exposing, Names, CueTypes
  <1>10. \A u \in Tabs : Names(view[u]) \subseteq Refs
    BY <1>4, NamesTyped DEF CueTypes
  <1>11. CueTypes'
    <2>1. view' \in [Tabs -> Histories] /\ \A u \in Tabs : Len(view'[u].past) <= CueHistory
      BY <1>1, <1>4, <1>5 DEF CueTypes
    <2>2. cloud' \in [CueDocs -> Cue]
      BY <1>4 DEF CueTypes, Cue
    <2>3. sweeps' \subseteq [tab : Tabs, id : CueDocs, keep : SUBSET Refs]
      BY <1>3, <1>4 DEF CueTypes
    <2>4. QED
      BY <1>4, <1>8, <1>9, <2>1, <2>2, <2>3 DEF CueTypes
  <1>12. DrawnFirst'
    BY <1>5, <1>6, <1>7 DEF CInv, DrawnFirst
  <1>13. InHand'
    BY <1>6, <1>7 DEF CInv, InHand
  <1>14. NewInHand'
    <2> SUFFICES ASSUME NEW u \in Tabs, easel'[u].step = "stored"
                 PROVE  /\ \A v \in Tabs : /\ easel'[u].ref \notin Names(view'[v])
                                           /\ easel'[v].base.cue # easel'[u].ref
                        /\ \A d \in CueDocs : cloud'[d] # easel'[u].ref
      BY DEF NewInHand, Names
    <2>1. easel'[u] = easel[u] /\ easel[u].step = "stored"
      BY <1>6, <1>7
    <2>2. easel[u].ref \in Refs /\ easel[u].ref # Cues!NoCue
      BY <2>1, CueAssumption DEF CInv, InHand
    <2>3. \A v \in Tabs : easel[u].ref \notin Names(view[v]) /\ easel[v].base.cue # easel[u].ref
      BY <2>1 DEF CInv, NewInHand
    <2>4. \A v \in Tabs : easel[u].ref \notin Names(view'[v])
      BY <1>5, <2>1, <2>3
    <2>5. \A v \in Tabs : easel'[v].base.cue # easel[u].ref
      BY <1>6, <1>7, <2>2, <2>3
    <2>6. QED
      BY <2>1, <2>4, <2>5
  <1>15. KeptUnlessExposed'
    <2> SUFFICES ASSUME NEW u \in Tabs, NEW r \in Names(view'[u]), r \notin exposed'
                 PROVE stored[r] # Cues!NoDoc /\ \A s \in sweeps' : s.id = stored[r] => r \in s.keep
      BY DEF KeptUnlessExposed
    <2>1. r \in Names(view[u]) => stored[r] # Cues!NoDoc /\ \A s \in sweeps : s.id = stored[r] => r \in s.keep
      BY <1>9 DEF CInv, KeptUnlessExposed
    <2>2. CASE u = t
      BY <1>2, <1>3, <1>5, <1>9, <2>1, <2>2, CueAssumption DEF Cues!Doomed
    <2>3. CASE u # t
      BY <1>3, <1>5, <1>9, <1>10, <2>1, <2>3
    <2>4. QED
      BY <2>2, <2>3
  <1>16. SweptUnlessNamed'
    <2> SUFFICES ASSUME NEW u \in Tabs, NEW r \in Refs, stored[r] = view'[u].present.id,
                        r \notin Names(view'[u]) \cup unkept \cup exposed'
                 PROVE \/ \E s \in sweeps' : s.tab = u /\ s.id = stored[r] /\ r \notin s.keep
                       \/ \E v \in Tabs : easel'[v].ref = r
      BY DEF SweptUnlessNamed
    <2>1. CASE u = t
      BY <1>3, <1>5, <2>1
    <2>2. CASE u # t
      <3>1. \/ \E s \in sweeps : s.tab = u /\ s.id = stored[r] /\ r \notin s.keep
            \/ \E v \in Tabs : easel[v].ref = r
        BY <1>5, <1>9, <2>2 DEF CInv, SweptUnlessNamed
      <3>2. ASSUME NEW v \in Tabs, easel[v].ref = r PROVE easel'[v].ref = r
        BY <1>5, <1>6, <1>9, <2>2, <3>2
      <3>3. QED
        BY <1>3, <3>1, <3>2
    <2>3. QED
      BY <2>1, <2>2
  <1>17. QED
    BY <1>11, <1>12, <1>13, <1>14, <1>15, <1>16 DEF CInv

(* What a tab shows it may show again.                                     *)
LEMMA ViewFacts ==
  ASSUME CInv, NEW t \in Tabs
  PROVE  /\ view[t] \in Histories /\ Len(view[t].past) <= CueHistory
         /\ view[t].present \in Cues!Page /\ view[t].present.id \in CueDocs /\ view[t].present.cue \in Cue
         /\ Names(view[t]) \subseteq drawn
         /\ view[t].present.cue # Cues!NoCue => view[t].present.cue \in Names(view[t])
         /\ cloud \in [CueDocs -> drawn \cup {Cues!NoCue}]
  <1>1. view[t] \in Histories /\ Len(view[t].past) <= CueHistory
    BY DEF CInv, CueTypes
  <1>2. view[t].present \in Cues!Page
    BY <1>1 DEF Histories
  <1>3. view[t].present.id \in CueDocs /\ view[t].present.cue \in Cue
    BY <1>2 DEF Cues!Page, Cue
  <1>4. view[t].present \in Cues!Pages(view[t])
    BY <1>1, PagesAre
  <1>5. QED
    BY <1>1, <1>2, <1>3, <1>4, NamesAre DEF CInv, CueTypes, DrawnFirst

(* Histories whose pictures the tab had already, or that are on the server *)
LEMMA OldNamesKeep ==
  ASSUME CInv, NEW t \in Tabs, NEW h \in Histories, Len(h.past) <= CueHistory, Cues!Turn(t, h),
         \A r \in Names(h) : r \in Names(view[t]) \/ \E d \in CueDocs : r = cloud[d],
         \/ cloud' = cloud
         \/ cloud' \in [CueDocs -> Cue] /\ \A d \in CueDocs :
              cloud'[d] = cloud[d] \/ cloud'[d] \in Names(view[t]) \cup {Cues!NoCue},
         UNCHANGED <<stored, easel, drawn, unkept>>
  PROVE  CInv'
  <1>1. Names(view[t]) \subseteq drawn /\ cloud \in [CueDocs -> drawn \cup {Cues!NoCue}]
    BY ViewFacts
  <1>2. \A r \in Names(h) : r \in drawn
    BY <1>1, NamesAre
  <1>3. cloud' \in [CueDocs -> drawn \cup {Cues!NoCue}]
    BY <1>1
  <1>4. ASSUME NEW u \in Tabs, easel[u].step = "stored"
        PROVE  easel[u].ref \notin Names(h) /\ \A d \in CueDocs : cloud'[d] # easel[u].ref
    BY <1>4, CueAssumption DEF CInv, InHand, NewInHand
  <1>5. QED
    BY <1>2, <1>3, <1>4, TurnKeeps

LEMMA LoadKeeps == ASSUME CInv, NEW t \in Tabs, NEW d \in CueDocs, Cues!Load(t, d) PROVE CInv'
  <1>1. cloud[d] \in Cue
    BY DEF CInv, CueTypes
  <1>2. PICK h : h = Cues!Opened(d, cloud[d])
    OBVIOUS
  <1>3. h \in Histories /\ Len(h.past) = 0 /\ \A r \in Names(h) : r = cloud[d]
    BY <1>1, <1>2, OpenedNames
  <1>4. Cues!Turn(t, h) /\ UNCHANGED <<stored, cloud, easel, drawn, unkept>>
    BY <1>2 DEF Cues!Load
  <1>5. QED
    BY <1>3, <1>4, CueAssumption, OldNamesKeep

LEMMA SaveKeeps == ASSUME CInv, NEW t \in Tabs, Cues!Save(t) PROVE CInv'
  <1>1. PICK p : p = view[t].present
    OBVIOUS
  <1>2. p.id \in CueDocs /\ p.cue \in Cue /\ (p.cue # Cues!NoCue => p.cue \in Names(view[t]))
    BY <1>1, ViewFacts
  <1>3. PICK h : h = Cues!Opened(p.id, p.cue)
    OBVIOUS
  <1>4. h \in Histories /\ Len(h.past) = 0 /\ \A r \in Names(h) : r \in Names(view[t])
    BY <1>2, <1>3, OpenedNames
  <1>5. /\ cloud' = [cloud EXCEPT ![p.id] = p.cue] /\ Cues!Turn(t, h)
        /\ UNCHANGED <<stored, easel, drawn, unkept>>
    BY <1>1, <1>3 DEF Cues!Save
  <1>6. cloud \in [CueDocs -> Cue]
    BY DEF CInv, CueTypes
  <1>7. cloud' \in [CueDocs -> Cue] /\ \A d \in CueDocs :
              cloud'[d] = cloud[d] \/ cloud'[d] \in Names(view[t]) \cup {Cues!NoCue}
    BY <1>2, <1>5, <1>6
  <1>8. QED
    BY <1>4, <1>5, <1>7, CueAssumption, OldNamesKeep

LEMMA EditKeeps ==
  ASSUME CInv, NEW t \in Tabs, Cues!RemoveCue(t) \/ Cues!OtherEdit(t) PROVE CInv'
  <1>1. PICK p \in {view[t].present, [view[t].present EXCEPT !.cue = Cues!NoCue]} :
           Cues!Turn(t, Cues!Pushed(view[t], p)) /\ UNCHANGED <<stored, cloud, easel, drawn, unkept>>
    BY DEF Cues!RemoveCue, Cues!OtherEdit
  <1>2. p \in Cues!Page /\ (p.cue = Cues!NoCue \/ p.cue \in Names(view[t]))
    BY <1>1, ViewFacts DEF Cues!Page
  <1>3. PICK h : h = Cues!Pushed(view[t], p)
    OBVIOUS
  <1>4. h \in Histories /\ Len(h.past) <= CueHistory /\ \A r \in Names(h) : r \in Names(view[t]) \/ r = p.cue
    BY <1>2, <1>3, ViewFacts, PushedPast, PushedNames
  <1>5. \A r \in Names(h) : r \in Names(view[t])
    BY <1>2, <1>4, NamesAre
  <1>6. QED
    BY <1>1, <1>3, <1>4, <1>5, OldNamesKeep

LEMMA UndoRedoKeeps ==
  ASSUME CInv, NEW t \in Tabs, Cues!Undo(t) \/ Cues!Redo(t) PROVE CInv'
  <1>1. CASE Cues!Undo(t)
    <2>1. PICK h : h = [past |-> Cues!Front(view[t].past), present |-> Cues!Last(view[t].past),
                        future |-> <<view[t].present>> \o view[t].future]
      OBVIOUS
    <2>2. h \in Histories /\ Len(h.past) <= CueHistory /\ Names(h) \subseteq Names(view[t])
      BY <1>1, <2>1, ViewFacts, UndoneNames DEF Cues!Undo
    <2>3. Cues!Turn(t, h) /\ UNCHANGED <<stored, cloud, easel, drawn, unkept>>
      BY <1>1, <2>1 DEF Cues!Undo
    <2>4. QED
      BY <2>2, <2>3, OldNamesKeep
  <1>2. CASE Cues!Redo(t)
    <2>1. PICK h : h = [past |-> Cues!Pushed(view[t], view[t].present).past, present |-> Head(view[t].future),
                        future |-> Tail(view[t].future)]
      OBVIOUS
    <2>2. h \in Histories /\ Len(h.past) <= CueHistory /\ Names(h) \subseteq Names(view[t])
      BY <1>2, <2>1, ViewFacts, RedoneNames DEF Cues!Redo
    <2>3. Cues!Turn(t, h) /\ UNCHANGED <<stored, cloud, easel, drawn, unkept>>
      BY <1>2, <2>1 DEF Cues!Redo
    <2>4. QED
      BY <2>2, <2>3, OldNamesKeep
  <1>3. QED
    BY <1>1, <1>2

LEMMA CopyKeeps ==
  ASSUME CInv, NEW t \in Tabs, NEW d \in CueDocs, Cues!Duplicate(t, d) \/ Cues!ImportStripped(t, d)
  PROVE  CInv'
  <1>1. PICK c \in {view[t].present.cue, Cues!NoCue} :
           Cues!Turn(t, Cues!Opened(d, c)) /\ UNCHANGED <<stored, cloud, easel, drawn, unkept>>
    BY DEF Cues!Duplicate, Cues!ImportStripped
  <1>2. c \in Cue /\ (c # Cues!NoCue => c \in Names(view[t]))
    BY <1>1, ViewFacts DEF Cue
  <1>3. PICK h : h = Cues!Opened(d, c)
    OBVIOUS
  <1>4. h \in Histories /\ Len(h.past) = 0 /\ \A r \in Names(h) : r \in Names(view[t])
    BY <1>2, <1>3, OpenedNames
  <1>5. QED
    BY <1>1, <1>3, <1>4, CueAssumption, OldNamesKeep

-----------------------------------------------------------------------------
(* What an editor or an import holds goes into the history.                *)
LEMMA HandedKeep ==
  ASSUME CInv, NEW t \in Tabs, easel[t].step \in {"stored", "restored"},
         NEW h \in Histories, Len(h.past) <= CueHistory, Cues!Turn(t, h),
         \A r \in Names(h) : r \in Names(view[t]) \/ r = easel[t].ref,
         easel[t].ref \in Names(h), h.present.id = easel[t].base.id,
         easel' = [easel EXCEPT ![t] = Cues!Blank],
         UNCHANGED <<stored, cloud, drawn, unkept>>
  PROVE  CInv'
  <1>1. Names(view[t]) \subseteq drawn /\ cloud \in [CueDocs -> drawn \cup {Cues!NoCue}]
    BY ViewFacts
  <1>2. \A r \in Names(h) : r \in drawn
    BY <1>1, NamesAre DEF CInv, DrawnFirst
  <1>3. /\ easel'[t] = Cues!Blank /\ Cues!Blank.step = "idle"
        /\ \A u \in Tabs : u # t => easel'[u] = easel[u]
    BY DEF CInv, CueTypes, Cues!Blank
  <1>4. ASSUME NEW u \in Tabs, easel'[u].step = "stored"
        PROVE  easel[u].ref \notin Names(h) /\ \A d \in CueDocs : cloud'[d] # easel[u].ref
    <2>1. u # t /\ easel[u].step = "stored"
      BY <1>3, <1>4
    <2>2. easel[u].ref # easel[t].ref
      BY <2>1, CueAssumption DEF CInv, InHand
    <2>3. easel[u].ref \notin Names(view[t]) /\ \A d \in CueDocs : cloud[d] # easel[u].ref
      BY <2>1 DEF CInv, NewInHand
    <2>4. QED
      BY <2>2, <2>3
  <1>5. QED
    BY <1>1, <1>2, <1>4, TurnKeeps

LEMMA AdoptKeeps == ASSUME CInv, NEW t \in Tabs, Cues!Adopt(t) PROVE CInv'
  <1>1. easel[t].base \in Cues!Page /\ easel[t].ref \in Refs /\ easel[t].step = "stored"
    BY DEF Cues!Adopt, CInv, InHand
  <1>2. PICK p : p = [easel[t].base EXCEPT !.cue = easel[t].ref]
    OBVIOUS
  <1>3. p \in Cues!Page /\ p.cue = easel[t].ref /\ p.id = easel[t].base.id /\ p.cue # Cues!NoCue
    BY <1>1, <1>2, CueAssumption DEF Cues!Page
  <1>4. PICK h : h = Cues!Pushed(view[t], p)
    OBVIOUS
  <1>5. /\ h \in Histories /\ Len(h.past) <= CueHistory /\ h.present = p
        /\ p.cue \in Names(h) /\ \A r \in Names(h) : r \in Names(view[t]) \/ r = p.cue
    BY <1>3, <1>4, ViewFacts, PushedPast, PushedNames
  <1>6. /\ Cues!Turn(t, h) /\ easel' = [easel EXCEPT ![t] = Cues!Blank]
        /\ UNCHANGED <<stored, cloud, drawn, unkept>>
    BY <1>2, <1>4 DEF Cues!Adopt
  <1>7. QED
    BY <1>1, <1>3, <1>5, <1>6, HandedKeep

LEMMA ImportKeeps == ASSUME CInv, NEW t \in Tabs, Cues!ImportRestored(t) PROVE CInv'
  <1>1. /\ easel[t].base \in Cues!Page /\ easel[t].ref \in Refs /\ easel[t].step = "restored"
        /\ easel[t].base.cue = easel[t].ref
    BY DEF Cues!ImportRestored, CInv, InHand
  <1>2. PICK p : p = easel[t].base
    OBVIOUS
  <1>3. p.id \in CueDocs /\ p.cue \in Cue /\ p.cue # Cues!NoCue
    BY <1>1, <1>2, CueAssumption DEF Cues!Page, Cue
  <1>4. PICK h : h = Cues!Opened(p.id, p.cue)
    OBVIOUS
  <1>5. /\ h \in Histories /\ Len(h.past) = 0 /\ h.present.id = p.id
        /\ \A r : r \in Names(h) <=> r = p.cue
    BY <1>3, <1>4, OpenedNames
  <1>6. /\ Cues!Turn(t, h) /\ easel' = [easel EXCEPT ![t] = Cues!Blank]
        /\ UNCHANGED <<stored, cloud, drawn, unkept>>
    BY <1>2, <1>4 DEF Cues!ImportRestored
  <1>7. /\ easel[t].ref \in Names(h) /\ h.present.id = easel[t].base.id /\ Len(h.past) <= CueHistory
        /\ \A r \in Names(h) : r \in Names(view[t]) \/ r = easel[t].ref
    BY <1>1, <1>2, <1>5, CueAssumption
  <1>8. QED
    BY <1>1, <1>5, <1>6, <1>7, HandedKeep

-----------------------------------------------------------------------------
LEMMA SweepRunsKeeps == ASSUME CInv, NEW s \in sweeps, Cues!SweepRuns(s) PROVE CInv'
  <1>1. /\ sweeps' = sweeps \ {s} /\ UNCHANGED <<cloud, view, easel, drawn, unkept, exposed>>
        /\ stored' = [r \in Refs |-> IF stored[r] = s.id /\ r \notin s.keep THEN Cues!NoDoc ELSE stored[r]]
    BY DEF Cues!SweepRuns
  <1>2. /\ \A r \in Refs : \/ stored'[r] = stored[r] /\ ~(stored[r] = s.id /\ r \notin s.keep)
                           \/ stored'[r] = Cues!NoDoc /\ stored[r] = s.id /\ r \notin s.keep
        /\ \A u \in Tabs : Names(view'[u]) = Names(view[u]) /\ Names(view[u]) \subseteq Refs
        /\ \A u \in Tabs : view[u].present.id # Cues!NoDoc
    BY <1>1, ViewFacts, CueAssumption DEF CInv, CueTypes
  <1>3. CueTypes'
    BY <1>1, <1>2 DEF CInv, CueTypes
  <1>4. DrawnFirst' /\ NewInHand'
    BY <1>1, <1>2 DEF CInv, DrawnFirst, NewInHand
  <1>5. InHand'
    <2>1. \A u \in Tabs : easel[u].ref # Cues!NoCue => easel[u].ref \in Refs
      BY DEF CInv, CueTypes, Easel, Cue
    <2>2. QED
      BY <1>1, <1>2, <2>1 DEF CInv, InHand
  <1>6. KeptUnlessExposed'
    BY <1>1, <1>2 DEF CInv, KeptUnlessExposed
  <1>7. SweptUnlessNamed'
    BY <1>1, <1>2 DEF CInv, SweptUnlessNamed
  <1>8. QED
    BY <1>3, <1>4, <1>5, <1>6, <1>7 DEF CInv

LEMMA SweepFailsKeeps == ASSUME CInv, NEW s \in sweeps, Cues!SweepFails(s) PROVE CInv'
  <1>1. /\ sweeps' = sweeps \ {s} /\ UNCHANGED <<stored, cloud, view, easel, drawn, exposed>>
        /\ unkept' = unkept \cup {r \in Refs : stored[r] = s.id /\ r \notin s.keep}
    BY DEF Cues!SweepFails
  <1>2. \A u \in Tabs : Names(view'[u]) = Names(view[u])
    BY <1>1
  <1>3. CueTypes' /\ DrawnFirst' /\ InHand' /\ NewInHand' /\ KeptUnlessExposed'
    BY <1>1, <1>2 DEF CInv, CueTypes, DrawnFirst, InHand, NewInHand, KeptUnlessExposed
  <1>4. SweptUnlessNamed'
    BY <1>1, <1>2 DEF CInv, SweptUnlessNamed
  <1>5. QED
    BY <1>3, <1>4 DEF CInv

(* An editor or import takes something up or puts it down: e is what it    *)
(* holds from now on.                                                      *)
Held(e) ==
    /\ e.ref \in drawn' \cup {Cues!NoCue} /\ e.base.cue \in drawn' \cup {Cues!NoCue}
    /\ e.step \in {"idle", "saving"} => e.ref = Cues!NoCue
    /\ e.step # "idle" => e.base \in Cues!Page
    /\ e.step \in {"stored", "restored"} => e.ref \in Refs
    /\ e.step = "restored" => e.base.cue = e.ref
    /\ e.step = "stored" => e.ref \notin drawn /\ e.base.cue # e.ref
    /\ e.ref # Cues!NoCue => stored'[e.ref] = e.base.id

Beside(t, e) ==
    \A u \in Tabs : u # t => /\ e.ref = Cues!NoCue \/ easel[u].ref # e.ref
                             /\ easel[u].step = "stored" => e.base.cue # easel[u].ref

Records(t, e) ==
    /\ drawn \subseteq drawn' /\ drawn' \subseteq Refs
    /\ unkept \subseteq unkept' /\ unkept' \subseteq Refs
    /\ stored' \in [Refs -> CueDocs \cup {Cues!NoDoc}]
    /\ \A r \in Refs :
            \/ stored'[r] = stored[r] /\ (r = easel[t].ref => r = e.ref \/ r \in unkept')
            \/ r = e.ref /\ stored[r] = Cues!NoDoc
            \/ r = e.ref /\ r \notin drawn
            \/ r = easel[t].ref /\ easel[t].step = "stored" /\ stored'[r] = Cues!NoDoc

LEMMA EaselKeeps ==
  ASSUME CInv, NEW t \in Tabs, NEW e \in Easel, easel' = [easel EXCEPT ![t] = e],
         UNCHANGED <<cloud, view, sweeps, exposed>>, Held(e), Beside(t, e), Records(t, e)
  PROVE  CInv'
  <1>1. easel'[t] = e /\ \A u \in Tabs : u # t => easel'[u] = easel[u]
    BY DEF CInv, CueTypes
  <1>2. \A u \in Tabs : /\ Names(view'[u]) = Names(view[u]) /\ Names(view[u]) \subseteq drawn
                        /\ Names(view[u]) \subseteq Refs /\ view[u].present.id # Cues!NoDoc
    BY ViewFacts, CueAssumption DEF CInv, CueTypes
  <1>3. CueTypes'
    BY <1>1 DEF CInv, CueTypes, Records
  <1>4. DrawnFirst'
    BY <1>1, <1>2 DEF CInv, DrawnFirst, Held, Records
  <1>5. InHand'
    <2>1. \A u \in Tabs : u # t /\ easel[u].ref # Cues!NoCue =>
             /\ easel[u].ref \in Refs /\ easel[u].ref # easel[t].ref
             /\ easel[u].ref # e.ref
      BY DEF CInv, InHand, CueTypes, Easel, Cue, Beside
    <2>2. \A u \in Tabs : u # t /\ easel[u].ref # Cues!NoCue => stored'[easel[u].ref] = stored[easel[u].ref]
      BY <2>1 DEF Records
    <2>3. QED
      BY <1>1, <2>1, <2>2 DEF CInv, InHand, Held, Beside
  <1>6. NewInHand'
    BY <1>1, <1>2, CueAssumption DEF CInv, NewInHand, InHand, DrawnFirst, Held, Beside, Records
  <1>7. KeptUnlessExposed'
    <2> SUFFICES ASSUME NEW u \in Tabs, NEW r \in Names(view[u]), r \notin exposed
                 PROVE  stored'[r] = stored[r]
      BY <1>2 DEF CInv, KeptUnlessExposed
    <2>1. stored[r] # Cues!NoDoc /\ r \in drawn /\ r \in Refs
      BY <1>2 DEF CInv, KeptUnlessExposed
    <2>2. easel[t].step = "stored" => r # easel[t].ref
      BY DEF CInv, NewInHand
    <2>3. QED
      BY <2>1, <2>2 DEF Held, Records
  <1>8. SweptUnlessNamed'
    <2> SUFFICES ASSUME NEW u \in Tabs, NEW r \in Refs, stored'[r] = view[u].present.id,
                        r \notin Names(view[u]) \cup unkept' \cup exposed
                 PROVE  \/ \E s \in sweeps : s.tab = u /\ s.id = stored'[r] /\ r \notin s.keep
                        \/ \E v \in Tabs : easel'[v].ref = r
      BY <1>2 DEF SweptUnlessNamed
    <2>1. CASE r = e.ref
      BY <1>1, <2>1
    <2>2. CASE r # e.ref
      <3>1. stored'[r] = stored[r] /\ r # easel[t].ref
        BY <1>2, <2>2 DEF Records
      <3>2. \/ \E s \in sweeps : s.tab = u /\ s.id = stored[r] /\ r \notin s.keep
            \/ \E v \in Tabs : easel[v].ref = r
        BY <3>1 DEF CInv, SweptUnlessNamed, Records
      <3>3. QED
        BY <1>1, <3>1, <3>2
    <2>3. QED
      BY <2>1, <2>2
  <1>9. QED
    BY <1>3, <1>4, <1>5, <1>6, <1>7, <1>8 DEF CInv

LEMMA BlankIs ==
  \E e \in Easel : /\ e = Cues!Blank /\ e.step = "idle" /\ e.ref = Cues!NoCue /\ e.base.cue = Cues!NoCue
  <1>1. PICK none : none = [id |-> Cues!NoDoc, cue |-> Cues!NoCue]
    OBVIOUS
  <1>2. PICK e : e = [step |-> "idle", base |-> none, ref |-> Cues!NoCue]
    OBVIOUS
  <1>3. e = Cues!Blank
    BY <1>1, <1>2 DEF Cues!Blank
  <1>4. e \in Easel
    BY <1>1, <1>2 DEF Easel, Cue
  <1>5. e.step = "idle" /\ e.ref = Cues!NoCue /\ e.base.cue = Cues!NoCue
    BY <1>1, <1>2
  <1>6. QED
    BY <1>3, <1>4, <1>5

LEMMA PutDownKeeps ==
  ASSUME CInv, NEW t \in Tabs, Cues!NothingStored(t) \/ Cues!Refuse(t) \/ Cues!ImportDropped(t)
  PROVE  CInv'
  <1>1. PICK e \in Easel : /\ e = Cues!Blank /\ e.step = "idle" /\ e.ref = Cues!NoCue
                          /\ e.base.cue = Cues!NoCue
    BY BlankIs
  <1>2. /\ easel' = [easel EXCEPT ![t] = e] /\ UNCHANGED <<cloud, view, sweeps, exposed, drawn>>
    BY <1>1 DEF Cues!NothingStored, Cues!Refuse, Cues!ImportDropped
  <1>3. CueTypes /\ InHand /\ NewInHand
    BY DEF CInv
  <1>4. /\ unkept \subseteq unkept' /\ unkept' \subseteq Refs
        /\ stored' \in [Refs -> CueDocs \cup {Cues!NoDoc}]
        /\ \A r \in Refs :
            \/ stored'[r] = stored[r] /\ (r = easel[t].ref => r \in unkept')
            \/ r = easel[t].ref /\ easel[t].step = "stored" /\ stored'[r] = Cues!NoDoc
    <2>1. CASE Cues!NothingStored(t)
      BY <1>3, <2>1, CueAssumption DEF Cues!NothingStored, CueTypes, InHand
    <2>2. CASE Cues!ImportDropped(t)
      BY <1>3, <2>2 DEF Cues!ImportDropped, CueTypes, InHand
    <2>3. CASE Cues!Refuse(t)
      BY <1>3, <2>3 DEF Cues!Refuse, CueTypes, InHand
    <2>4. QED
      BY <2>1, <2>2, <2>3
  <1>5. \A u \in Tabs : easel[u].step = "stored" => e.base.cue # easel[u].ref
    BY <1>1, <1>3, CueAssumption DEF InHand
  <1>6. QED
    <2>1. Held(e)
      BY <1>1 DEF Held
    <2>2. Beside(t, e)
      BY <1>1, <1>5 DEF Beside
    <2>3. Records(t, e)
      BY <1>2, <1>3, <1>4 DEF Records, CueTypes
    <2>4. QED
      BY <1>2, <2>1, <2>2, <2>3, EaselKeeps

LEMMA StartDrawingKeeps == ASSUME CInv, NEW t \in Tabs, Cues!StartDrawing(t) PROVE CInv'
  <1>1. PICK e : e = [step |-> "saving", base |-> view[t].present, ref |-> Cues!NoCue]
    OBVIOUS
  <1>2. view[t].present \in Cues!Page /\ view[t].present.cue \in drawn \cup {Cues!NoCue}
        /\ (view[t].present.cue # Cues!NoCue => view[t].present.cue \in Names(view[t]))
    BY ViewFacts
  <1>3. /\ e \in Easel /\ e.step = "saving" /\ e.ref = Cues!NoCue /\ e.base = view[t].present
    BY <1>1, <1>2 DEF Easel, Cue
  <1>4. /\ easel' = [easel EXCEPT ![t] = e] /\ easel[t].step = "idle"
        /\ UNCHANGED <<stored, cloud, view, sweeps, drawn, unkept, exposed>>
    BY <1>1 DEF Cues!StartDrawing
  <1>5. CueTypes /\ InHand /\ NewInHand
    BY DEF CInv
  <1>6. \A r \in Refs : r # easel[t].ref
    BY <1>4, <1>5, CueAssumption DEF InHand
  <1>7. \A u \in Tabs : easel[u].step = "stored" => e.base.cue # easel[u].ref
    BY <1>2, <1>3, <1>5, CueAssumption DEF InHand, NewInHand
  <1>8. QED
    <2>1. Held(e)
      BY <1>2, <1>3, <1>4 DEF Held
    <2>2. Beside(t, e)
      BY <1>3, <1>7 DEF Beside
    <2>3. Records(t, e)
      BY <1>4, <1>5, <1>6 DEF Records, CueTypes
    <2>4. QED
      BY <1>3, <1>4, <2>1, <2>2, <2>3, EaselKeeps

LEMMA AssetStoredKeeps ==
  ASSUME CInv, NEW t \in Tabs, NEW r \in Refs, Cues!AssetStored(t, r) PROVE CInv'
  <1>1. CueTypes /\ DrawnFirst /\ InHand /\ NewInHand
    BY DEF CInv
  <1>2. PICK e : e = [easel[t] EXCEPT !.step = "stored", !.ref = r]
    OBVIOUS
  <1>3. easel[t] \in Easel /\ easel[t].base \in Cues!Page /\ easel[t].ref = Cues!NoCue
    BY <1>1 DEF Cues!AssetStored, CueTypes, InHand
  <1>4. e \in Easel /\ e.step = "stored" /\ e.ref = r /\ e.base = easel[t].base
    BY <1>2, <1>3 DEF Easel, Cue
  <1>5. /\ r \notin drawn /\ drawn' = drawn \cup {r} /\ stored' = [stored EXCEPT ![r] = e.base.id]
        /\ UNCHANGED <<cloud, view, sweeps, unkept, exposed>>
    BY <1>4 DEF Cues!AssetStored
  <1>6. easel' = [easel EXCEPT ![t] = e]
    BY <1>1, <1>2, <1>3 DEF Cues!AssetStored, CueTypes, Easel
  <1>7. e.base.id \in CueDocs
    BY <1>3, <1>4 DEF Cues!Page
  <1>8. /\ stored' \in [Refs -> CueDocs \cup {Cues!NoDoc}] /\ stored'[r] = e.base.id
        /\ \A q \in Refs : q # r => stored'[q] = stored[q]
    BY <1>1, <1>5, <1>7 DEF CueTypes
  <1>9. e.base.cue \in drawn \cup {Cues!NoCue} /\ e.base.cue # e.ref /\ r # Cues!NoCue
    BY <1>1, <1>4, <1>5, CueAssumption DEF DrawnFirst
  <1>10. \A u \in Tabs : u # t => easel[u].ref # r /\ (easel[u].step = "stored" => e.base.cue # easel[u].ref)
    BY <1>1, <1>4, <1>5, <1>9 DEF DrawnFirst, NewInHand
  <1>11. \A q \in Refs : q # easel[t].ref
    BY <1>3, CueAssumption
  <1>12. drawn' \subseteq Refs /\ unkept' \subseteq Refs
    BY <1>1, <1>5 DEF CueTypes
  <1>13. QED
    <2>1. Held(e)
      BY <1>3, <1>4, <1>5, <1>8, <1>9 DEF Held
    <2>2. Beside(t, e)
      BY <1>4, <1>10 DEF Beside
    <2>3. Records(t, e)
      BY <1>4, <1>5, <1>8, <1>11, <1>12 DEF Records
    <2>4. QED
      BY <1>4, <1>5, <1>6, <2>1, <2>2, <2>3, EaselKeeps

LEMMA RestoreKeeps ==
  ASSUME CInv, NEW t \in Tabs, NEW d \in CueDocs, NEW r \in Refs, Cues!Restore(t, d, r) PROVE CInv'
  <1>1. CueTypes /\ DrawnFirst /\ InHand /\ NewInHand
    BY DEF CInv
  <1>2. PICK p : p = [id |-> d, cue |-> r]
    OBVIOUS
  <1>3. p \in Cues!Page /\ p.id = d /\ p.cue = r
    BY <1>2 DEF Cues!Page
  <1>4. PICK e : e = [step |-> "restored", base |-> p, ref |-> r]
    OBVIOUS
  <1>5. e \in Easel /\ e.step = "restored" /\ e.ref = r /\ e.base = p
    BY <1>3, <1>4 DEF Easel, Cue
  <1>6. /\ easel[t].step = "idle" /\ \A u \in Tabs : easel[u].ref # r
        /\ stored[r] \in {Cues!NoDoc, d} /\ stored' = [stored EXCEPT ![r] = d] /\ drawn' = drawn \cup {r}
        /\ easel' = [easel EXCEPT ![t] = e] /\ UNCHANGED <<cloud, view, sweeps, unkept, exposed>>
    BY <1>2, <1>4 DEF Cues!Restore
  <1>7. /\ stored' \in [Refs -> CueDocs \cup {Cues!NoDoc}] /\ stored'[r] = d
        /\ \A q \in Refs : q # r => stored'[q] = stored[q]
    BY <1>1, <1>6 DEF CueTypes
  <1>8. \A q \in Refs : q # easel[t].ref
    BY <1>1, <1>6, CueAssumption DEF InHand
  <1>9. drawn' \subseteq Refs /\ unkept' \subseteq Refs
    BY <1>1, <1>6 DEF CueTypes
  <1>10. QED
    <2>1. Held(e)
      BY <1>3, <1>5, <1>6, <1>7 DEF Held
    <2>2. Beside(t, e)
      BY <1>3, <1>5, <1>6 DEF Beside
    <2>3. Records(t, e)
      <3>1. stored'[r] = stored[r] \/ stored[r] = Cues!NoDoc
        BY <1>6, <1>7
      <3>2. QED
        BY <1>5, <1>6, <1>7, <1>8, <1>9, <3>1 DEF Records
    <2>4. QED
      BY <1>5, <1>6, <2>1, <2>2, <2>3, EaselKeeps

LEMMA NextCInv == CInv /\ [Cues!Next]_(Cues!cueVars) => CInv'
  <1> SUFFICES ASSUME CInv, [Cues!Next]_(Cues!cueVars) PROVE CInv'
    OBVIOUS
  <1>1. CASE UNCHANGED Cues!cueVars
    BY <1>1 DEF Cues!cueVars, Names, CInv, CueTypes, DrawnFirst, InHand, NewInHand, KeptUnlessExposed, SweptUnlessNamed
  <1>2. ASSUME NEW s \in sweeps, Cues!SweepRuns(s) \/ Cues!SweepFails(s) PROVE CInv'
    BY <1>2, SweepRunsKeeps, SweepFailsKeeps
  <1>3. ASSUME NEW t \in Tabs,
               \/ Cues!Save(t) \/ Cues!RemoveCue(t) \/ Cues!OtherEdit(t) \/ Cues!Undo(t) \/ Cues!Redo(t)
               \/ Cues!StartDrawing(t) \/ Cues!NothingStored(t) \/ Cues!Adopt(t) \/ Cues!Refuse(t)
               \/ Cues!ImportRestored(t) \/ Cues!ImportDropped(t)
        PROVE CInv'
    BY <1>3, SaveKeeps, EditKeeps, UndoRedoKeeps, StartDrawingKeeps, PutDownKeeps, AdoptKeeps, ImportKeeps
  <1>4. ASSUME NEW t \in Tabs, NEW d \in CueDocs,
               Cues!Load(t, d) \/ Cues!Duplicate(t, d) \/ Cues!ImportStripped(t, d)
        PROVE CInv'
    BY <1>4, LoadKeeps, CopyKeeps
  <1>5. ASSUME NEW t \in Tabs, NEW r \in Refs, Cues!AssetStored(t, r) PROVE CInv'
    BY <1>5, AssetStoredKeeps
  <1>6. ASSUME NEW t \in Tabs, NEW d \in CueDocs, NEW r \in Refs, Cues!Restore(t, d, r) PROVE CInv'
    BY <1>6, RestoreKeeps
  <1>7. QED
    BY <1>1, <1>2, <1>3, <1>4, <1>5, <1>6 DEF Cues!Next

(* CueAssets, for any tabs, documents, pictures and limits: what a page of *)
(* a tab's history names has its record, unless the name came too late or  *)
(* another tab swept it away; and a record of the document a tab has to    *)
(* itself is named by the history once its sweeps have run, unless it was  *)
(* exposed or a failure left it behind.                                    *)
THEOREM CuesHold == Cues!Spec => []CueInvariant
  <1>1. CInv => CueInvariant
    <2> SUFFICES ASSUME CInv PROVE Cues!TypeOK /\ Cues!HistoryHasAssets /\ Cues!Collected
      BY DEF CueInvariant
    <2>1. CueTypes /\ InHand
      BY DEF CInv
    <2>2. Cues!TypeOK
      <3>1. \A t \in Tabs : Cues!Pages(view[t]) \subseteq Cues!Page
        BY <2>1, PagesAre DEF CueTypes
      <3>2. QED
        BY <2>1, <3>1 DEF Cues!TypeOK, CueTypes, Cue
    <2>3. Cues!HistoryHasAssets
      BY DEF CInv, KeptUnlessExposed, Cues!HistoryHasAssets, Names
    <2>4. Cues!Collected
      <3> SUFFICES ASSUME NEW t \in Tabs, easel[t].step = "idle", \A s \in sweeps : s.tab # t,
                          \A u \in Tabs \ {t} : easel[u].base.id # view[t].present.id,
                          NEW r \in Refs, stored[r] = view[t].present.id
                   PROVE  r \in Names(view[t]) \cup unkept \cup exposed
        BY DEF Cues!Collected, Names
      <3>1. \A u \in Tabs : easel[u].ref # r
        BY <2>1, ViewFacts, CueAssumption DEF InHand
      <3>2. QED
        BY <3>1 DEF CInv, SweptUnlessNamed
    <2>5. QED
      BY <2>2, <2>3, <2>4
  <1>2. QED
    BY <1>1, CueStarts, NextCInv, PTL DEF Cues!Spec

-----------------------------------------------------------------------------
(* ReviewTrust.  Documents that are sound when v was vouched for and a was *)
(* decided.                                                                *)

Backed(field, p, v) == p.ok => p.text = Review!Typed \/ <<field, p.text>> \in v

Adoption(text, a) == text # Review!Typed => <<text, "adopt">> \in a

IslandSound(s, v, a) ==
    /\ s \in Review!Summary /\ Len(s.trail) <= TrailLimit
    /\ Backed("summary", s, v) /\ Adoption(s.text, a)
    /\ \A k \in DOMAIN s.trail : Backed("summary", s.trail[k], v) /\ Adoption(s.trail[k].text, a)
    /\ s.trail # <<>> => s.trail[Len(s.trail)].text = s.text

RelationSound(r, v) ==
    /\ r \in Review!Summary /\ Backed("relation", r, v)
    /\ \A k \in DOMAIN r.trail : Backed("relation", r.trail[k], v)
    /\ r.trail # <<>> => r.trail[Len(r.trail)] = [text |-> r.text, ok |-> r.ok]

ReviewPage == [card : Review!Piece, title : Review!Piece, sum : [Islands -> Review!Summary],
               rel : Review!Summary, story : Seq(Review!Texts)]

Sound(d, v, a) ==
    /\ d \in ReviewPage
    /\ Backed("card", d.card, v) /\ Backed("title", d.title, v) /\ RelationSound(d.rel, v)
    /\ \A i \in Islands : IslandSound(d.sum[i], v, a)

LEMMA ReviewNumbers ==
  /\ TrailLimit \in Nat /\ AttemptLimit \in Nat /\ MaxCalls \in Nat /\ ReviewHistory \in Nat
  /\ Review!Texts = 0..(MaxCalls + 1) /\ Review!Typed = 0 /\ Review!Foreign = MaxCalls + 1
  /\ Review!Typed \in Review!Texts /\ Review!Foreign \in Review!Texts
  BY ReviewAssumption DEF Review!Texts, Review!Typed, Review!Foreign

LEMMA NewestAppended ==
  ASSUME NEW S, NEW s \in Seq(S), NEW e \in S, NEW n \in Nat,
         NEW all \in Seq(S), Len(all) = Len(s) + 1, all[Len(s) + 1] = e,
         \A j \in 1..Len(s) : all[j] = s[j], NEW u, u = Review!Newest(all, n)
  PROVE  /\ u \in Seq(S) /\ Len(u) <= n
         /\ \A k \in DOMAIN u : u[k] = e \/ \E j \in DOMAIN s : u[k] = s[j]
         /\ u # <<>> => u[Len(u)] = e
  <1> DEFINE m == IF Len(all) > n THEN n ELSE Len(all)
  <1>1. /\ all \in Seq(S) /\ Len(s) \in Nat /\ Len(all) = Len(s) + 1 /\ all[Len(s) + 1] = e
        /\ \A j \in 1..Len(s) : all[j] = s[j]
    OBVIOUS
  <1>2. m \in Nat /\ m <= n /\ m <= Len(all)
    BY <1>1
  <1>3. u = SubSeq(all, Len(all) - m + 1, Len(all))
    BY DEF Review!Newest
  <1> HIDE DEF m
  <1>4. /\ u \in Seq(S) /\ Len(u) = m
        /\ \A k \in 1..m : u[k] = all[Len(all) - m + k]
    <2>1. \A k \in 1..m : Len(all) - m + k \in 1..Len(all)
      BY <1>1, <1>2
    <2>2. Len(all) - m + 1 \in 1..(Len(all) + 1)
      BY <1>1, <1>2
    <2>3. QED
      BY <1>1, <1>2, <1>3, <2>1, <2>2, SubSeqProperties
  <1>5. \A k \in 1..m : Len(all) - m + k \in 1..(Len(s) + 1)
    BY <1>1, <1>2
  <1>6. \A k \in DOMAIN u : u[k] = e \/ \E j \in DOMAIN s : u[k] = s[j]
    <2> SUFFICES ASSUME NEW k \in 1..m PROVE u[k] = e \/ \E j \in 1..Len(s) : u[k] = s[j]
      BY <1>4
    <2>1. PICK j : j = Len(all) - m + k /\ j \in 1..(Len(s) + 1)
      BY <1>5
    <2>2. j = Len(s) + 1 \/ j \in 1..Len(s)
      BY <1>1, <2>1
    <2>3. QED
      BY <1>1, <1>4, <2>1, <2>2
  <1>7. u # <<>> => u[Len(u)] = e
    <2> SUFFICES ASSUME u # <<>> PROVE u[m] = e
      BY <1>4
    <2>1. m \in 1..m /\ Len(all) - m + m = Len(s) + 1
      BY <1>1, <1>2, <1>4
    <2>2. QED
      BY <1>1, <1>4, <2>1
  <1>8. QED
    BY <1>2, <1>4, <1>6, <1>7

LEMMA IslandRewritten ==
  ASSUME NEW v, NEW a, NEW s, IslandSound(s, v, a), NEW text \in Review!Texts, NEW ok \in BOOLEAN,
         NEW force \in BOOLEAN, ok => text = Review!Typed \/ <<"summary", text>> \in v, Adoption(text, a)
  PROVE  IslandSound(Review!SummaryWithHistory(s, text, ok, force), v, a)
  <1>1. /\ s \in Review!Summary /\ s.trail \in Seq(Review!Piece) /\ Len(s.trail) <= TrailLimit
        /\ \A k \in DOMAIN s.trail : Backed("summary", s.trail[k], v) /\ Adoption(s.trail[k].text, a)
        /\ s.trail # <<>> => s.trail[Len(s.trail)].text = s.text
    BY DEF IslandSound, Review!Summary
  <1>2. PICK e : e \in Review!Piece /\ e = [text |-> text, ok |-> ok] /\ e.text = text /\ e.ok = ok
    <2>1. PICK x : x = [text |-> text, ok |-> ok]
      OBVIOUS
    <2>2. x \in Review!Piece /\ x.text = text /\ x.ok = ok
      BY <2>1 DEF Review!Piece
    <2>3. QED
      BY <2>1, <2>2
  <1>0. PICK all : all = Append(s.trail, e)
    OBVIOUS
  <1>3. PICK u : u = IF text # s.text \/ force THEN Review!Newest(all, TrailLimit) ELSE s.trail
    OBVIOUS
  <1>4. /\ u \in Seq(Review!Piece) /\ Len(u) <= TrailLimit
        /\ \A k \in DOMAIN u : Backed("summary", u[k], v) /\ Adoption(u[k].text, a)
        /\ u # <<>> => u[Len(u)].text = text
    <2>1. CASE text # s.text \/ force
      <3>1. /\ u \in Seq(Review!Piece) /\ Len(u) <= TrailLimit
            /\ \A k \in DOMAIN u : u[k] = e \/ \E j \in DOMAIN s.trail : u[k] = s.trail[j]
            /\ u # <<>> => u[Len(u)] = e
        <4>1. u = Review!Newest(all, TrailLimit)
          BY <1>3, <2>1
        <4>2. TrailLimit \in Nat
          BY ReviewNumbers
        <4>3. s.trail \in Seq(Review!Piece) /\ e \in Review!Piece
          BY <1>1, <1>2
        <4>4. /\ all \in Seq(Review!Piece) /\ Len(all) = Len(s.trail) + 1 /\ all[Len(s.trail) + 1] = e
              /\ \A j \in 1..Len(s.trail) : all[j] = s.trail[j]
          BY <1>0, <4>3
        <4>5. QED
          BY <4>1, <4>2, <4>3, <4>4, NewestAppended
      <3>2. Backed("summary", e, v) /\ Adoption(e.text, a)
        BY <1>2 DEF Backed
      <3>3. QED
        BY <1>1, <1>2, <3>1, <3>2
    <2>2. CASE ~(text # s.text \/ force)
      BY <1>1, <1>3, <2>2
    <2>3. QED
      BY <2>1, <2>2
  <1>5. PICK r : r = [text |-> text, ok |-> ok, trail |-> u]
    OBVIOUS
  <1>6. Review!SummaryWithHistory(s, text, ok, force) = r
    BY <1>0, <1>2, <1>3, <1>5 DEF Review!SummaryWithHistory
  <1>7. r \in Review!Summary /\ r.text = text /\ r.ok = ok /\ r.trail = u
    BY <1>4, <1>5 DEF Review!Summary
  <1>8. IslandSound(r, v, a)
    BY <1>4, <1>7 DEF IslandSound, Backed
  <1>9. QED
    BY <1>6, <1>8

LEMMA RelationRewritten ==
  ASSUME NEW v, NEW s, RelationSound(s, v), NEW text \in Review!Texts, NEW ok \in BOOLEAN,
         ok => text = Review!Typed \/ <<"relation", text>> \in v
  PROVE  RelationSound(Review!RelationWithHistory(s, text, ok), v)
  <1>1. /\ s \in Review!Summary /\ s.trail \in Seq(Review!Piece)
        /\ \A k \in DOMAIN s.trail : Backed("relation", s.trail[k], v)
        /\ s.trail # <<>> => s.trail[Len(s.trail)] = [text |-> s.text, ok |-> s.ok]
    BY DEF RelationSound, Review!Summary
  <1>2. PICK e : e \in Review!Piece /\ e = [text |-> text, ok |-> ok] /\ e.text = text /\ e.ok = ok
    <2>1. PICK x : x = [text |-> text, ok |-> ok]
      OBVIOUS
    <2>2. x \in Review!Piece /\ x.text = text /\ x.ok = ok
      BY <2>1 DEF Review!Piece
    <2>3. QED
      BY <2>1, <2>2
  <1>0. PICK all : all = Append(s.trail, e)
    OBVIOUS
  <1>3. PICK u : u = IF text # s.text \/ ok # s.ok THEN Review!Newest(all, TrailLimit) ELSE s.trail
    OBVIOUS
  <1>4. /\ u \in Seq(Review!Piece) /\ \A k \in DOMAIN u : Backed("relation", u[k], v)
        /\ u # <<>> => u[Len(u)] = e
    <2>1. CASE text # s.text \/ ok # s.ok
      <3>1. /\ u \in Seq(Review!Piece)
            /\ \A k \in DOMAIN u : u[k] = e \/ \E j \in DOMAIN s.trail : u[k] = s.trail[j]
            /\ u # <<>> => u[Len(u)] = e
        <4>1. u = Review!Newest(all, TrailLimit)
          BY <1>3, <2>1
        <4>2. TrailLimit \in Nat
          BY ReviewNumbers
        <4>3. s.trail \in Seq(Review!Piece) /\ e \in Review!Piece
          BY <1>1, <1>2
        <4>4. /\ all \in Seq(Review!Piece) /\ Len(all) = Len(s.trail) + 1 /\ all[Len(s.trail) + 1] = e
              /\ \A j \in 1..Len(s.trail) : all[j] = s.trail[j]
          BY <1>0, <4>3
        <4>5. QED
          BY <4>1, <4>2, <4>3, <4>4, NewestAppended
      <3>2. Backed("relation", e, v)
        BY <1>2 DEF Backed
      <3>3. QED
        BY <1>1, <3>1, <3>2
    <2>2. CASE ~(text # s.text \/ ok # s.ok)
      BY <1>1, <1>2, <1>3, <2>2
    <2>3. QED
      BY <2>1, <2>2
  <1>5. PICK r : r = [text |-> text, ok |-> ok, trail |-> u]
    OBVIOUS
  <1>6. Review!RelationWithHistory(s, text, ok) = r
    BY <1>0, <1>2, <1>3, <1>5 DEF Review!RelationWithHistory
  <1>7. r \in Review!Summary /\ r.text = text /\ r.ok = ok /\ r.trail = u
    BY <1>4, <1>5 DEF Review!Summary
  <1>8. RelationSound(r, v)
    BY <1>2, <1>4, <1>7 DEF RelationSound, Backed
  <1>9. QED
    BY <1>6, <1>8

LEMMA SoundGrows ==
  ASSUME NEW v, NEW a, NEW w, NEW b, v \subseteq w, a \subseteq b, NEW d, Sound(d, v, a)
  PROVE  Sound(d, w, b)
  <1>1. \A field, p : Backed(field, p, v) => Backed(field, p, w)
    BY DEF Backed
  <1>2. \A text : Adoption(text, a) => Adoption(text, b)
    BY DEF Adoption
  <1>3. RelationSound(d.rel, w)
    BY <1>1 DEF Sound, RelationSound
  <1>4. \A i \in Islands : IslandSound(d.sum[i], w, b)
    BY <1>1, <1>2 DEF Sound, IslandSound
  <1>5. QED
    BY <1>1, <1>3, <1>4 DEF Sound

(* A document with one field replaced.                                     *)
LEMMA FieldReplaced ==
  ASSUME NEW v, NEW a, NEW d, Sound(d, v, a)
  PROVE  /\ \A c \in Review!Piece : Backed("card", c, v) => Sound([d EXCEPT !.card = c], v, a)
         /\ \A c \in Review!Piece : Backed("title", c, v) => Sound([d EXCEPT !.title = c], v, a)
         /\ \A r : RelationSound(r, v) => Sound([d EXCEPT !.rel = r], v, a)
         /\ \A i \in Islands : \A s : IslandSound(s, v, a) => Sound([d EXCEPT !.sum[i] = s], v, a)
         /\ \A t \in Seq(Review!Texts) : Sound([d EXCEPT !.story = t], v, a)
  <1>1. d \in ReviewPage
    BY DEF Sound
  <1>2. ASSUME NEW c \in Review!Piece, Backed("card", c, v) PROVE Sound([d EXCEPT !.card = c], v, a)
    <2>1. PICK k : k = [d EXCEPT !.card = c]
      OBVIOUS
    <2>2. k \in ReviewPage /\ k.card = c /\ k.title = d.title /\ k.sum = d.sum /\ k.rel = d.rel
      BY <1>1, <2>1 DEF ReviewPage
    <2>3. QED
      BY <1>2, <2>1, <2>2 DEF Sound
  <1>3. ASSUME NEW c \in Review!Piece, Backed("title", c, v) PROVE Sound([d EXCEPT !.title = c], v, a)
    <2>1. PICK k : k = [d EXCEPT !.title = c]
      OBVIOUS
    <2>2. k \in ReviewPage /\ k.title = c /\ k.card = d.card /\ k.sum = d.sum /\ k.rel = d.rel
      BY <1>1, <2>1 DEF ReviewPage
    <2>3. QED
      BY <1>3, <2>1, <2>2 DEF Sound
  <1>4. ASSUME NEW r, RelationSound(r, v) PROVE Sound([d EXCEPT !.rel = r], v, a)
    <2>1. PICK k : k = [d EXCEPT !.rel = r]
      OBVIOUS
    <2>2. k \in ReviewPage /\ k.rel = r /\ k.card = d.card /\ k.sum = d.sum /\ k.title = d.title
      BY <1>1, <1>4, <2>1 DEF ReviewPage, RelationSound
    <2>3. QED
      BY <1>4, <2>1, <2>2 DEF Sound
  <1>5. ASSUME NEW i \in Islands, NEW s, IslandSound(s, v, a) PROVE Sound([d EXCEPT !.sum[i] = s], v, a)
    <2>1. PICK k : k = [d EXCEPT !.sum[i] = s]
      OBVIOUS
    <2>2. s \in Review!Summary /\ d.sum \in [Islands -> Review!Summary]
      BY <1>1, <1>5 DEF ReviewPage, IslandSound
    <2>3. /\ k \in ReviewPage /\ k.rel = d.rel /\ k.card = d.card /\ k.title = d.title
          /\ k.sum = [d.sum EXCEPT ![i] = s]
      BY <1>1, <2>1, <2>2 DEF ReviewPage
    <2>4. \A j \in Islands : k.sum[j] = IF j = i THEN s ELSE d.sum[j]
      BY <2>2, <2>3
    <2>5. QED
      BY <1>5, <2>1, <2>3, <2>4 DEF Sound
  <1>6. ASSUME NEW t \in Seq(Review!Texts) PROVE Sound([d EXCEPT !.story = t], v, a)
    <2>1. PICK k : k = [d EXCEPT !.story = t]
      OBVIOUS
    <2>2. k \in ReviewPage /\ k.card = d.card /\ k.title = d.title /\ k.sum = d.sum /\ k.rel = d.rel
      BY <1>1, <2>1 DEF ReviewPage
    <2>3. QED
      BY <2>1, <2>2 DEF Sound
  <1>7. QED
    BY <1>2, <1>3, <1>4, <1>5, <1>6

LEMMA StartSound ==
  ASSUME NEW v, NEW a, NEW c \in Review!Piece, Backed("card", c, v)
  PROVE  Sound(Review!Start(c), v, a)
  <1>1. PICK fresh : /\ fresh = Review!Fresh /\ fresh \in Review!Piece /\ Backed("title", fresh, v)
    <2>1. PICK x : x = [text |-> Review!Typed, ok |-> TRUE]
      OBVIOUS
    <2>2. x \in Review!Piece /\ x.text = Review!Typed
      BY <2>1, ReviewNumbers DEF Review!Piece
    <2>3. QED
      BY <2>1, <2>2 DEF Review!Fresh, Backed
  <1>2. PICK s : s = [text |-> Review!Typed, ok |-> FALSE, trail |-> <<>>]
    OBVIOUS
  <1>3. /\ s \in Review!Summary /\ s.text = Review!Typed /\ s.ok = FALSE /\ s.trail = <<>>
    BY <1>2, ReviewNumbers DEF Review!Summary
  <1>4. IslandSound(s, v, a) /\ RelationSound(s, v)
    <2>1. Len(s.trail) = 0 /\ DOMAIN s.trail = {}
      BY <1>3
    <2>2. QED
      BY <1>3, <2>1, ReviewNumbers DEF IslandSound, RelationSound, Backed, Adoption
  <1>5. PICK d : d = [card |-> c, title |-> fresh, sum |-> [i \in Islands |-> s], rel |-> s, story |-> <<>>]
    OBVIOUS
  <1>6. Review!Start(c) = d
    BY <1>1, <1>2, <1>5 DEF Review!Start
  <1>7. /\ d \in ReviewPage /\ d.card = c /\ d.title = fresh /\ d.rel = s /\ \A i \in Islands : d.sum[i] = s
    BY <1>1, <1>3, <1>5 DEF ReviewPage
  <1>8. QED
    BY <1>1, <1>4, <1>6, <1>7 DEF Sound

-----------------------------------------------------------------------------
(* The inductive invariant: all documents are sound, those captured by     *)
(* calls too; a try that counts against the stopper was within it.         *)
HistorySound(v, a) ==
    /\ Sound(page, v, a)
    /\ pagePast \in Seq(ReviewPage) /\ Len(pagePast) <= ReviewHistory
    /\ \A k \in DOMAIN pagePast : Sound(pagePast[k], v, a)
    /\ pageFuture \in Seq(ReviewPage) /\ \A k \in DOMAIN pageFuture : Sound(pageFuture[k], v, a)
    /\ preview \subseteq Review!Piece /\ \A c \in preview : Backed("card", c, v)

FlightsSound(v, a) ==
    \A f \in flights :
        /\ Sound(f.base, v, a) /\ f.text \in Review!Texts /\ f.offer \subseteq Review!Texts
        /\ f.kind = "decide" /\ f.decision = "adopt" =>
              f.offer # {} /\ f.target # {} /\ f.target \subseteq Islands

LayoutsOK ==
    /\ \A f \in flights : f.kind = "layout" /\ f.decision = "resuggest" => attempts < AttemptLimit
    /\ \A f, g \in flights : f.kind = "layout" /\ g.kind = "layout" => f = g

Counts == /\ attempts \in 0..AttemptLimit /\ sent \in 0..MaxCalls
          /\ offer \subseteq Review!Texts /\ box \in Review!Texts

RInv == HistorySound(vouched, decided) /\ FlightsSound(vouched, decided) /\ LayoutsOK /\ Counts

LEMMA ReviewStarts == Review!Init => RInv
  <1> SUFFICES ASSUME Review!Init PROVE RInv
    OBVIOUS
  <1>1. PICK c : c \in {Review!Fresh, [text |-> Review!Foreign, ok |-> FALSE]} /\ page = Review!Start(c)
    BY DEF Review!Init
  <1>2. c \in Review!Piece /\ Backed("card", c, vouched)
    <2>1. PICK x, y : x = [text |-> Review!Typed, ok |-> TRUE] /\ y = [text |-> Review!Foreign, ok |-> FALSE]
      OBVIOUS
    <2>2. x \in Review!Piece /\ x.text = Review!Typed
      BY <2>1, ReviewNumbers DEF Review!Piece
    <2>3. y \in Review!Piece /\ y.ok = FALSE
      BY <2>1, ReviewNumbers DEF Review!Piece
    <2>4. c = x \/ c = y
      BY <1>1, <2>1 DEF Review!Fresh
    <2>5. QED
      BY <2>2, <2>3, <2>4 DEF Backed
  <1>3. Sound(page, vouched, decided)
    BY <1>1, <1>2, StartSound
  <1>4. HistorySound(vouched, decided)
    BY <1>3, ReviewNumbers DEF Review!Init, HistorySound
  <1>5. QED
    BY <1>4, ReviewNumbers DEF Review!Init, RInv, FlightsSound, LayoutsOK, Counts

LEMMA HistoryStays ==
  ASSUME HistorySound(vouched, decided), vouched \subseteq vouched', decided \subseteq decided',
         UNCHANGED <<page, pagePast, pageFuture>>, preview' \subseteq Review!Piece,
         \A c \in preview' : Backed("card", c, vouched')
  PROVE  HistorySound(vouched, decided)'
  <1>1. PICK w, b : w = vouched' /\ b = decided'
    OBVIOUS
  <1>2. \A d : Sound(d, vouched, decided) => Sound(d, w, b)
    BY <1>1, SoundGrows
  <1>3. QED
    BY <1>1, <1>2 DEF HistorySound

LEMMA HistoryChanges ==
  ASSUME HistorySound(vouched, decided), NEW d, NEW keep \in BOOLEAN, Review!Change(d, keep),
         vouched \subseteq vouched', decided \subseteq decided', Sound(d, vouched', decided')
  PROVE  HistorySound(vouched, decided)'
  <1>1. PICK w, b : w = vouched' /\ b = decided'
    OBVIOUS
  <1>2. \A x : Sound(x, vouched, decided) => Sound(x, w, b)
    BY <1>1, SoundGrows
  <1>3. \A c : Backed("card", c, vouched) => Backed("card", c, w)
    BY <1>1 DEF Backed
  <1>4. CASE readOnly
    <2>1. UNCHANGED <<page, pagePast, pageFuture, preview>>
      BY <1>4 DEF Review!Change
    <2>2. QED
      BY <1>1, <1>3, <2>1, HistoryStays DEF HistorySound
  <1>5. CASE ~readOnly
    <2>1. PICK all : all = Append(pagePast, page)
      OBVIOUS
    <2>2. /\ page' = d /\ pagePast' = Review!Newest(all, ReviewHistory) /\ pageFuture' = <<>>
          /\ preview' \subseteq preview
      BY <1>5, <2>1 DEF Review!Change
    <2>3. page \in ReviewPage /\ pagePast \in Seq(ReviewPage) /\ ReviewHistory \in Nat
      BY ReviewNumbers DEF HistorySound, Sound
    <2>4. /\ all \in Seq(ReviewPage) /\ Len(all) = Len(pagePast) + 1 /\ all[Len(pagePast) + 1] = page
          /\ \A j \in 1..Len(pagePast) : all[j] = pagePast[j]
      BY <2>1, <2>3
    <2>5. PICK u : u = Review!Newest(all, ReviewHistory)
      OBVIOUS
    <2>6. /\ u \in Seq(ReviewPage) /\ Len(u) <= ReviewHistory
          /\ \A k \in DOMAIN u : u[k] = page \/ \E j \in DOMAIN pagePast : u[k] = pagePast[j]
      BY <2>3, <2>4, <2>5, NewestAppended
    <2>7. \A k \in DOMAIN u : Sound(u[k], w, b)
      BY <1>2, <2>6 DEF HistorySound
    <2>8. QED
      BY <1>1, <1>3, <2>2, <2>5, <2>6, <2>7 DEF HistorySound
  <1>6. QED
    BY <1>4, <1>5

LEMMA FlightsStay ==
  ASSUME FlightsSound(vouched, decided), vouched \subseteq vouched', decided \subseteq decided',
         flights' \subseteq flights
  PROVE  FlightsSound(vouched, decided)'
  <1>1. PICK w, b : w = vouched' /\ b = decided'
    OBVIOUS
  <1>2. \A d : Sound(d, vouched, decided) => Sound(d, w, b)
    BY <1>1, SoundGrows
  <1>3. QED
    BY <1>1, <1>2 DEF FlightsSound

(* What people do. *)
LEMMA PersonKeeps ==
  ASSUME RInv, NEW d, NEW keep \in BOOLEAN, Review!Change(d, keep), UNCHANGED Review!Beside,
         vouched \subseteq vouched', Sound(d, vouched', decided)
  PROVE  RInv'
  <1>1. UNCHANGED <<attempts, offer, box, flights, decided, readOnly, sent>>
    BY DEF Review!Beside
  <1>2. HistorySound(vouched, decided)'
    BY <1>1, HistoryChanges DEF RInv
  <1>3. FlightsSound(vouched, decided)'
    BY <1>1, FlightsStay DEF RInv
  <1>4. LayoutsOK' /\ Counts'
    BY <1>1 DEF RInv, LayoutsOK, Counts
  <1>5. QED
    BY <1>2, <1>3, <1>4 DEF RInv

LEMMA EditHolds ==
  ASSUME RInv, NEW d, NEW keep \in BOOLEAN, Review!Edit(d, keep), Sound(d, vouched, decided)
  PROVE  RInv'
  BY PersonKeeps DEF Review!Edit

LEMMA MarkHolds ==
  ASSUME RInv, NEW field, NEW d, NEW ok \in BOOLEAN, NEW keep \in BOOLEAN, Review!Mark(field, d, ok, keep),
         \A w : vouched \subseteq w /\ (ok => field \in w) => Sound(d, w, decided)
  PROVE  RInv'
  <1>1. PICK w : w = vouched'
    OBVIOUS
  <1>2. vouched \subseteq w /\ (ok => field \in w) /\ Review!Change(d, keep) /\ UNCHANGED Review!Beside
    BY <1>1 DEF Review!Mark
  <1>3. QED
    BY <1>1, <1>2, PersonKeeps
LEMMA PieceMade ==
  ASSUME NEW text \in Review!Texts, NEW ok \in BOOLEAN
  PROVE  \E x \in Review!Piece : x = [text |-> text, ok |-> ok] /\ x.text = text /\ x.ok = ok
  <1>1. PICK x : x = [text |-> text, ok |-> ok]
    OBVIOUS
  <1>2. x \in Review!Piece /\ x.text = text /\ x.ok = ok
    BY <1>1 DEF Review!Piece
  <1>3. QED
    BY <1>1, <1>2

LEMMA PageParts ==
  ASSUME NEW v, NEW a, NEW d, Sound(d, v, a)
  PROVE  /\ d.card \in Review!Piece /\ d.title \in Review!Piece /\ d.rel \in Review!Summary
         /\ d.story \in Seq(Review!Texts) /\ d.sum \in [Islands -> Review!Summary]
         /\ d.card.text \in Review!Texts /\ d.card.ok \in BOOLEAN
         /\ d.title.text \in Review!Texts /\ d.title.ok \in BOOLEAN
         /\ d.rel.text \in Review!Texts /\ d.rel.ok \in BOOLEAN /\ d.rel.trail \in Seq(Review!Piece)
         /\ \A i \in Islands : /\ d.sum[i].text \in Review!Texts /\ d.sum[i].ok \in BOOLEAN
                               /\ d.sum[i].trail \in Seq(Review!Piece)
  <1>1. /\ d.card \in Review!Piece /\ d.title \in Review!Piece /\ d.rel \in Review!Summary
        /\ d.story \in Seq(Review!Texts) /\ d.sum \in [Islands -> Review!Summary]
    BY DEF Sound, ReviewPage
  <1>2. \A x \in Review!Piece : x.text \in Review!Texts /\ x.ok \in BOOLEAN
    BY DEF Review!Piece
  <1>3. \A x \in Review!Summary : x.text \in Review!Texts /\ x.ok \in BOOLEAN /\ x.trail \in Seq(Review!Piece)
    BY DEF Review!Summary
  <1>4. \A i \in Islands : d.sum[i] \in Review!Summary
    BY <1>1
  <1>5. QED
    BY <1>1, <1>2, <1>3, <1>4

(* Marking changes the flag alone. *)
LEMMA CardMarked ==
  ASSUME NEW v, NEW a, NEW d, Sound(d, v, a), NEW ok \in BOOLEAN,
         ok => d.card.text = Review!Typed \/ <<"card", d.card.text>> \in v
  PROVE  Sound([d EXCEPT !.card.ok = ok], v, a)
  <1>1. PICK c : c = [d.card EXCEPT !.ok = ok]
    OBVIOUS
  <1>2. c \in Review!Piece /\ c.text = d.card.text /\ c.ok = ok
    BY <1>1, PageParts DEF Review!Piece
  <1>3. Backed("card", c, v)
    BY <1>2 DEF Backed
  <1>4. [d EXCEPT !.card.ok = ok] = [d EXCEPT !.card = c]
    BY <1>1
  <1>5. QED
    BY <1>2, <1>3, <1>4, FieldReplaced

LEMMA TitleMarked ==
  ASSUME NEW v, NEW a, NEW d, Sound(d, v, a), NEW ok \in BOOLEAN,
         ok => d.title.text = Review!Typed \/ <<"title", d.title.text>> \in v
  PROVE  Sound([d EXCEPT !.title.ok = ok], v, a)
  <1>1. PICK c : c = [d.title EXCEPT !.ok = ok]
    OBVIOUS
  <1>2. c \in Review!Piece /\ c.text = d.title.text /\ c.ok = ok
    BY <1>1, PageParts DEF Review!Piece
  <1>3. Backed("title", c, v)
    BY <1>2 DEF Backed
  <1>4. [d EXCEPT !.title.ok = ok] = [d EXCEPT !.title = c]
    BY <1>1
  <1>5. QED
    BY <1>2, <1>3, <1>4, FieldReplaced

LEMMA IslandMarked ==
  ASSUME NEW v, NEW a, NEW d, Sound(d, v, a), NEW ok \in BOOLEAN, NEW i \in Islands,
         ok => d.sum[i].text = Review!Typed \/ <<"summary", d.sum[i].text>> \in v
  PROVE  Sound([d EXCEPT !.sum[i].ok = ok], v, a)
  <1>1. PICK s : s = [d.sum[i] EXCEPT !.ok = ok]
    OBVIOUS
  <1>2. d.sum[i] \in Review!Summary /\ IslandSound(d.sum[i], v, a)
    BY PageParts DEF Sound
  <1>3. s \in Review!Summary /\ s.text = d.sum[i].text /\ s.ok = ok /\ s.trail = d.sum[i].trail
    BY <1>1, <1>2 DEF Review!Summary
  <1>4. IslandSound(s, v, a)
    BY <1>2, <1>3 DEF Backed, IslandSound
  <1>5. [d EXCEPT !.sum[i].ok = ok] = [d EXCEPT !.sum[i] = s]
    BY <1>1
  <1>6. QED
    BY <1>4, <1>5, FieldReplaced

LEMMA RelationSet ==
  ASSUME NEW v, NEW a, NEW d, Sound(d, v, a), NEW text \in Review!Texts, NEW ok \in BOOLEAN,
         ok => text = Review!Typed \/ <<"relation", text>> \in v
  PROVE  Sound([d EXCEPT !.rel = Review!RelationWithHistory(@, text, ok)], v, a)
  <1>1. RelationSound(Review!RelationWithHistory(d.rel, text, ok), v)
    BY RelationRewritten DEF Sound
  <1>2. QED
    BY <1>1, FieldReplaced

LEMMA IslandSet ==
  ASSUME NEW v, NEW a, NEW d, Sound(d, v, a), NEW i \in Islands, NEW text \in Review!Texts,
         NEW ok \in BOOLEAN, NEW force \in BOOLEAN,
         ok => text = Review!Typed \/ <<"summary", text>> \in v, Adoption(text, a)
  PROVE  Sound([d EXCEPT !.sum[i] = Review!SummaryWithHistory(@, text, ok, force)], v, a)
  <1>1. IslandSound(Review!SummaryWithHistory(d.sum[i], text, ok, force), v, a)
    BY IslandRewritten DEF Sound
  <1>2. QED
    BY <1>1, FieldReplaced

LEMMA PageSound == RInv => Sound(page, vouched, decided)
  BY DEF RInv, HistorySound

LEMMA CommitCardTextHolds == RInv /\ Review!CommitCardText => RInv'
  <1> SUFFICES ASSUME RInv, Review!CommitCardText PROVE RInv'
    OBVIOUS
  <1>1. Sound(page, vouched, decided)
    BY PageSound
  <1>2. PICK c : c = [page.card EXCEPT !.text = Review!Typed]
    OBVIOUS
  <1>3. c \in Review!Piece /\ c.text = Review!Typed
    BY <1>1, <1>2, PageParts, ReviewNumbers DEF Review!Piece
  <1>4. [page EXCEPT !.card.text = Review!Typed] = [page EXCEPT !.card = c]
    BY <1>2
  <1>5. Sound([page EXCEPT !.card.text = Review!Typed], vouched, decided)
    BY <1>1, <1>3, <1>4, FieldReplaced DEF Backed
  <1>6. QED
    BY <1>5, EditHolds DEF Review!CommitCardText

LEMMA FreshIsSound == Review!Fresh \in Review!Piece /\ Review!Fresh.text = Review!Typed
  <1>1. PICK x \in Review!Piece : x = [text |-> Review!Typed, ok |-> TRUE] /\ x.text = Review!Typed
    BY PieceMade, ReviewNumbers
  <1>2. QED
    BY <1>1 DEF Review!Fresh

LEMMA CardsAndTitlesHold ==
  ASSUME RInv, \/ Review!PlacardCardTextChange \/ Review!IslandTitleChange
               \/ Review!IslandPlacardCardChange
  PROVE  RInv'
  <1>1. Sound(page, vouched, decided)
    BY PageSound
  <1>2. CASE Review!PlacardCardTextChange
    <2>1. Sound([page EXCEPT !.card = Review!Fresh], vouched, decided)
      BY <1>1, FreshIsSound, FieldReplaced DEF Backed
    <2>2. QED
      BY <1>2, <2>1, EditHolds DEF Review!PlacardCardTextChange
  <1>3. CASE Review!IslandTitleChange
    <2>1. Sound([page EXCEPT !.title = Review!Fresh], vouched, decided)
      BY <1>1, FreshIsSound, FieldReplaced DEF Backed
    <2>2. QED
      BY <1>3, <2>1, EditHolds DEF Review!IslandTitleChange
  <1>4. CASE Review!IslandPlacardCardChange
    <2>1. Sound([page EXCEPT !.title.ok = FALSE], vouched, decided)
      BY <1>1, TitleMarked
    <2>2. QED
      BY <1>4, <2>1, EditHolds DEF Review!IslandPlacardCardChange
  <1>5. QED
    BY <1>2, <1>3, <1>4

LEMMA SummariesTyped ==
  ASSUME RInv, \/ Review!RelationSummaryCommit
               \/ \E i \in Islands : Review!IslandSummaryTextChange(i)
  PROVE  RInv'
  <1>1. Sound(page, vouched, decided) /\ Review!Typed \in Review!Texts
    BY PageSound, ReviewNumbers
  <1>2. CASE Review!RelationSummaryCommit
    <2>1. Sound([page EXCEPT !.rel = Review!RelationWithHistory(@, Review!Typed, TRUE)], vouched, decided)
      BY <1>1, RelationSet
    <2>2. QED
      BY <1>2, <2>1, EditHolds DEF Review!RelationSummaryCommit
  <1>3. CASE \E i \in Islands : Review!IslandSummaryTextChange(i)
    <2>1. PICK i \in Islands : Review!IslandSummaryTextChange(i)
      BY <1>3
    <2>2. Sound([page EXCEPT !.sum[i] = Review!SummaryWithHistory(@, Review!Typed, TRUE, FALSE)],
                vouched, decided)
      BY <1>1, IslandSet DEF Adoption
    <2>3. QED
      BY <2>1, <2>2, EditHolds DEF Review!IslandSummaryTextChange
  <1>4. QED
    BY <1>2, <1>3
LEMMA MarksHold ==
  ASSUME RInv, NEW ok \in BOOLEAN,
         \/ Review!CardTextReviewedChange(ok) \/ Review!IslandTitleReviewedChange(ok)
         \/ Review!RelationSummaryReviewedChange(ok)
         \/ \E i \in Islands : Review!IslandSummaryReviewedChange(i, ok)
  PROVE  RInv'
  <1>1. Sound(page, vouched, decided)
    BY PageSound
  <1>2. \A w : vouched \subseteq w => Sound(page, w, decided)
    BY <1>1, SoundGrows
  <1>3. CASE Review!CardTextReviewedChange(ok)
    <2>1. ASSUME NEW w, vouched \subseteq w, ok => <<"card", page.card.text>> \in w
          PROVE  Sound([page EXCEPT !.card.ok = ok], w, decided)
      <3>1. Sound(page, w, decided)
        BY <1>2, <2>1
      <3>2. QED
        BY <2>1, <3>1, CardMarked
    <2>2. Review!Mark(<<"card", page.card.text>>, [page EXCEPT !.card.ok = ok], ok, TRUE)
      BY <1>3 DEF Review!CardTextReviewedChange
    <2>3. QED
      BY <2>1, <2>2, MarkHolds
  <1>4. CASE Review!IslandTitleReviewedChange(ok)
    <2>1. ASSUME NEW w, vouched \subseteq w, ok => <<"title", page.title.text>> \in w
          PROVE  Sound([page EXCEPT !.title.ok = ok], w, decided)
      <3>1. Sound(page, w, decided)
        BY <1>2, <2>1
      <3>2. QED
        BY <2>1, <3>1, TitleMarked
    <2>2. Review!Mark(<<"title", page.title.text>>, [page EXCEPT !.title.ok = ok], ok, FALSE)
      BY <1>4 DEF Review!IslandTitleReviewedChange
    <2>3. QED
      BY <2>1, <2>2, MarkHolds
  <1>5. CASE Review!RelationSummaryReviewedChange(ok)
    <2>0. page.rel.text \in Review!Texts
      BY <1>1, PageParts
    <2>1. ASSUME NEW w, vouched \subseteq w, ok => <<"relation", page.rel.text>> \in w
          PROVE  Sound([page EXCEPT !.rel = Review!RelationWithHistory(@, page.rel.text, ok)], w, decided)
      <3>1. Sound(page, w, decided)
        BY <1>2, <2>1
      <3>2. QED
        BY <2>0, <2>1, <3>1, RelationSet
    <2>2. Review!Mark(<<"relation", page.rel.text>>,
                      [page EXCEPT !.rel = Review!RelationWithHistory(@, page.rel.text, ok)], ok, FALSE)
      BY <1>5 DEF Review!RelationSummaryReviewedChange
    <2>3. QED
      BY <2>1, <2>2, MarkHolds
  <1>6. CASE \E i \in Islands : Review!IslandSummaryReviewedChange(i, ok)
    <2>0. PICK i \in Islands : Review!IslandSummaryReviewedChange(i, ok)
      BY <1>6
    <2>1. ASSUME NEW w, vouched \subseteq w, ok => <<"summary", page.sum[i].text>> \in w
          PROVE  Sound([page EXCEPT !.sum[i].ok = ok], w, decided)
      <3>1. Sound(page, w, decided)
        BY <1>2, <2>1
      <3>2. QED
        BY <2>1, <3>1, IslandMarked
    <2>2. Review!Mark(<<"summary", page.sum[i].text>>, [page EXCEPT !.sum[i].ok = ok], ok, FALSE)
      BY <2>0 DEF Review!IslandSummaryReviewedChange
    <2>3. QED
      BY <2>1, <2>2, MarkHolds
  <1>7. QED
    BY <1>3, <1>4, <1>5, <1>6

(* A restored version is a piece of the trail, sound as the trail is. *)
LEMMA RestoredHolds ==
  ASSUME RInv, NEW n,
         \/ Review!RestoreRelationSummaryHistoryEntry(n)
         \/ \E i \in Islands : Review!RestoreIslandSummaryVersion(i, n)
  PROVE  RInv'
  <1>1. Sound(page, vouched, decided)
    BY PageSound
  <1>2. \A x \in Review!Piece : x.text \in Review!Texts /\ x.ok \in BOOLEAN
    BY DEF Review!Piece
  <1>3. CASE Review!RestoreRelationSummaryHistoryEntry(n)
    <2>1. PICK e : e = page.rel.trail[n]
      OBVIOUS
    <2>2. n \in DOMAIN page.rel.trail /\ page.rel.trail \in Seq(Review!Piece)
      BY <1>1, <1>3, PageParts DEF Review!RestoreRelationSummaryHistoryEntry
    <2>3. e \in Review!Piece /\ Backed("relation", e, vouched)
      BY <1>1, <2>1, <2>2 DEF Sound, RelationSound
    <2>4. Sound([page EXCEPT !.rel = Review!RelationWithHistory(@, e.text, e.ok)], vouched, decided)
      BY <1>1, <1>2, <2>3, RelationSet DEF Backed
    <2>5. Review!Edit([page EXCEPT !.rel = Review!RelationWithHistory(@, e.text, e.ok)], FALSE)
      BY <1>3, <2>1 DEF Review!RestoreRelationSummaryHistoryEntry, Review!Restored
    <2>6. QED
      BY <2>4, <2>5, EditHolds
  <1>4. CASE \E i \in Islands : Review!RestoreIslandSummaryVersion(i, n)
    <2>0. PICK i \in Islands : Review!RestoreIslandSummaryVersion(i, n)
      BY <1>4
    <2>1. PICK e : e = page.sum[i].trail[n]
      OBVIOUS
    <2>2. n \in DOMAIN page.sum[i].trail /\ page.sum[i].trail \in Seq(Review!Piece)
      BY <1>1, <2>0, PageParts DEF Review!RestoreIslandSummaryVersion
    <2>3. e \in Review!Piece /\ Backed("summary", e, vouched) /\ Adoption(e.text, decided)
      BY <1>1, <2>1, <2>2 DEF Sound, IslandSound
    <2>4. Sound([page EXCEPT !.sum[i] = Review!SummaryWithHistory(@, e.text, e.ok, TRUE)], vouched, decided)
      BY <1>1, <1>2, <2>3, IslandSet DEF Backed
    <2>5. Review!Edit([page EXCEPT !.sum[i] = Review!SummaryWithHistory(@, e.text, e.ok, TRUE)], FALSE)
      BY <2>0, <2>1 DEF Review!RestoreIslandSummaryVersion, Review!Restored
    <2>6. QED
      BY <2>4, <2>5, EditHolds
  <1>5. QED
    BY <1>3, <1>4

LEMMA DiscardSuggestionHolds == RInv /\ Review!DiscardSuggestion => RInv'
  <1> SUFFICES ASSUME RInv, Review!DiscardSuggestion PROVE RInv'
    OBVIOUS
  <1>1. /\ preview' = {} /\ attempts' = 0
        /\ UNCHANGED <<page, pagePast, pageFuture, offer, box, flights, decided, vouched, sent>>
    BY DEF Review!DiscardSuggestion
  <1>2. HistorySound(vouched, decided)'
    BY <1>1, HistoryStays DEF RInv
  <1>3. FlightsSound(vouched, decided)'
    BY <1>1, FlightsStay DEF RInv
  <1>4. LayoutsOK' /\ Counts'
    BY <1>1, ReviewNumbers DEF RInv, LayoutsOK, Counts
  <1>5. QED
    BY <1>2, <1>3, <1>4 DEF RInv

LEMMA UndoHolds == RInv /\ Review!Undo => RInv'
  <1> SUFFICES ASSUME RInv, Review!Undo PROVE RInv'
    OBVIOUS
  <1>1. PICK p, q, n, f : p = pagePast /\ q = pageFuture /\ n = Len(p) /\ f = <<page>> \o q
    OBVIOUS
  <1>2. /\ p \in Seq(ReviewPage) /\ q \in Seq(ReviewPage) /\ page \in ReviewPage /\ p # <<>>
        /\ n <= ReviewHistory
    BY <1>1 DEF RInv, HistorySound, Sound, Review!Undo
  <1>3. n \in Nat /\ n >= 1 /\ DOMAIN p = 1..n
    BY <1>1, <1>2
  <1>4. PICK u : u = SubSeq(p, 1, n - 1)
    OBVIOUS
  <1>5. u \in Seq(ReviewPage) /\ Len(u) = n - 1 /\ \A k \in 1..(n - 1) : u[k] = p[k]
    BY <1>2, <1>3, <1>4
  <1>6. /\ page' = p[n] /\ pagePast' = u /\ pageFuture' = f
        /\ UNCHANGED <<preview, attempts, offer, box, flights, decided, sent, vouched>>
    BY <1>1, <1>4 DEF Review!Undo, Review!Beside, Review!Last, Review!Front
  <1>7. /\ f \in Seq(ReviewPage) /\ Len(f) = Len(q) + 1 /\ f[1] = page
        /\ \A k \in 2..(Len(q) + 1) : f[k] = q[k - 1]
    BY <1>1, <1>2
  <1>8. /\ Sound(page, vouched, decided) /\ \A k \in 1..n : Sound(p[k], vouched, decided)
        /\ \A k \in DOMAIN q : Sound(q[k], vouched, decided)
    BY <1>1, <1>3 DEF RInv, HistorySound
  <1>9. \A k \in DOMAIN f : Sound(f[k], vouched, decided)
    <2> SUFFICES ASSUME NEW k \in 1..(Len(q) + 1) PROVE Sound(f[k], vouched, decided)
      BY <1>2, <1>7
    <2>1. CASE k = 1
      BY <1>7, <1>8, <2>1
    <2>2. CASE k # 1
      <3>1. k \in 2..(Len(q) + 1) /\ k - 1 \in 1..Len(q)
        BY <1>2, <2>2
      <3>2. QED
        BY <1>2, <1>7, <1>8, <3>1
    <2>3. QED
      BY <2>1, <2>2
  <1>10. n \in 1..n /\ \A k \in DOMAIN u : k \in 1..n /\ u[k] = p[k]
    BY <1>3, <1>5
  <1>11. Len(u) <= ReviewHistory
    BY <1>2, <1>3, <1>5, ReviewNumbers
  <1>12. HistorySound(vouched, decided)'
    BY <1>5, <1>6, <1>7, <1>8, <1>9, <1>10, <1>11 DEF RInv, HistorySound
  <1>13. FlightsSound(vouched, decided)'
    BY <1>6, FlightsStay DEF RInv
  <1>14. LayoutsOK' /\ Counts'
    BY <1>6 DEF RInv, LayoutsOK, Counts
  <1>15. QED
    BY <1>12, <1>13, <1>14 DEF RInv

LEMMA RedoHolds == RInv /\ Review!Redo => RInv'
  <1> SUFFICES ASSUME RInv, Review!Redo PROVE RInv'
    OBVIOUS
  <1>1. PICK p, q, all : p = pagePast /\ q = pageFuture /\ all = Append(p, page)
    OBVIOUS
  <1>2. /\ p \in Seq(ReviewPage) /\ q \in Seq(ReviewPage) /\ page \in ReviewPage /\ q # <<>>
    BY <1>1 DEF RInv, HistorySound, Sound, Review!Redo
  <1>3. /\ all \in Seq(ReviewPage) /\ Len(all) = Len(p) + 1 /\ all[Len(p) + 1] = page
        /\ \A j \in 1..Len(p) : all[j] = p[j]
    BY <1>1, <1>2
  <1>4. PICK u : u = Review!Newest(all, ReviewHistory)
    OBVIOUS
  <1>5. ReviewHistory \in Nat
    BY ReviewNumbers
  <1>6. /\ u \in Seq(ReviewPage) /\ Len(u) <= ReviewHistory
        /\ \A k \in DOMAIN u : u[k] = page \/ \E j \in DOMAIN p : u[k] = p[j]
    BY <1>2, <1>3, <1>4, <1>5, NewestAppended
  <1>7. PICK t : t = Tail(q)
    OBVIOUS
  <1>8. /\ t \in Seq(ReviewPage) /\ 1 \in DOMAIN q
        /\ \A k \in DOMAIN t : k + 1 \in DOMAIN q /\ t[k] = q[k + 1]
    <2>1. /\ t \in Seq(ReviewPage) /\ Len(t) = Len(q) - 1 /\ \A k \in 1..Len(t) : t[k] = q[k + 1]
      BY <1>2, <1>7, HeadTailProperties
    <2>2. Len(q) \in Nat /\ Len(q) >= 1 /\ DOMAIN q = 1..Len(q) /\ DOMAIN t = 1..Len(t)
      BY <1>2, <2>1
    <2>3. QED
      BY <2>1, <2>2
  <1>9. /\ page' = q[1] /\ pagePast' = u /\ pageFuture' = t
        /\ UNCHANGED <<preview, attempts, offer, box, flights, decided, sent, vouched>>
    BY <1>1, <1>2, <1>4, <1>7 DEF Review!Redo, Review!Beside
  <1>10. /\ Sound(page, vouched, decided) /\ \A k \in DOMAIN p : Sound(p[k], vouched, decided)
         /\ \A k \in DOMAIN q : Sound(q[k], vouched, decided)
    BY <1>1 DEF RInv, HistorySound
  <1>11. HistorySound(vouched, decided)'
    BY <1>6, <1>8, <1>9, <1>10 DEF RInv, HistorySound
  <1>12. FlightsSound(vouched, decided)'
    BY <1>9, FlightsStay DEF RInv
  <1>13. LayoutsOK' /\ Counts'
    BY <1>9 DEF RInv, LayoutsOK, Counts
  <1>14. QED
    BY <1>11, <1>12, <1>13 DEF RInv

LEMMA PeopleHold == RInv /\ Review!People => RInv'
  BY CommitCardTextHolds, CardsAndTitlesHold, SummariesTyped, MarksHold, RestoredHolds, UndoHolds,
     RedoHolds, DiscardSuggestionHolds DEF Review!People
-----------------------------------------------------------------------------
(* Calls and their answers. *)
LEMMA CallHolds ==
  ASSUME RInv, NEW kind, NEW target, NEW decision, Review!Call(kind, target, decision),
         kind = "decide" /\ decision = "adopt" => offer # {} /\ target # {} /\ target \subseteq Islands,
         kind = "layout" /\ decision = "resuggest" => attempts < AttemptLimit
  PROVE  RInv'
  <1>1. PICK g : g = [kind |-> kind, target |-> target, decision |-> decision,
                      text |-> IF kind = "check" THEN box ELSE sent + 1,
                      base |-> IF kind = "summary" THEN Review!Start(Review!Fresh) ELSE page,
                      offer |-> IF kind = "decide" THEN offer ELSE {}]
    OBVIOUS
  <1>2. /\ sent < MaxCalls /\ sent' = sent + 1 /\ flights' = flights \cup {g} /\ Review!Idle(kind)
        /\ UNCHANGED <<page, pagePast, pageFuture, preview, attempts, offer, box, decided, vouched>>
    BY <1>1 DEF Review!Call
  <1>3. /\ g.kind = kind /\ g.target = target /\ g.decision = decision
        /\ g.text = IF kind = "check" THEN box ELSE sent + 1
        /\ g.base = IF kind = "summary" THEN Review!Start(Review!Fresh) ELSE page
        /\ g.offer = IF kind = "decide" THEN offer ELSE {}
    BY <1>1
  <1>4. Counts'
    BY <1>2, ReviewNumbers DEF RInv, Counts
  <1>5. g.text \in Review!Texts /\ g.offer \subseteq Review!Texts
    BY <1>2, <1>3, ReviewNumbers DEF RInv, Counts
  <1>6. Sound(g.base, vouched, decided)
    BY <1>3, PageSound, StartSound, FreshIsSound DEF Backed
  <1>7. FlightsSound(vouched, decided)'
    <2>1. g.kind = "decide" /\ g.decision = "adopt" =>
              g.offer # {} /\ g.target # {} /\ g.target \subseteq Islands
      BY <1>3
    <2>2. QED
      BY <1>2, <1>5, <1>6, <2>1 DEF RInv, FlightsSound
  <1>8. LayoutsOK'
    BY <1>2, <1>3 DEF RInv, LayoutsOK, Review!Idle
  <1>9. HistorySound(vouched, decided)'
    BY <1>2, HistoryStays DEF RInv, HistorySound
  <1>10. QED
    BY <1>4, <1>7, <1>8, <1>9 DEF RInv

LEMMA AskHolds == RInv /\ Review!Ask => RInv'
  <1> SUFFICES ASSUME RInv, Review!Ask PROVE RInv'
    OBVIOUS
  <1>1. CASE \E mode \in {"suggest", "resuggest"} : Review!SuggestLayout(mode)
    <2>1. PICK mode \in {"suggest", "resuggest"} : Review!SuggestLayout(mode)
      BY <1>1
    <2>2. QED
      BY <2>1, CallHolds DEF Review!SuggestLayout
  <1>2. CASE \E i \in Islands : Review!SuggestIslandSummary(i)
    BY <1>2, CallHolds DEF Review!SuggestIslandSummary
  <1>3. CASE \E i \in Islands : Review!AdoptIslandSummaryProposal(i)
    <2>1. PICK i \in Islands : Review!AdoptIslandSummaryProposal(i)
      BY <1>3
    <2>2. {i} # {} /\ {i} \subseteq Islands
      OBVIOUS
    <2>3. QED
      BY <2>1, <2>2, CallHolds DEF Review!AdoptIslandSummaryProposal
  <1>4. CASE Review!GenerateRelationSummary
    BY <1>4, CallHolds DEF Review!GenerateRelationSummary
  <1>5. CASE Review!GenerateNarrative
    BY <1>5, CallHolds DEF Review!GenerateNarrative
  <1>6. CASE Review!CheckNarrativeConsistency
    BY <1>6, CallHolds DEF Review!CheckNarrativeConsistency
  <1>7. CASE Review!RejectIslandSummaryProposal
    BY <1>7, CallHolds DEF Review!RejectIslandSummaryProposal
  <1>8. CASE Review!HoldIslandSummaryProposal
    BY <1>8, CallHolds DEF Review!HoldIslandSummaryProposal
  <1>9. QED
    BY <1>1, <1>2, <1>3, <1>4, <1>5, <1>6, <1>7, <1>8 DEF Review!Ask

(* An answer leaves the other calls and what people vouched for alone. *)
LEMMA AnswerKeeps ==
  ASSUME RInv, NEW f \in flights, flights' = flights \ {f}, UNCHANGED <<vouched, sent>>,
         decided \subseteq decided', HistorySound(vouched, decided)',
         attempts' \in 0..AttemptLimit,
         attempts' <= attempts \/ f.kind = "layout", offer' \subseteq Review!Texts, box' \in Review!Texts
  PROVE  RInv'
  <1>1. FlightsSound(vouched, decided)'
    BY FlightsStay DEF RInv
  <1>2. \A g \in flights' : g \in flights /\ g # f
    OBVIOUS
  <1>3. attempts \in Nat /\ attempts' \in Nat /\ AttemptLimit \in Nat
    BY ReviewNumbers DEF RInv, Counts
  <1>4. LayoutsOK'
    <2>1. \A g, h \in flights' : g.kind = "layout" /\ h.kind = "layout" => g = h
      BY <1>2 DEF RInv, LayoutsOK
    <2>2. ASSUME NEW g \in flights', g.kind = "layout", g.decision = "resuggest"
          PROVE  attempts' < AttemptLimit
      <3>1. attempts < AttemptLimit
        BY <1>2, <2>2 DEF RInv, LayoutsOK
      <3>2. f.kind # "layout"
        BY <1>2, <2>2 DEF RInv, LayoutsOK
      <3>3. QED
        BY <1>3, <3>1, <3>2
    <2>3. QED
      BY <2>1, <2>2 DEF LayoutsOK
  <1>5. Counts'
    BY DEF RInv, Counts
  <1>6. QED
    BY <1>1, <1>4, <1>5 DEF RInv

LEMMA LayoutAnsweredHolds ==
  ASSUME RInv, NEW f \in flights, Review!LayoutAnswered(f), flights' = flights \ {f},
         UNCHANGED <<vouched, readOnly, sent>>
  PROVE  RInv'
  <1>1. PICK text \in {f.base.card.text, f.text} : preview' = {Review!Suggested(f.base.card, text)}
    BY DEF Review!LayoutAnswered
  <1>2. /\ attempts' = IF f.decision = "suggest" THEN 0 ELSE attempts
        /\ UNCHANGED <<page, pagePast, pageFuture, offer, box, decided>>
    BY DEF Review!LayoutAnswered
  <1>3. Sound(f.base, vouched, decided) /\ f.text \in Review!Texts
    BY DEF RInv, FlightsSound
  <1>4. f.base.card.text \in Review!Texts /\ f.base.card.ok \in BOOLEAN /\ Backed("card", f.base.card, vouched)
    BY <1>3, PageParts DEF Sound
  <1>5. PICK ok \in BOOLEAN : ok = IF text = f.base.card.text THEN f.base.card.ok ELSE FALSE
    BY <1>4
  <1>6. PICK x \in Review!Piece : x = [text |-> text, ok |-> ok] /\ x.text = text /\ x.ok = ok
    BY <1>1, <1>3, <1>4, PieceMade
  <1>7. preview' = {x}
    BY <1>1, <1>5, <1>6 DEF Review!Suggested
  <1>8. Backed("card", x, vouched)
    BY <1>4, <1>5, <1>6 DEF Backed
  <1>9. HistorySound(vouched, decided)'
    BY <1>2, <1>7, <1>8, HistoryStays DEF RInv
  <1>10. /\ attempts' \in 0..AttemptLimit /\ attempts' <= attempts
         /\ offer' \subseteq Review!Texts /\ box' \in Review!Texts
    BY <1>2, ReviewNumbers DEF RInv, Counts
  <1>11. QED
    BY <1>2, <1>9, <1>10, AnswerKeeps

LEMMA SummaryAnsweredHolds ==
  ASSUME RInv, NEW f \in flights, Review!SummaryAnswered(f), flights' = flights \ {f},
         UNCHANGED <<vouched, readOnly, sent>>
  PROVE  RInv'
  <1>1. /\ offer' = {f.text}
        /\ UNCHANGED <<page, pagePast, pageFuture, preview, attempts, box, decided>>
    BY DEF Review!SummaryAnswered
  <1>2. f.text \in Review!Texts
    BY DEF RInv, FlightsSound
  <1>3. HistorySound(vouched, decided)'
    BY <1>1, HistoryStays DEF RInv, HistorySound
  <1>4. /\ attempts' \in 0..AttemptLimit /\ attempts' <= attempts
        /\ offer' \subseteq Review!Texts /\ box' \in Review!Texts
    BY <1>1, <1>2, ReviewNumbers DEF RInv, Counts
  <1>5. QED
    BY <1>1, <1>3, <1>4, AnswerKeeps

LEMMA RelationAnsweredHolds ==
  ASSUME RInv, NEW f \in flights, Review!RelationAnswered(f), flights' = flights \ {f},
         UNCHANGED <<vouched, readOnly, sent>>
  PROVE  RInv'
  <1>1. PICK d : d = [f.base EXCEPT !.rel = Review!RelationWithHistory(@, f.text, FALSE)]
    OBVIOUS
  <1>2. Review!Change(d, FALSE) /\ UNCHANGED <<attempts, offer, box, decided>>
    BY <1>1 DEF Review!RelationAnswered
  <1>3. Sound(f.base, vouched, decided) /\ f.text \in Review!Texts
    BY DEF RInv, FlightsSound
  <1>4. Sound(d, vouched, decided)
    BY <1>1, <1>3, RelationSet
  <1>5. HistorySound(vouched, decided)'
    BY <1>2, <1>4, HistoryChanges DEF RInv
  <1>6. /\ attempts' \in 0..AttemptLimit /\ attempts' <= attempts
        /\ offer' \subseteq Review!Texts /\ box' \in Review!Texts
    BY <1>2, ReviewNumbers DEF RInv, Counts
  <1>7. QED
    BY <1>2, <1>5, <1>6, AnswerKeeps

LEMMA NarrativeAnsweredHolds ==
  ASSUME RInv, NEW f \in flights, Review!NarrativeAnswered(f), flights' = flights \ {f},
         UNCHANGED <<vouched, readOnly, sent>>
  PROVE  RInv'
  <1>1. PICK t : t = Append(f.base.story, f.text)
    OBVIOUS
  <1>2. /\ Review!Change([f.base EXCEPT !.story = t], FALSE) /\ box' = f.text
        /\ UNCHANGED <<attempts, offer, decided>>
    BY <1>1 DEF Review!NarrativeAnswered
  <1>3. Sound(f.base, vouched, decided) /\ f.text \in Review!Texts
    BY DEF RInv, FlightsSound
  <1>4. f.base.story \in Seq(Review!Texts)
    BY <1>3, PageParts
  <1>5. t \in Seq(Review!Texts)
    BY <1>1, <1>3, <1>4
  <1>6. Sound([f.base EXCEPT !.story = t], vouched, decided)
    BY <1>3, <1>5, FieldReplaced
  <1>7. HistorySound(vouched, decided)'
    BY <1>2, <1>6, HistoryChanges DEF RInv
  <1>8. /\ attempts' \in 0..AttemptLimit /\ attempts' <= attempts
        /\ offer' \subseteq Review!Texts /\ box' \in Review!Texts
    BY <1>2, <1>3, ReviewNumbers DEF RInv, Counts
  <1>9. QED
    BY <1>2, <1>7, <1>8, AnswerKeeps

LEMMA CheckAnsweredHolds ==
  ASSUME RInv, NEW f \in flights, Review!CheckAnswered(f), flights' = flights \ {f},
         UNCHANGED <<vouched, readOnly, sent>>
  PROVE  RInv'
  <1>1. UNCHANGED <<attempts, offer, box, decided>>
    BY DEF Review!CheckAnswered
  <1>2. Sound(f.base, vouched, decided) /\ f.text \in Review!Texts
    BY DEF RInv, FlightsSound
  <1>3. f.base \in ReviewPage /\ f.base.story \in Seq(Review!Texts)
    BY <1>2, PageParts DEF Sound
  <1>4. HistorySound(vouched, decided)'
    <2>1. CASE f.base.story = <<>>
      <3>1. UNCHANGED <<page, pagePast, pageFuture, preview>>
        BY <2>1 DEF Review!CheckAnswered
      <3>2. QED
        BY <1>1, <3>1, HistoryStays DEF RInv, HistorySound
    <2>2. CASE f.base.story # <<>>
      <3>1. PICK n \in DOMAIN f.base.story : Review!Change([f.base EXCEPT !.story[n] = f.text], FALSE)
        BY <2>2 DEF Review!CheckAnswered
      <3>2. PICK t : t = [f.base.story EXCEPT ![n] = f.text]
        OBVIOUS
      <3>3. t \in Seq(Review!Texts)
        BY <1>2, <1>3, <3>2
      <3>4. [f.base EXCEPT !.story[n] = f.text] = [f.base EXCEPT !.story = t]
        BY <3>2
      <3>5. Sound([f.base EXCEPT !.story[n] = f.text], vouched, decided)
        BY <1>2, <3>3, <3>4, FieldReplaced
      <3>6. QED
        BY <1>1, <3>1, <3>5, HistoryChanges DEF RInv
    <2>3. QED
      BY <2>1, <2>2
  <1>5. /\ attempts' \in 0..AttemptLimit /\ attempts' <= attempts
        /\ offer' \subseteq Review!Texts /\ box' \in Review!Texts
    BY <1>1, ReviewNumbers DEF RInv, Counts
  <1>6. QED
    BY <1>1, <1>4, <1>5, AnswerKeeps

(* The adopted proposal is among those whose adoption is recorded.         *)
LEMMA DecisionAnsweredHolds ==
  ASSUME RInv, NEW f \in flights, Review!DecisionAnswered(f), flights' = flights \ {f},
         UNCHANGED <<vouched, readOnly, sent>>
  PROVE  RInv'
  <1>1. /\ decided' = decided \cup {<<p, f.decision>> : p \in f.offer}
        /\ offer' \subseteq offer /\ UNCHANGED <<attempts, box>> /\ f.kind = "decide"
    BY DEF Review!DecisionAnswered
  <1>2. Sound(f.base, vouched, decided) /\ f.text \in Review!Texts /\ f.offer \subseteq Review!Texts
    BY DEF RInv, FlightsSound
  <1>3. PICK b : b = decided'
    OBVIOUS
  <1>4. Sound(f.base, vouched, b) /\ decided \subseteq b
    BY <1>1, <1>2, <1>3, SoundGrows
  <1>5. HistorySound(vouched, decided)'
    <2>1. CASE f.decision # "adopt"
      <3>1. UNCHANGED <<page, pagePast, pageFuture, preview>>
        BY <2>1 DEF Review!DecisionAnswered
      <3>2. QED
        BY <1>1, <3>1, HistoryStays DEF RInv, HistorySound
    <2>2. CASE f.decision = "adopt"
      <3>1. f.offer # {} /\ f.target # {} /\ f.target \subseteq Islands
        BY <1>1, <2>2 DEF RInv, FlightsSound
      <3>2. PICK p, i : p = (CHOOSE q \in f.offer : TRUE) /\ i = (CHOOSE j \in f.target : TRUE)
        OBVIOUS
      <3>3. p \in f.offer /\ i \in f.target
        BY <3>1, <3>2
      <3>4. p \in Review!Texts /\ i \in Islands /\ Adoption(p, b)
        BY <1>1, <1>2, <1>3, <2>2, <3>1, <3>3 DEF Adoption
      <3>5. Sound([f.base EXCEPT !.sum[i] = Review!SummaryWithHistory(@, p, FALSE, FALSE)], vouched, b)
        BY <1>4, <3>4, IslandSet
      <3>6. Review!Change([f.base EXCEPT !.sum[i] = Review!SummaryWithHistory(@, p, FALSE, FALSE)], FALSE)
        BY <2>2, <3>2 DEF Review!DecisionAnswered, Review!Adopted
      <3>7. QED
        BY <1>1, <1>3, <3>5, <3>6, HistoryChanges DEF RInv
    <2>3. QED
      BY <2>1, <2>2
  <1>6. /\ attempts' \in 0..AttemptLimit /\ attempts' <= attempts
        /\ offer' \subseteq Review!Texts /\ box' \in Review!Texts
    BY <1>1, ReviewNumbers DEF RInv, Counts
  <1>7. decided \subseteq decided'
    BY <1>1
  <1>8. QED
    BY <1>5, <1>6, <1>7, AnswerKeeps

LEMMA FailedHolds ==
  ASSUME RInv, NEW f \in flights, Review!Failed(f)
  PROVE  RInv'
  <1>1. /\ preview' \subseteq preview /\ decided \subseteq decided' /\ flights' = flights \ {f}
        /\ attempts' = IF f.kind = "layout" /\ f.decision = "resuggest" THEN attempts + 1 ELSE attempts
        /\ UNCHANGED <<page, pagePast, pageFuture, offer, box, vouched, sent>>
    BY DEF Review!Failed
  <1>2. HistorySound(vouched, decided)'
    BY <1>1, HistoryStays DEF RInv, HistorySound
  <1>3. f.kind = "layout" /\ f.decision = "resuggest" => attempts < AttemptLimit
    BY DEF RInv, LayoutsOK
  <1>4. /\ attempts' \in 0..AttemptLimit /\ (attempts' <= attempts \/ f.kind = "layout")
        /\ offer' \subseteq Review!Texts /\ box' \in Review!Texts
    BY <1>1, <1>3, ReviewNumbers DEF RInv, Counts
  <1>5. QED
    BY <1>1, <1>2, <1>4, AnswerKeeps

LEMMA ReviewStepHolds == RInv /\ [Review!Next]_(Review!reviewVars) => RInv'
  <1> SUFFICES ASSUME RInv, [Review!Next]_(Review!reviewVars) PROVE RInv'
    OBVIOUS
  <1>1. CASE Review!People
    BY <1>1, PeopleHold
  <1>2. CASE Review!Ask
    BY <1>2, AskHolds
  <1>3. CASE \E f \in flights : Review!Answered(f)
    <2>1. PICK f \in flights : Review!Answered(f)
      BY <1>3
    <2>2. QED
      BY <2>1, LayoutAnsweredHolds, SummaryAnsweredHolds, RelationAnsweredHolds, NarrativeAnsweredHolds,
         CheckAnsweredHolds, DecisionAnsweredHolds DEF Review!Answered
  <1>4. CASE \E f \in flights : Review!Failed(f)
    BY <1>4, FailedHolds
  <1>5. CASE UNCHANGED Review!reviewVars
    <2>1. UNCHANGED <<page, pagePast, pageFuture, preview, attempts, offer, box, flights, decided, vouched, sent>>
      BY <1>5 DEF Review!reviewVars
    <2>2. QED
      BY <2>1 DEF RInv, HistorySound, FlightsSound, LayoutsOK, Counts
  <1>6. QED
    BY <1>1, <1>2, <1>3, <1>4, <1>5 DEF Review!Next

(* Sound documents are what the invariants ask for.                        *)
LEMMA SoundSays ==
  ASSUME NEW d, Sound(d, vouched, decided)
  PROVE  /\ Review!TypeOfPage(d)
         /\ \A i \in Islands : Len(d.sum[i].trail) <= TrailLimit
         /\ Review!Vouched("card", d.card) /\ Review!Vouched("title", d.title)
         /\ \A i \in Islands : /\ Review!Vouched("summary", d.sum[i])
                               /\ \A e \in Review!ToSet(d.sum[i].trail) : Review!Vouched("summary", e)
         /\ Review!Vouched("relation", d.rel)
         /\ \A e \in Review!ToSet(d.rel.trail) : Review!Vouched("relation", e)
         /\ \A i \in Islands :
               d.sum[i].trail # <<>> => Review!Last(d.sum[i].trail).text = d.sum[i].text
         /\ d.rel.trail # <<>> => Review!Last(d.rel.trail) = [text |-> d.rel.text, ok |-> d.rel.ok]
         /\ \A i \in Islands : d.sum[i].text # Review!Typed => <<d.sum[i].text, "adopt">> \in decided
  <1>1. \A field, p : Backed(field, p, vouched) => Review!Vouched(field, p)
    BY DEF Backed, Review!Vouched
  <1>2. Review!TypeOfPage(d)
    BY PageParts DEF Review!TypeOfPage
  <1>3. /\ Review!Vouched("card", d.card) /\ Review!Vouched("title", d.title)
        /\ Review!Vouched("relation", d.rel)
        /\ \A e \in Review!ToSet(d.rel.trail) : Review!Vouched("relation", e)
        /\ d.rel.trail # <<>> => Review!Last(d.rel.trail) = [text |-> d.rel.text, ok |-> d.rel.ok]
    BY <1>1 DEF Sound, RelationSound, Review!ToSet, Review!Last
  <1>4. ASSUME NEW i \in Islands
        PROVE  /\ Len(d.sum[i].trail) <= TrailLimit /\ Review!Vouched("summary", d.sum[i])
               /\ \A e \in Review!ToSet(d.sum[i].trail) : Review!Vouched("summary", e)
               /\ d.sum[i].trail # <<>> => Review!Last(d.sum[i].trail).text = d.sum[i].text
               /\ d.sum[i].text # Review!Typed => <<d.sum[i].text, "adopt">> \in decided
    <2>1. IslandSound(d.sum[i], vouched, decided)
      BY DEF Sound
    <2>2. QED
      BY <1>1, <2>1 DEF IslandSound, Adoption, Review!ToSet, Review!Last
  <1>5. QED
    BY <1>2, <1>3, <1>4

LEMMA RInvSays == RInv => ReviewInvariant
  <1> SUFFICES ASSUME RInv PROVE ReviewInvariant
    OBVIOUS
  <1>1. \A d \in Review!Pages : Sound(d, vouched, decided)
    BY DEF RInv, HistorySound, Review!Pages, Review!ToSet
  <1>2. \A d \in Review!Pages : Review!TypeOfPage(d)
    BY <1>1, SoundSays
  <1>3. \A d \in Review!Pages : \A i \in Islands : Len(d.sum[i].trail) <= TrailLimit
    BY <1>1, SoundSays
  <1>4. Review!TypeOK
    BY <1>2, <1>3 DEF RInv, HistorySound, Counts, Review!TypeOK
  <1>5. Review!ReviewedIsVouched
    <2>1. \A c \in preview : Review!Vouched("card", c)
      BY DEF RInv, HistorySound, Backed, Review!Vouched
    <2>2. QED
      BY <1>1, <2>1, SoundSays DEF Review!ReviewedIsVouched
  <1>6. Review!TrailEndsInPresent
    BY Zenon, <1>1, SoundSays DEF Review!TrailEndsInPresent
  <1>7. Review!AdoptedIsDecided
    BY <1>1, SoundSays DEF Review!AdoptedIsDecided
  <1>8. QED
    BY <1>4, <1>5, <1>6, <1>7 DEF ReviewInvariant

(* What documents, their trails and the previewed suggestion show as       *)
(* reviewed was typed or marked by a person, trails end in the present     *)
(* text, and a proposed summary stands in a document only once its         *)
(* adoption is recorded: for any islands, limits, edits and calls          *)
(* (applyDocumentChange and the handlers of App.tsx).                      *)
THEOREM ReviewHolds == Review!Spec => []ReviewInvariant
  <1>1. Review!Init => RInv
    BY ReviewStarts
  <1>2. RInv /\ [Review!Next]_(Review!reviewVars) => RInv'
    BY ReviewStepHolds
  <1>3. RInv => ReviewInvariant
    BY RInvSays
  <1>4. QED
    BY <1>1, <1>2, <1>3, PTL DEF Review!Spec

-----------------------------------------------------------------------------
(* MergeSuggestions.  The inductive invariant: in every document of the    *)
(* history decisions are ordered by their numbers and representatives are  *)
(* founded on one of them, a document leads to the next one, and the audit *)
(* events are the newest numbers.                                          *)
NoRep == Suggestions!NoRep
Entry == [id : Nat, group : Groups, action : Suggestions!Actions, sel : Suggestions!Pairs,
          rep : Reps \cup {NoRep}]
Board == [cards : SUBSET Cards, held : SUBSET Cards, clash : SUBSET SUBSET Cards,
          reps : SUBSET Reps, unread : SUBSET Reps, into : [Cards -> Reps \cup {NoRep}],
          log : Seq(Entry)]
Suggestion == [group : Groups, cards : Suggestions!Pairs, blank : BOOLEAN,
               latest : SUBSET Suggestions!Actions, applied : BOOLEAN]

Ordered(log, last) ==
    \A m \in DOMAIN log :
        /\ log[m].id \in 1..last
        /\ \A n \in DOMAIN log : m < n => log[m].id < log[n].id

Founded(d) ==
    \A r \in d.reps : \E n \in DOMAIN d.log :
        /\ d.log[n].rep = r /\ d.log[n].action \in {"accept", "partial"}
        /\ Suggestions!Sources(d, r) = d.log[n].sel
        /\ \A m \in DOMAIN d.log : d.log[m].rep = r => m = n

GoodBoard(d, last, reps) ==
    /\ d \in Board /\ d.held \subseteq d.cards /\ d.unread \subseteq d.reps /\ d.reps \subseteq reps
    /\ \A c \in Cards : d.into[c] \in d.reps \cup {NoRep}
    /\ \A n \in DOMAIN d.log : d.log[n].rep \in d.reps \cup {NoRep}
    /\ Ordered(d.log, last) /\ Founded(d)

(* A document that follows another one in the history.                     *)
Leads(d, e) ==
    /\ d.reps \subseteq e.reps
    /\ \A r \in e.reps \ d.reps : \A n \in DOMAIN e.log :
           e.log[n].rep = r /\ Len(e.log) = Len(d.log) =>
               \A k \in (n + 1)..Len(e.log) : e.log[k].group # e.log[n].group

BoardsGood(last, reps) ==
    /\ GoodBoard(board, last, reps)
    /\ boardPast \in Seq(Board) /\ \A k \in DOMAIN boardPast : GoodBoard(boardPast[k], last, reps)
    /\ boardFuture \in Seq(Board) /\ \A k \in DOMAIN boardFuture : GoodBoard(boardFuture[k], last, reps)

PastLeads ==
    \A k \in DOMAIN boardPast :
        Leads(boardPast[k], IF k = Len(boardPast) THEN board ELSE boardPast[k + 1])

FutureLeads ==
    \A k \in DOMAIN boardFuture :
        Leads(IF k = 1 THEN board ELSE boardFuture[k - 1], boardFuture[k])

PanelOK ==
    /\ panel \subseteq Suggestion /\ \A s, t \in panel : s.group = t.group => s = t
    /\ \A d \in asked : d \in Board

EventsOK ==
    /\ decisions \in Nat /\ events \in Seq(Nat)
    /\ Len(events) = IF decisions > EventLimit THEN EventLimit ELSE decisions
    /\ \A k \in 1..Len(events) : events[k] = decisions - Len(events) + k

MInv == /\ BoardsGood(decisions, made) /\ PastLeads /\ FutureLeads
        /\ PanelOK /\ EventsOK

LEMMA PairsHaveCards == \A S \in Suggestions!Pairs : S \subseteq Cards /\ S # {}
  <1>1. Suggestions!Cardinality({}) = 0
    <2>1. Suggestions!Cardinality({}) = Cardinality({})
      BY DEF Suggestions!Cardinality, Cardinality, Suggestions!IsFiniteSet, IsFiniteSet
    <2>2. QED
      BY <2>1, FS_EmptySet
  <1>2. SUFFICES ASSUME NEW S \in Suggestions!Pairs PROVE S \subseteq Cards /\ S # {}
    OBVIOUS
  <1>3. S \subseteq Cards /\ Suggestions!Cardinality(S) > 1
    BY <1>2 DEF Suggestions!Pairs
  <1>4. QED
    BY <1>1, <1>3

LEMMA GoodBoardGrows ==
  ASSUME NEW last \in Nat, NEW reps, NEW next \in Nat, NEW more, last <= next, reps \subseteq more,
         NEW d, GoodBoard(d, last, reps)
  PROVE  GoodBoard(d, next, more)
  <1>1. Ordered(d.log, next)
    BY DEF GoodBoard, Ordered
  <1>2. QED
    BY <1>1 DEF GoodBoard

(* Cards, holds, contradictions and marks change nothing about merges.     *)
LEMMA MergesUntouched ==
  ASSUME NEW last, NEW reps, NEW d, GoodBoard(d, last, reps), NEW e \in Board,
         e.reps = d.reps, e.into = d.into, e.log = d.log, e.held \subseteq e.cards, e.unread \subseteq e.reps
  PROVE  GoodBoard(e, last, reps) /\ Leads(d, e)
  <1>1. Founded(e)
    <2>1. \A r : Suggestions!Sources(e, r) = Suggestions!Sources(d, r)
      BY DEF Suggestions!Sources
    <2>2. QED
      BY <2>1 DEF GoodBoard, Founded
  <1>2. QED
    BY <1>1 DEF GoodBoard, Leads

LEMMA DecisionAppended ==
  ASSUME NEW last \in Nat, NEW reps, NEW d, GoodBoard(d, last, reps), NEW x \in Entry,
         x.id = last + 1, x.rep = NoRep, NEW e \in Board, NEW more \in Seq(Entry),
         Len(more) = Len(d.log) + 1, more[Len(d.log) + 1] = x,
         \A j \in 1..Len(d.log) : more[j] = d.log[j], e.log = more, e.reps = d.reps, e.into = d.into, e.held = d.held, e.cards = d.cards,
         e.unread = d.unread
  PROVE  GoodBoard(e, last + 1, reps) /\ Leads(d, e)
  <1>0. PICK log, n : log = d.log /\ n = Len(log)
    OBVIOUS
  <1>1. d \in Board /\ log \in Seq(Entry) /\ n \in Nat /\ DOMAIN log = 1..n
    BY <1>0 DEF GoodBoard, Board
  <1>3. /\ more \in Seq(Entry) /\ DOMAIN more = 1..(n + 1) /\ more[n + 1] = x
        /\ \A k \in 1..n : more[k] = log[k]
    BY <1>0, <1>1
  <1>4. /\ e \in Board /\ e.log = more /\ e.reps = d.reps /\ e.into = d.into /\ e.held = d.held
        /\ e.cards = d.cards /\ e.unread = d.unread
    OBVIOUS
  <1>5. Ordered(more, last + 1)
    <2>1. \A k \in 1..n : log[k].id \in 1..last
      BY <1>0, <1>1 DEF GoodBoard, Ordered
    <2>2. \A k \in 1..(n + 1) : k = n + 1 \/ k \in 1..n
      BY <1>1
    <2>3. \A k, m \in 1..n : k < m => log[k].id < log[m].id
      BY <1>0, <1>1 DEF GoodBoard, Ordered
    <2>4. ASSUME NEW k \in 1..(n + 1) PROVE more[k].id \in 1..(last + 1)
      BY <1>3, <2>1, <2>2
    <2>5. ASSUME NEW k \in 1..(n + 1), NEW m \in 1..(n + 1), k < m PROVE more[k].id < more[m].id
      <3>1. k \in 1..n
        BY <1>1, <2>5
      <3>2. CASE m = n + 1
        <4>1. more[k].id \in 1..last /\ more[m].id = last + 1
          BY <1>3, <2>1, <3>1, <3>2
        <4>2. QED
          BY <4>1
      <3>3. CASE m \in 1..n
        BY <1>3, <2>3, <2>5, <3>1, <3>3
      <3>4. QED
        BY <2>2, <3>2, <3>3
    <2>6. QED
      BY <1>3, <2>4, <2>5 DEF Ordered
  <1>6. NoRep \notin d.reps
    BY <1>1, SuggestionsAssumption DEF Board, NoRep
  <1>6a. \A k \in 1..(n + 1) : k = n + 1 \/ k \in 1..n
    BY <1>1
  <1>7. Founded(e)
    <2>1. ASSUME NEW r \in d.reps
          PROVE  \E k \in DOMAIN more : /\ more[k].rep = r /\ more[k].action \in {"accept", "partial"}
                                        /\ Suggestions!Sources(e, r) = more[k].sel
                                        /\ \A m \in DOMAIN more : more[m].rep = r => m = k
      <3>0. PICK k \in DOMAIN d.log : /\ d.log[k].rep = r /\ d.log[k].action \in {"accept", "partial"}
                                     /\ Suggestions!Sources(d, r) = d.log[k].sel
                                     /\ \A m \in DOMAIN d.log : d.log[m].rep = r => m = k
        BY DEF GoodBoard, Founded
      <3>1. /\ k \in 1..n /\ log[k].rep = r /\ log[k].action \in {"accept", "partial"}
            /\ Suggestions!Sources(d, r) = log[k].sel
            /\ \A m \in 1..n : log[m].rep = r => m = k
        BY <1>0, <1>1, <3>0
      <3>2. Suggestions!Sources(e, r) = Suggestions!Sources(d, r)
        BY <1>4 DEF Suggestions!Sources
      <3>3. \A m \in 1..(n + 1) : more[m].rep = r => m = k
        BY <1>3, <1>6, <1>6a, <3>1
      <3>4. k \in 1..(n + 1)
        BY <1>1, <3>1
      <3>5. QED
        BY <1>3, <3>1, <3>2, <3>3, <3>4
    <2>2. QED
      BY <1>4, <2>1 DEF Founded
  <1>8. \A k \in DOMAIN more : more[k].rep \in d.reps \cup {NoRep}
    <2>1. \A m \in 1..(n + 1) : m = n + 1 \/ m \in 1..n
      BY <1>1
    <2>2. \A k \in 1..n : log[k].rep \in d.reps \cup {NoRep}
      BY <1>0, <1>1 DEF GoodBoard
    <2>3. QED
      BY <1>3, <2>1, <2>2
  <1>9. QED
    BY <1>4, <1>5, <1>7, <1>8 DEF GoodBoard, Leads

(* Applying the newest decision of a group with a new representative.      *)
LEMMA DecisionApplied ==
  ASSUME NEW last \in Nat, NEW reps, NEW d, GoodBoard(d, last, reps), NEW g, NEW r \in Reps \ reps,
         NEW x \in Suggestions!LatestByGroup(d.log, g), Suggestions!Accepted(x),
         Suggestions!Mergeable(d, x.sel), NEW e, e = Suggestions!Merged(d, x, r)
  PROVE  GoodBoard(e, last, reps \cup {r}) /\ Leads(d, e)
  <1>0. PICK log : log = d.log
    OBVIOUS
  <1>1. d \in Board /\ log \in Seq(Entry) /\ Len(log) \in Nat /\ DOMAIN log = 1..Len(log)
    BY <1>0 DEF GoodBoard, Board
  <1>2. PICK n \in DOMAIN log : /\ x = log[n] /\ log[n].group = g
                                /\ \A k \in DOMAIN log : log[k].group = g => k <= n
    BY <1>0 DEF Suggestions!LatestByGroup
  <1>3. x \in Entry /\ x.sel \in Suggestions!Pairs /\ x.sel \subseteq Cards /\ x.sel # {}
    <2>1. x \in Entry
      BY <1>1, <1>2
    <2>2. x.sel \in Suggestions!Pairs
      BY <2>1 DEF Entry
    <2>3. QED
      BY <2>1, <2>2, PairsHaveCards
  <1>4. PICK new : new = [k \in DOMAIN log |-> IF log[k].id = x.id THEN [log[k] EXCEPT !.rep = r] ELSE log[k]]
    OBVIOUS
  <1>5. PICK into : into = [c \in Cards |-> IF c \in x.sel THEN r ELSE d.into[c]]
    OBVIOUS
  <1>6. \A k \in DOMAIN log : log[k].id = x.id => k = n
    <2>1. \A k, m \in DOMAIN log : k < m => log[k].id < log[m].id
      BY <1>0 DEF GoodBoard, Ordered
    <2>2. \A k \in DOMAIN log : log[k].id \in Nat
      <3>1. \A k \in DOMAIN log : log[k] \in Entry
        BY <1>1
      <3>2. QED
        BY <3>1 DEF Entry
    <2>3. SUFFICES ASSUME NEW k \in DOMAIN log, log[k].id = log[n].id, k # n PROVE FALSE
      BY <1>2
    <2>4. k < n \/ n < k
      BY <1>1, <2>3
    <2>5. QED
      BY <1>2, <2>1, <2>2, <2>3, <2>4
  <1>7. PICK y : y = [x EXCEPT !.rep = r]
    OBVIOUS
  <1>8. /\ y \in Entry /\ y.rep = r /\ y.id = x.id /\ y.group = x.group /\ y.action = x.action /\ y.sel = x.sel
    BY <1>3, <1>7 DEF Entry
  <1>9. /\ DOMAIN new = DOMAIN log /\ new[n] = y
        /\ \A k \in DOMAIN log : k # n => new[k] = log[k]
    BY <1>2, <1>4, <1>6, <1>7
  <1>10. new \in Seq(Entry) /\ Len(new) = Len(log)
    <2>1. \A k \in 1..Len(log) : new[k] \in Entry
      BY <1>1, <1>8, <1>9
    <2>2. new = [k \in 1..Len(log) |-> new[k]]
      BY <1>1, <1>4
    <2>3. QED
      BY <1>1, <2>1, <2>2
  <1>11. PICK f : f = [d EXCEPT !.reps = @ \cup {r}, !.unread = @ \cup {r}, !.into = into, !.log = new]
    OBVIOUS
  <1>12. e = f
    BY <1>0, <1>4, <1>5, <1>11 DEF Suggestions!Merged
  <1>13. /\ d.reps \subseteq Reps /\ d.unread \subseteq Reps /\ d.into \in [Cards -> Reps \cup {NoRep}]
    BY <1>1 DEF Board
  <1>14. into \in [Cards -> Reps \cup {NoRep}]
    BY <1>5, <1>13
  <1>15. /\ e \in Board /\ e.reps = d.reps \cup {r} /\ e.unread = d.unread \cup {r} /\ e.into = into
         /\ e.log = new /\ e.cards = d.cards /\ e.held = d.held
    <2>1. d.reps \cup {r} \in SUBSET Reps /\ d.unread \cup {r} \in SUBSET Reps
      BY <1>13
    <2>2. QED
      BY <1>1, <1>10, <1>11, <1>12, <1>14, <2>1 DEF Board
  <1>16. r \notin d.reps /\ r # NoRep
    BY SuggestionsAssumption DEF GoodBoard, NoRep
  <1>17. x.rep = NoRep
    <2>1. SUFFICES ASSUME x.rep # NoRep PROVE FALSE
      OBVIOUS
    <2>2. x.rep \in d.reps
      BY <1>0, <1>2, <2>1 DEF GoodBoard
    <2>3. PICK k \in DOMAIN log : /\ Suggestions!Sources(d, x.rep) = log[k].sel
                                  /\ \A m \in DOMAIN log : log[m].rep = x.rep => m = k
      BY <1>0, <2>2 DEF GoodBoard, Founded
    <2>4. Suggestions!Sources(d, x.rep) = x.sel
      BY <1>2, <2>3
    <2>5. x.sel # {}
      BY <1>3
    <2>6. PICK c : c \in x.sel
      BY <2>5
    <2>7. d.into[c] = x.rep
      BY <2>4, <2>6 DEF Suggestions!Sources
    <2>8. d.into[c] = NoRep
      BY <2>6 DEF Suggestions!Mergeable, NoRep
    <2>9. QED
      BY <2>1, <2>7, <2>8
  <1>18. \A c \in Cards : /\ c \in x.sel => into[c] = r /\ d.into[c] = NoRep
                          /\ c \notin x.sel => into[c] = d.into[c]
                          /\ d.into[c] \in d.reps \cup {NoRep}
    BY <1>5 DEF Suggestions!Mergeable, NoRep, GoodBoard
  <1>19. Ordered(new, last)
    <2>1. \A k \in DOMAIN log : new[k].id = log[k].id
      BY <1>2, <1>8, <1>9
    <2>2. QED
      BY <1>0, <1>9, <2>1 DEF GoodBoard, Ordered
  <1>20. \A k \in DOMAIN log : log[k].rep \in d.reps \cup {NoRep}
    BY <1>0 DEF GoodBoard
  <1>21. \A q \in d.reps : Suggestions!Sources(e, q) = Suggestions!Sources(d, q)
    <2>1. NoRep \notin d.reps
      BY <1>13, SuggestionsAssumption DEF NoRep
    <2>2. ASSUME NEW q \in d.reps, NEW c \in Cards PROVE into[c] = q <=> d.into[c] = q
      BY <1>16, <1>18, <2>1
    <2>3. QED
      BY <1>15, <2>2 DEF Suggestions!Sources
  <1>22. Suggestions!Sources(e, r) = x.sel
    <2>1. \A c \in Cards : into[c] = r <=> c \in x.sel
      BY <1>16, <1>18
    <2>2. QED
      BY <1>3, <1>15, <2>1 DEF Suggestions!Sources
  <1>23. Founded(e)
    <2>1. ASSUME NEW q \in d.reps
          PROVE  \E k \in DOMAIN new : /\ new[k].rep = q /\ new[k].action \in {"accept", "partial"}
                                       /\ Suggestions!Sources(e, q) = new[k].sel
                                       /\ \A m \in DOMAIN new : new[m].rep = q => m = k
      <3>1. PICK k \in DOMAIN log : /\ log[k].rep = q /\ log[k].action \in {"accept", "partial"}
                                    /\ Suggestions!Sources(d, q) = log[k].sel
                                    /\ \A m \in DOMAIN log : log[m].rep = q => m = k
        BY <1>0 DEF GoodBoard, Founded
      <3>2. q # NoRep /\ q # r
        BY <1>13, <1>16, SuggestionsAssumption DEF NoRep
      <3>3. k # n
        BY <1>2, <1>17, <3>1, <3>2
      <3>4. \A m \in DOMAIN new : new[m].rep = q => m = k
        BY <1>8, <1>9, <3>1, <3>2
      <3>5. QED
        BY <1>9, <1>21, <3>1, <3>3, <3>4
    <2>2. /\ new[n].rep = r /\ new[n].action \in {"accept", "partial"}
          /\ Suggestions!Sources(e, r) = new[n].sel
          /\ \A m \in DOMAIN new : new[m].rep = r => m = n
      BY <1>8, <1>9, <1>16, <1>20, <1>22 DEF Suggestions!Accepted
    <2>3. \A q \in e.reps : q \in d.reps \/ q = r
      BY <1>15
    <2>4. n \in DOMAIN new
      BY <1>2, <1>9
    <2>5. QED
      BY <1>15, <2>1, <2>2, <2>3, <2>4 DEF Founded
  <1>24. Leads(d, e)
    <2>1. SUFFICES ASSUME NEW k \in DOMAIN new, new[k].rep = r, NEW m \in (k + 1)..Len(new)
                   PROVE  new[m].group # new[k].group
      BY <1>15 DEF Leads
    <2>2. k = n
      BY <1>8, <1>9, <1>16, <1>20, <2>1
    <2>3. m \in DOMAIN log /\ ~ (m <= n) /\ m # n
      BY <1>1, <1>2, <1>10, <2>1, <2>2
    <2>4. log[m].group # g
      BY <1>2, <2>3
    <2>5. QED
      BY <1>2, <1>8, <1>9, <2>2, <2>3, <2>4
  <1>25. \A k \in DOMAIN new : new[k].rep \in e.reps \cup {NoRep}
    BY <1>8, <1>9, <1>15, <1>20
  <1>26. \A c \in Cards : into[c] \in e.reps \cup {NoRep}
    BY <1>15, <1>18
  <1>27. QED
    <2>1. e.held \subseteq e.cards /\ e.unread \subseteq e.reps /\ e.reps \subseteq reps \cup {r}
      BY <1>15 DEF GoodBoard
    <2>2. QED
      BY <1>15, <1>19, <1>23, <1>24, <1>25, <1>26, <2>1 DEF GoodBoard

-----------------------------------------------------------------------------
(* The steps of a document: it stays, or one leads to the other.           *)
Stepped == board' = board \/ Leads(board, board') \/ Leads(board', board)

LEMMA PushHolds ==
  ASSUME MInv, NEW d, Suggestions!Push(d), GoodBoard(d, decisions', made'), Leads(board, d),
         decisions' \in Nat, decisions <= decisions', made \subseteq made', PanelOK', EventsOK'
  PROVE  MInv' /\ Stepped
  <1>1. PICK p, n, last, reps : p = boardPast /\ n = Len(p) /\ last = decisions' /\ reps = made'
    OBVIOUS
  <1>2. board \in Board /\ p \in Seq(Board) /\ n \in Nat /\ DOMAIN p = 1..n
    BY <1>1 DEF MInv, BoardsGood, GoodBoard
  <1>3. PICK q : q = Append(p, board)
    OBVIOUS
  <1>4. /\ q \in Seq(Board) /\ Len(q) = n + 1 /\ DOMAIN q = 1..(n + 1) /\ q[n + 1] = board
        /\ \A k \in 1..n : q[k] = p[k]
    BY <1>1, <1>2, <1>3
  <1>5. board' = d /\ boardPast' = q /\ boardFuture' = <<>>
    BY <1>1, <1>3 DEF Suggestions!Push
  <1>6. \A k \in 1..(n + 1) : k = n + 1 \/ k \in 1..n
    BY <1>2
  <1>7. \A e : GoodBoard(e, decisions, made) => GoodBoard(e, last, reps)
    <2>1. decisions \in Nat
      BY DEF MInv, EventsOK
    <2>2. QED
      BY <1>1, <2>1, GoodBoardGrows
  <1>8. \A k \in 1..(n + 1) : GoodBoard(q[k], last, reps)
    <2>1. GoodBoard(board, decisions, made) /\ \A k \in 1..n : GoodBoard(p[k], decisions, made)
      BY <1>1, <1>2 DEF MInv, BoardsGood
    <2>2. QED
      BY <1>4, <1>6, <1>7, <2>1
  <1>9. BoardsGood(decisions, made)'
    BY <1>1, <1>4, <1>5, <1>8 DEF BoardsGood
  <1>10. PastLeads'
    <2>1. ASSUME NEW k \in 1..(n + 1) PROVE Leads(q[k], IF k = n + 1 THEN d ELSE q[k + 1])
      <3>1. CASE k = n + 1
        BY <1>4, <3>1
      <3>2. CASE k \in 1..n
        <4>1. Leads(p[k], IF k = n THEN board ELSE p[k + 1])
          BY <1>1, <1>2, <3>2 DEF MInv, PastLeads
        <4>2. q[k + 1] = IF k = n THEN board ELSE p[k + 1]
          <5>1. k = n \/ k + 1 \in 1..n
            BY <1>2, <3>2
          <5>2. QED
            BY <1>2, <1>4, <3>2, <5>1
        <4>3. k # n + 1
          BY <1>2, <3>2
        <4>4. QED
          BY <1>4, <3>2, <4>1, <4>2, <4>3
      <3>3. QED
        BY <1>6, <3>1, <3>2
    <2>2. QED
      BY <1>4, <1>5, <2>1 DEF PastLeads
  <1>11. FutureLeads'
    BY <1>5 DEF FutureLeads
  <1>12. QED
    BY <1>5, <1>9, <1>10, <1>11 DEF MInv, Stepped

LEMMA ForgottenPanel ==
  ASSUME PanelOK, panel' = {}, UNCHANGED asked PROVE PanelOK'
  BY DEF PanelOK

LEMMA EventsStay ==
  ASSUME EventsOK, UNCHANGED <<events, decisions>> PROVE EventsOK'
  BY DEF EventsOK

LEMMA EditKeepsMerges ==
  ASSUME MInv, NEW e \in Board, Suggestions!Edit(e), e.reps = board.reps, e.into = board.into,
         e.log = board.log, e.held \subseteq e.cards, e.unread \subseteq e.reps
  PROVE  MInv' /\ Stepped
  <1>1. /\ Suggestions!Push(e) /\ panel' = {} /\ UNCHANGED <<asked, events, decisions, made, requests>>
    BY DEF Suggestions!Edit
  <1>2. GoodBoard(e, decisions, made) /\ Leads(board, e)
    BY MergesUntouched DEF MInv, BoardsGood
  <1>3. PanelOK' /\ EventsOK'
    BY <1>1, ForgottenPanel, EventsStay DEF MInv
  <1>4. decisions \in Nat /\ decisions' = decisions /\ made' = made
    BY <1>1 DEF MInv, EventsOK
  <1>5. QED
    BY <1>1, <1>2, <1>3, <1>4, PushHolds

LEMMA EditsHold ==
  ASSUME MInv, \/ \E c \in Cards : Suggestions!DeleteCard(c) \/ Suggestions!HoldCard(c)
               \/ \E S \in Suggestions!Pairs : Suggestions!Contradict(S)
               \/ \E r \in Reps : Suggestions!ReviewRepresentative(r)
  PROVE  MInv' /\ Stepped
  <1>1. /\ board \in Board /\ board.held \subseteq board.cards /\ board.unread \subseteq board.reps
    BY DEF MInv, BoardsGood, GoodBoard
  <1>2. /\ board.cards \subseteq Cards /\ board.held \subseteq Cards /\ board.unread \subseteq Reps
        /\ board.clash \subseteq SUBSET Cards
    BY <1>1 DEF Board
  <1>3. CASE \E c \in Cards : Suggestions!DeleteCard(c)
    <2>1. PICK c \in Cards : Suggestions!DeleteCard(c)
      BY <1>3
    <2>2. PICK e : e = [board EXCEPT !.cards = @ \ {c}, !.held = @ \ {c}]
      OBVIOUS
    <2>3. /\ e \in Board /\ e.reps = board.reps /\ e.into = board.into /\ e.log = board.log
          /\ e.cards = board.cards \ {c} /\ e.held = board.held \ {c} /\ e.unread = board.unread
      BY <1>1, <2>2 DEF Board
    <2>4. Suggestions!Edit(e)
      BY <2>1, <2>2 DEF Suggestions!DeleteCard
    <2>5. e.held \subseteq e.cards /\ e.unread \subseteq e.reps
      BY <1>1, <2>3
    <2>6. QED
      BY <2>3, <2>4, <2>5, EditKeepsMerges
  <1>4. CASE \E c \in Cards : Suggestions!HoldCard(c)
    <2>1. PICK c \in Cards : Suggestions!HoldCard(c)
      BY <1>4
    <2>2. PICK e : e = [board EXCEPT !.held = @ \cup {c}]
      OBVIOUS
    <2>3. /\ e \in Board /\ e.reps = board.reps /\ e.into = board.into /\ e.log = board.log
          /\ e.cards = board.cards /\ e.held = board.held \cup {c} /\ e.unread = board.unread
      BY <1>1, <2>2 DEF Board
    <2>4. Suggestions!Edit(e) /\ c \in board.cards
      BY <2>1, <2>2 DEF Suggestions!HoldCard
    <2>5. e.held \subseteq e.cards /\ e.unread \subseteq e.reps
      BY <1>1, <2>3, <2>4
    <2>6. QED
      BY <2>3, <2>4, <2>5, EditKeepsMerges
  <1>5. CASE \E S \in Suggestions!Pairs : Suggestions!Contradict(S)
    <2>1. PICK S \in Suggestions!Pairs : Suggestions!Contradict(S)
      BY <1>5
    <2>2. PICK e : e = [board EXCEPT !.clash = @ \cup {S}]
      OBVIOUS
    <2>0. S \subseteq Cards
      BY PairsHaveCards
    <2>3. /\ e \in Board /\ e.reps = board.reps /\ e.into = board.into /\ e.log = board.log
          /\ e.cards = board.cards /\ e.held = board.held /\ e.unread = board.unread
      BY <1>1, <2>0, <2>2 DEF Board
    <2>4. Suggestions!Edit(e)
      BY <2>1, <2>2 DEF Suggestions!Contradict
    <2>5. e.held \subseteq e.cards /\ e.unread \subseteq e.reps
      BY <1>1, <2>3
    <2>6. QED
      BY <2>3, <2>4, <2>5, EditKeepsMerges
  <1>6. CASE \E r \in Reps : Suggestions!ReviewRepresentative(r)
    <2>1. PICK r \in Reps : Suggestions!ReviewRepresentative(r)
      BY <1>6
    <2>2. PICK e : e = [board EXCEPT !.unread = @ \ {r}]
      OBVIOUS
    <2>3. /\ e \in Board /\ e.reps = board.reps /\ e.into = board.into /\ e.log = board.log
          /\ e.cards = board.cards /\ e.held = board.held /\ e.unread = board.unread \ {r}
      BY <1>1, <2>2 DEF Board
    <2>4. Suggestions!Edit(e)
      BY <2>1, <2>2 DEF Suggestions!ReviewRepresentative
    <2>5. e.held \subseteq e.cards /\ e.unread \subseteq e.reps
      BY <1>1, <2>3
    <2>6. QED
      BY <2>3, <2>4, <2>5, EditKeepsMerges
  <1>7. QED
    BY <1>3, <1>4, <1>5, <1>6

(* Undo and redo move along the same line of documents.                    *)
LEMMA UndoLeads == MInv /\ Suggestions!Undo => MInv' /\ Stepped
  <1> SUFFICES ASSUME MInv, Suggestions!Undo PROVE MInv' /\ Stepped
    OBVIOUS
  <1>1. PICK p, q, n, f : p = boardPast /\ q = boardFuture /\ n = Len(p) /\ f = <<board>> \o q
    OBVIOUS
  <1>2. /\ p \in Seq(Board) /\ q \in Seq(Board) /\ board \in Board /\ p # <<>>
    BY <1>1 DEF MInv, BoardsGood, GoodBoard, Suggestions!Undo
  <1>3. n \in Nat /\ n >= 1 /\ DOMAIN p = 1..n /\ n \in 1..n
    BY <1>1, <1>2
  <1>4. PICK u : u = SubSeq(p, 1, n - 1)
    OBVIOUS
  <1>5. u \in Seq(Board) /\ Len(u) = n - 1 /\ DOMAIN u = 1..(n - 1) /\ \A k \in 1..(n - 1) : u[k] = p[k]
    BY <1>2, <1>3, <1>4
  <1>6. /\ board' = p[n] /\ boardPast' = u /\ boardFuture' = f
        /\ UNCHANGED <<panel, asked, events, decisions, made, requests, changes>>
    BY <1>1, <1>4 DEF Suggestions!Undo, Suggestions!Beside, Suggestions!Last, Suggestions!Front
  <1>7. /\ f \in Seq(Board) /\ Len(f) = Len(q) + 1 /\ f[1] = board /\ DOMAIN f = 1..(Len(q) + 1)
        /\ \A k \in 2..(Len(q) + 1) : f[k] = q[k - 1]
    BY <1>1, <1>2
  <1>8. /\ GoodBoard(board, decisions, made) /\ \A k \in 1..n : GoodBoard(p[k], decisions, made)
        /\ \A k \in DOMAIN q : GoodBoard(q[k], decisions, made)
    BY <1>1, <1>3 DEF MInv, BoardsGood
  <1>9. \A k \in 1..(Len(q) + 1) : k = 1 \/ (k \in 2..(Len(q) + 1) /\ k - 1 \in 1..Len(q))
    BY <1>2
  <1>10. \A k \in DOMAIN f : GoodBoard(f[k], decisions, made)
    <2>1. DOMAIN q = 1..Len(q)
      BY <1>2
    <2>2. ASSUME NEW k \in 1..(Len(q) + 1) PROVE GoodBoard(f[k], decisions, made)
      <3>1. CASE k = 1
        BY <1>7, <1>8, <3>1
      <3>2. CASE k \in 2..(Len(q) + 1) /\ k - 1 \in 1..Len(q)
        BY <1>7, <1>8, <2>1, <3>2
      <3>3. QED
        BY <1>9, <3>1, <3>2
    <2>3. QED
      BY <1>7, <2>2
  <1>11. \A k \in 1..(n - 1) : k \in 1..n /\ k # n
    BY <1>3
  <1>12. BoardsGood(decisions, made)'
    BY <1>3, <1>5, <1>6, <1>7, <1>8, <1>10, <1>11 DEF BoardsGood
  <1>13. \A k \in 1..n : Leads(p[k], IF k = n THEN board ELSE p[k + 1])
    BY <1>1, <1>3 DEF MInv, PastLeads
  <1>14. Leads(p[n], board)
    BY <1>3, <1>13
  <1>15. PastLeads'
    <2>1. ASSUME NEW k \in 1..(n - 1) PROVE Leads(u[k], IF k = n - 1 THEN p[n] ELSE u[k + 1])
      <3>1. Leads(p[k], p[k + 1])
        BY <1>11, <1>13
      <3>2. k = n - 1 \/ k + 1 \in 1..(n - 1)
        BY <1>3
      <3>3. k = n - 1 => p[k + 1] = p[n]
        BY <1>3
      <3>4. QED
        BY <1>5, <3>1, <3>2, <3>3
    <2>2. QED
      BY <1>5, <1>6, <2>1 DEF PastLeads
  <1>16. FutureLeads'
    <2>1. \A k \in 1..Len(q) : Leads(IF k = 1 THEN board ELSE q[k - 1], q[k])
      <3>1. DOMAIN q = 1..Len(q)
        BY <1>2
      <3>2. QED
        BY <1>1, <3>1 DEF MInv, FutureLeads
    <2>2. ASSUME NEW k \in 1..(Len(q) + 1) PROVE Leads(IF k = 1 THEN p[n] ELSE f[k - 1], f[k])
      <3>1. CASE k = 1
        BY <1>7, <1>14, <3>1
      <3>2. CASE k # 1
        <4>1. PICK j \in 1..Len(q) : j = k - 1 /\ k \in 2..(Len(q) + 1)
          BY <1>9, <3>2
        <4>2. Leads(IF j = 1 THEN board ELSE q[j - 1], q[j])
          BY <2>1
        <4>3. f[k] = q[j]
          BY <1>7, <4>1
        <4>4. f[j] = IF j = 1 THEN board ELSE q[j - 1]
          <5>1. j = 1 \/ j \in 2..(Len(q) + 1)
            BY <1>2
          <5>2. QED
            BY <1>7, <5>1
        <4>5. QED
          BY <3>2, <4>1, <4>2, <4>3, <4>4
      <3>3. QED
        BY <3>1, <3>2
    <2>3. QED
      BY <1>6, <1>7, <2>2 DEF FutureLeads
  <1>17. PanelOK' /\ EventsOK'
    BY <1>6 DEF MInv, PanelOK, EventsOK
  <1>18. QED
    BY <1>6, <1>12, <1>14, <1>15, <1>16, <1>17 DEF MInv, Stepped

LEMMA RedoLeads == MInv /\ Suggestions!Redo => MInv' /\ Stepped
  <1> SUFFICES ASSUME MInv, Suggestions!Redo PROVE MInv' /\ Stepped
    OBVIOUS
  <1>1. PICK p, q, n, u, t : p = boardPast /\ q = boardFuture /\ n = Len(p) /\ u = Append(p, board) /\ t = Tail(q)
    OBVIOUS
  <1>2. /\ p \in Seq(Board) /\ q \in Seq(Board) /\ board \in Board /\ q # <<>>
    BY <1>1 DEF MInv, BoardsGood, GoodBoard, Suggestions!Redo
  <1>3. n \in Nat /\ DOMAIN p = 1..n
    BY <1>1, <1>2
  <1>4. /\ u \in Seq(Board) /\ Len(u) = n + 1 /\ DOMAIN u = 1..(n + 1) /\ u[n + 1] = board
        /\ \A k \in 1..n : u[k] = p[k]
    BY <1>1, <1>2, <1>3
  <1>5. /\ t \in Seq(Board) /\ Len(t) = Len(q) - 1 /\ DOMAIN t = 1..Len(t) /\ Len(q) >= 1
        /\ DOMAIN q = 1..Len(q) /\ \A k \in 1..Len(t) : t[k] = q[k + 1]
    <2>1. /\ t \in Seq(Board) /\ Len(t) = Len(q) - 1 /\ \A k \in 1..Len(t) : t[k] = q[k + 1]
      BY <1>1, <1>2, HeadTailProperties
    <2>2. QED
      BY <1>2, <2>1
  <1>6. /\ board' = q[1] /\ boardPast' = u /\ boardFuture' = t
        /\ UNCHANGED <<panel, asked, events, decisions, made, requests, changes>>
    BY <1>1, <1>2 DEF Suggestions!Redo, Suggestions!Beside
  <1>7. /\ GoodBoard(board, decisions, made) /\ \A k \in 1..n : GoodBoard(p[k], decisions, made)
        /\ \A k \in DOMAIN q : GoodBoard(q[k], decisions, made)
    BY <1>1, <1>3 DEF MInv, BoardsGood
  <1>8. \A k \in 1..(n + 1) : k = n + 1 \/ k \in 1..n
    BY <1>3
  <1>9. \A k \in 1..Len(t) : k \in 1..Len(q) /\ k + 1 \in 1..Len(q)
    BY <1>2, <1>5
  <1>10. 1 \in 1..Len(q)
    BY <1>2, <1>5
  <1>11. (\A k \in DOMAIN u : GoodBoard(u[k], decisions, made)) /\ \A k \in DOMAIN t : GoodBoard(t[k], decisions, made)
    BY <1>4, <1>5, <1>7, <1>8, <1>9
  <1>12. BoardsGood(decisions, made)'
    BY <1>4, <1>5, <1>6, <1>7, <1>10, <1>11 DEF BoardsGood
  <1>13. \A k \in 1..Len(q) : Leads(IF k = 1 THEN board ELSE q[k - 1], q[k])
    BY <1>1, <1>5 DEF MInv, FutureLeads
  <1>14. Leads(board, q[1])
    BY <1>10, <1>13
  <1>15. PastLeads'
    <2>1. ASSUME NEW k \in 1..(n + 1) PROVE Leads(u[k], IF k = n + 1 THEN q[1] ELSE u[k + 1])
      <3>1. CASE k = n + 1
        BY <1>4, <1>14, <3>1
      <3>2. CASE k \in 1..n
        <4>1. Leads(p[k], IF k = n THEN board ELSE p[k + 1])
          BY <1>1, <1>3, <3>2 DEF MInv, PastLeads
        <4>2. u[k + 1] = IF k = n THEN board ELSE p[k + 1]
          <5>1. k = n \/ k + 1 \in 1..n
            BY <1>3, <3>2
          <5>2. QED
            BY <1>3, <1>4, <3>2, <5>1
        <4>3. k # n + 1
          BY <1>3, <3>2
        <4>4. QED
          BY <1>4, <3>2, <4>1, <4>2, <4>3
      <3>3. QED
        BY <1>8, <3>1, <3>2
    <2>2. QED
      BY <1>4, <1>6, <2>1 DEF PastLeads
  <1>16. FutureLeads'
    <2>1. ASSUME NEW k \in 1..Len(t) PROVE Leads(IF k = 1 THEN q[1] ELSE t[k - 1], t[k])
      <3>1. PICK j \in 1..Len(q) : j = k + 1
        BY <1>9
      <3>2. Leads(q[k], q[j])
        <4>1. j # 1 /\ j - 1 = k
          BY <3>1
        <4>2. QED
          BY <1>13, <4>1
      <3>3. t[k] = q[j]
        BY <1>5, <3>1
      <3>4. q[k] = IF k = 1 THEN q[1] ELSE t[k - 1]
        <4>1. CASE k # 1
          <5>1. k - 1 \in 1..Len(t) /\ (k - 1) + 1 = k
            BY <1>5, <4>1
          <5>2. QED
            BY <1>5, <4>1, <5>1
        <4>2. QED
          BY <4>1
      <3>5. QED
        BY <3>2, <3>3, <3>4
    <2>2. QED
      BY <1>5, <1>6, <2>1 DEF FutureLeads
  <1>17. PanelOK' /\ EventsOK'
    BY <1>6 DEF MInv, PanelOK, EventsOK
  <1>18. QED
    BY <1>6, <1>12, <1>14, <1>15, <1>16, <1>17 DEF MInv, Stepped

-----------------------------------------------------------------------------
(* Steps that leave the documents alone.                                   *)
LEMMA BoardsStay ==
  ASSUME MInv, UNCHANGED <<board, boardPast, boardFuture, decisions, made>>, PanelOK', EventsOK'
  PROVE  MInv' /\ Stepped
  BY DEF MInv, BoardsGood, PastLeads, FutureLeads, Stepped

LEMMA LatestActions ==
  ASSUME NEW d \in Board, NEW g
  PROVE  {e.action : e \in Suggestions!LatestByGroup(d.log, g)} \in SUBSET Suggestions!Actions
  <1>1. \A n \in DOMAIN d.log : d.log[n] \in Entry
    BY DEF Board
  <1>2. \A e \in Entry : e.action \in Suggestions!Actions
    BY DEF Entry
  <1>3. \A e \in Suggestions!LatestByGroup(d.log, g) : \E n \in DOMAIN d.log : e = d.log[n]
    BY DEF Suggestions!LatestByGroup
  <1>4. \A e \in Suggestions!LatestByGroup(d.log, g) : e.action \in Suggestions!Actions
    BY <1>1, <1>2, <1>3
  <1>5. QED
    BY <1>4

LEMMA PanelReplaced ==
  ASSUME PanelOK, NEW s \in panel, NEW t \in Suggestion, t.group = s.group,
         panel' = (panel \ {s}) \cup {t}, UNCHANGED asked
  PROVE  PanelOK'
  BY DEF PanelOK

LEMMA AsksHold ==
  ASSUME MInv, Suggestions!SuggestMerges \/ Suggestions!SuggestionFailed
  PROVE  MInv' /\ Stepped
  <1>1. UNCHANGED <<board, boardPast, boardFuture, decisions, made, events>>
    BY DEF Suggestions!SuggestMerges, Suggestions!SuggestionFailed
  <1>2. PanelOK'
    <2>1. board \in Board
      BY DEF MInv, BoardsGood, GoodBoard
    <2>2. CASE Suggestions!SuggestMerges
      BY <2>1, <2>2 DEF Suggestions!SuggestMerges, MInv, PanelOK
    <2>3. CASE Suggestions!SuggestionFailed
      BY <2>3 DEF Suggestions!SuggestionFailed, MInv, PanelOK
    <2>4. QED
      BY <2>2, <2>3
  <1>3. QED
    BY <1>1, <1>2, BoardsStay, EventsStay DEF MInv

LEMMA SuggestionsReadyHolds ==
  ASSUME MInv, NEW g \in Groups, NEW S \in Suggestions!Pairs, Suggestions!SuggestionsReady(g, S)
  PROVE  MInv' /\ Stepped
  <1>1. /\ asked' = {} /\ UNCHANGED <<board, boardPast, boardFuture, decisions, made, events>>
    BY DEF Suggestions!SuggestionsReady
  <1>2. PICK d \in asked : panel' = {Suggestions!Shown(d, g, S)}
    BY DEF Suggestions!SuggestionsReady
  <1>3. d \in Board
    BY DEF MInv, PanelOK
  <1>4. PICK latest \in SUBSET Suggestions!Actions :
            latest = {e.action : e \in Suggestions!LatestByGroup(d.log, g)}
    BY <1>3, LatestActions
  <1>5. PICK applied \in BOOLEAN : applied = Suggestions!Represented(d, S)
    BY DEF Suggestions!Represented
  <1>6. PICK x : x = [group |-> g, cards |-> S, blank |-> FALSE, latest |-> latest, applied |-> applied]
    OBVIOUS
  <1>7. x \in Suggestion
    BY <1>6 DEF Suggestion
  <1>8. panel' = {x}
    BY <1>2, <1>4, <1>5, <1>6 DEF Suggestions!Shown
  <1>9. PanelOK'
    BY <1>1, <1>7, <1>8 DEF PanelOK
  <1>10. QED
    BY <1>1, <1>9, BoardsStay, EventsStay DEF MInv

LEMMA AgentCandidateHolds ==
  ASSUME MInv, NEW g \in Groups, NEW S \in Suggestions!Pairs, Suggestions!AgentCandidate(g, S)
  PROVE  MInv' /\ Stepped
  <1>1. PICK x : x = [group |-> g, cards |-> S, blank |-> FALSE, latest |-> {}, applied |-> FALSE]
    OBVIOUS
  <1>2. x \in Suggestion /\ x.group = g
    BY <1>1 DEF Suggestion
  <1>3. /\ panel' = panel \cup {x} /\ \A s \in panel : s.group # g
        /\ UNCHANGED <<board, boardPast, boardFuture, asked, events, decisions, made>>
    BY <1>1 DEF Suggestions!AgentCandidate
  <1>4. PanelOK'
    BY <1>2, <1>3 DEF MInv, PanelOK
  <1>5. QED
    BY <1>3, <1>4, BoardsStay, EventsStay DEF MInv

LEMMA MergedTextChangeHolds ==
  ASSUME MInv, NEW s \in panel, Suggestions!MergedTextChange(s)
  PROVE  MInv' /\ Stepped
  <1>1. s \in Suggestion
    BY DEF MInv, PanelOK
  <1>2. PICK x : x = [s EXCEPT !.blank = ~@]
    OBVIOUS
  <1>3. x \in Suggestion /\ x.group = s.group
    BY <1>1, <1>2 DEF Suggestion
  <1>4. /\ panel' = (panel \ {s}) \cup {x}
        /\ UNCHANGED <<board, boardPast, boardFuture, asked, events, decisions, made>>
    BY <1>2 DEF Suggestions!MergedTextChange
  <1>5. PanelOK'
    BY <1>3, <1>4, PanelReplaced DEF MInv
  <1>6. QED
    BY <1>4, <1>5, BoardsStay, EventsStay DEF MInv

-----------------------------------------------------------------------------
(* Decisions and their events.                                             *)
LEMMA EventsAppended ==
  ASSUME EventsOK, decisions' = decisions + 1, events' = Suggestions!EventsWith(decisions + 1)
  PROVE  EventsOK'
  <1>1. PICK n, last, old, x : n = Len(events) /\ last = decisions /\ old = events /\ x = decisions + 1
    OBVIOUS
  <1>2. last \in Nat /\ old \in Seq(Nat) /\ n \in Nat /\ x = last + 1 /\ x \in Nat /\ n = Len(old)
    BY <1>1 DEF EventsOK
  <1>3. /\ EventLimit \in Nat
        /\ last > EventLimit => n = EventLimit
        /\ last <= EventLimit => n = last
        /\ \A k \in 1..n : old[k] = last - n + k
    <2>1. /\ EventLimit \in Nat /\ decisions \in Nat
          /\ Len(events) = IF decisions > EventLimit THEN EventLimit ELSE decisions
      BY SuggestionsAssumption DEF EventsOK
    <2>2. \A k \in 1..n : old[k] = last - n + k
      BY <1>1 DEF EventsOK
    <2>3. QED
      BY <1>1, <2>1, <2>2
  <1>4. PICK all : all = Append(old, x)
    OBVIOUS
  <1>5. all \in Seq(Nat) /\ Len(all) = n + 1 /\ (\A k \in 1..n : all[k] = old[k]) /\ all[n + 1] = x
    BY <1>2, <1>4
  <1>6. PICK m : m = IF Len(all) > EventLimit THEN EventLimit ELSE Len(all)
    OBVIOUS
  <1>7. PICK u : u = SubSeq(all, Len(all) - m + 1, Len(all))
    OBVIOUS
  <1>8. events' = u
    BY <1>1, <1>4, <1>6, <1>7 DEF Suggestions!EventsWith
  <1>9. /\ m \in Nat /\ m <= n + 1
        /\ last + 1 > EventLimit => m = EventLimit
        /\ last + 1 <= EventLimit => m = last + 1
    BY <1>2, <1>3, <1>5, <1>6
  <1>10. \A k \in 1..(n + 1) : all[k] = last - n + k
    <2>1. \A k \in 1..(n + 1) : k = n + 1 \/ k \in 1..n
      BY <1>2
    <2>2. last - n + (n + 1) = last + 1
      BY <1>2
    <2>3. QED
      BY <1>2, <1>3, <1>5, <2>1, <2>2
  <1>11. \A k \in 1..m : n + 1 - m + k \in 1..(n + 1)
    BY <1>2, <1>9
  <1>12. u \in Seq(Nat) /\ Len(u) = m /\ \A k \in 1..m : u[k] = all[n + 1 - m + k]
    <2>1. PICK a : a = Len(all) - m + 1
      OBVIOUS
    <2>2. u = SubSeq(all, a, n + 1)
      BY Zenon, <1>5, <1>7, <2>1
    <2>3. all \in Seq(Nat) /\ Len(all) = n + 1
      BY <1>5
    <2>4. n \in Nat /\ m \in Nat /\ m <= n + 1
      BY <1>2, <1>9
    <2>5. a = n + 1 - m + 1
      BY <1>5, <2>1, <2>4
    <2>6. a \in 1..(n + 2)
      BY <2>4, <2>5
    <2>7. /\ u \in Seq(Nat) /\ Len(u) = (IF a <= n + 1 THEN n + 1 - a + 1 ELSE 0)
          /\ \A k \in 1..(n + 1 - a + 1) : u[k] = all[a + k - 1]
      BY <2>4, <2>2, <2>3, <2>6, SubSeqProperties
    <2>8. n + 1 - a + 1 = m /\ \A k \in 1..m : a + k - 1 = n + 1 - m + k
      BY <2>4, <2>5
    <2>9. QED
      BY <2>4, <2>5, <2>7, <2>8
  <1>13. PICK next : next = decisions'
    OBVIOUS
  <1>14. next = last + 1 /\ next \in Nat
    BY <1>1, <1>2, <1>13
  <1>15. ASSUME NEW k \in 1..m PROVE u[k] = next - m + k
    <2>1. PICK j \in 1..(n + 1) : j = n + 1 - m + k
      BY <1>11
    <2>2. u[k] = all[j] /\ all[j] = last - n + j
      BY <1>10, <1>12, <2>1
    <2>3. QED
      BY <1>2, <1>9, <1>14, <2>1, <2>2
  <1>16. Len(u) = IF next > EventLimit THEN EventLimit ELSE next
    BY <1>2, <1>3, <1>9, <1>12, <1>14
  <1>17. \A k \in 1..Len(u) : u[k] = next - Len(u) + k
    <2>1. \A k \in 1..m : u[k] = next - m + k
      BY <1>15
    <2>2. Len(u) = m
      BY <1>12
    <2>3. QED
      BY <2>1, <2>2
  <1>18. u \in Seq(Nat) /\ next \in Nat
    BY <1>12, <1>14
  <1>19. QED
    BY <1>8, <1>13, <1>16, <1>17, <1>18 DEF EventsOK

LEMMA RecordDecisionHolds ==
  ASSUME MInv, NEW s \in panel, NEW action \in Suggestions!Actions, NEW sel \in Suggestions!Pairs,
         Suggestions!RecordDecision(s, action, sel)
  PROVE  MInv' /\ Stepped
  <1>1. s \in Suggestion /\ s.group \in Groups
    BY DEF MInv, PanelOK, Suggestion
  <1>2. decisions \in Nat
    BY DEF MInv, EventsOK
  <1>3. PICK x : x = [id |-> decisions + 1, group |-> s.group, action |-> action, sel |-> sel,
                      rep |-> NoRep]
    OBVIOUS
  <1>4. x \in Entry /\ x.id = decisions + 1 /\ x.rep = NoRep
    BY <1>1, <1>2, <1>3 DEF Entry
  <1>5. PICK more : more = Append(board.log, x)
    OBVIOUS
  <1>6. board \in Board /\ board.log \in Seq(Entry) /\ GoodBoard(board, decisions, made)
    BY DEF MInv, BoardsGood, GoodBoard, Board
  <1>7. /\ more \in Seq(Entry) /\ Len(more) = Len(board.log) + 1 /\ more[Len(board.log) + 1] = x
        /\ \A j \in 1..Len(board.log) : more[j] = board.log[j]
    BY <1>4, <1>5, <1>6
  <1>8. PICK e : e = [board EXCEPT !.log = more]
    OBVIOUS
  <1>9. /\ e \in Board /\ e.log = more /\ e.reps = board.reps /\ e.into = board.into
        /\ e.held = board.held /\ e.cards = board.cards /\ e.unread = board.unread
    BY <1>6, <1>7, <1>8 DEF Board
  <1>10. /\ Suggestions!Push(e) /\ decisions' = decisions + 1
         /\ events' = Suggestions!EventsWith(decisions + 1) /\ UNCHANGED <<asked, made>>
         /\ panel' = (panel \ {s}) \cup {[s EXCEPT !.latest = {action}]}
    BY <1>3, <1>5, <1>8 DEF Suggestions!RecordDecision, NoRep
  <1>11. PanelOK'
    <2>1. PICK y : y = [s EXCEPT !.latest = {action}]
      OBVIOUS
    <2>2. y \in Suggestion /\ y.group = s.group
      BY <1>1, <2>1 DEF Suggestion
    <2>3. QED
      BY <1>10, <2>1, <2>2, PanelReplaced DEF MInv
  <1>12. EventsOK'
    BY <1>10, EventsAppended DEF MInv
  <1>13. GoodBoard(e, decisions + 1, made) /\ Leads(board, e)
    BY <1>2, <1>4, <1>6, <1>7, <1>9, DecisionAppended
  <1>14. decisions' \in Nat /\ decisions <= decisions' /\ made \subseteq made' /\ GoodBoard(e, decisions', made')
    BY <1>2, <1>10, <1>13
  <1>15. QED
    BY <1>10, <1>11, <1>12, <1>13, <1>14, PushHolds

LEMMA ApplyRecordedHolds ==
  ASSUME MInv, NEW s \in panel, NEW r \in Reps, Suggestions!ApplyRecorded(s, r)
  PROVE  MInv' /\ Stepped
  <1>1. s \in Suggestion
    BY DEF MInv, PanelOK
  <1>2. PICK x \in Suggestions!LatestByGroup(board.log, s.group) :
            /\ Suggestions!Accepted(x) /\ Suggestions!Mergeable(board, x.sel)
            /\ Suggestions!Push(Suggestions!Merged(board, x, r))
    BY DEF Suggestions!ApplyRecorded
  <1>3. /\ r \in Reps \ made /\ made' = made \cup {r} /\ UNCHANGED <<asked, events, decisions>>
        /\ panel' = (panel \ {s}) \cup {[s EXCEPT !.applied = TRUE]}
    BY DEF Suggestions!ApplyRecorded
  <1>4. GoodBoard(board, decisions, made) /\ decisions \in Nat
    BY DEF MInv, BoardsGood, EventsOK
  <1>5. PICK e : e = Suggestions!Merged(board, x, r)
    OBVIOUS
  <1>6. GoodBoard(e, decisions, made \cup {r}) /\ Leads(board, e)
    BY <1>2, <1>3, <1>4, <1>5, DecisionApplied
  <1>7. PanelOK'
    <2>1. PICK y : y = [s EXCEPT !.applied = TRUE]
      OBVIOUS
    <2>2. y \in Suggestion /\ y.group = s.group
      BY <1>1, <2>1 DEF Suggestion
    <2>3. QED
      BY <1>3, <2>1, <2>2, PanelReplaced DEF MInv
  <1>8. EventsOK'
    BY <1>3, EventsStay DEF MInv
  <1>9. /\ decisions' \in Nat /\ decisions <= decisions' /\ made \subseteq made'
        /\ GoodBoard(e, decisions', made') /\ Suggestions!Push(e)
    BY <1>2, <1>3, <1>4, <1>5, <1>6
  <1>10. QED
    BY <1>6, <1>7, <1>8, <1>9, PushHolds

-----------------------------------------------------------------------------
LEMMA SuggestionsStart == Suggestions!Init => MInv
  <1> SUFFICES ASSUME Suggestions!Init PROVE MInv
    OBVIOUS
  <1>1. PICK b : b = board
    OBVIOUS
  <1>2. b = [cards |-> Cards, held |-> {}, clash |-> {}, reps |-> {}, unread |-> {},
             into |-> [c \in Cards |-> NoRep], log |-> <<>>]
    BY <1>1 DEF Suggestions!Init, NoRep
  <1>3. /\ b \in Board /\ b.held = {} /\ b.unread = {} /\ b.reps = {} /\ b.log = <<>>
        /\ \A c \in Cards : b.into[c] = NoRep
    BY <1>2 DEF Board
  <1>4. DOMAIN b.log = {}
    BY <1>3
  <1>5. GoodBoard(b, 0, {})
    BY <1>3, <1>4 DEF GoodBoard, Ordered, Founded
  <1>6. /\ boardPast = <<>> /\ boardFuture = <<>> /\ panel = {} /\ asked = {} /\ events = <<>>
        /\ decisions = 0 /\ made = {}
    BY DEF Suggestions!Init
  <1>7. BoardsGood(decisions, made) /\ PastLeads /\ FutureLeads
    BY <1>1, <1>5, <1>6 DEF BoardsGood, PastLeads, FutureLeads
  <1>8. PanelOK /\ EventsOK
    BY <1>6, SuggestionsAssumption DEF PanelOK, EventsOK
  <1>9. QED
    BY <1>7, <1>8 DEF MInv

LEMMA SuggestionsStep == MInv /\ [Suggestions!Next]_(Suggestions!mergeVars) => MInv' /\ Stepped
  <1> SUFFICES ASSUME MInv, [Suggestions!Next]_(Suggestions!mergeVars) PROVE MInv' /\ Stepped
    OBVIOUS
  <1>1. CASE \/ \E c \in Cards : Suggestions!DeleteCard(c) \/ Suggestions!HoldCard(c)
             \/ \E S \in {T \in Suggestions!Pairs : Suggestions!Cardinality(T) = 2} : Suggestions!Contradict(S)
             \/ \E r \in Reps : Suggestions!ReviewRepresentative(r)
    BY <1>1, EditsHold
  <1>2. CASE Suggestions!Undo \/ Suggestions!Redo
    BY <1>2, UndoLeads, RedoLeads
  <1>3. CASE Suggestions!SuggestMerges \/ Suggestions!SuggestionFailed
    BY <1>3, AsksHold
  <1>4. CASE \E g \in Groups, S \in Suggestions!Pairs :
                 Suggestions!SuggestionsReady(g, S) \/ Suggestions!LocalFallback(g, S)
    BY <1>4, SuggestionsReadyHolds DEF Suggestions!LocalFallback
  <1>5. CASE \E g \in Groups, S \in Suggestions!Pairs : Suggestions!AgentCandidate(g, S)
    BY <1>5, AgentCandidateHolds
  <1>6. CASE \E s \in panel : Suggestions!MergedTextChange(s)
    BY <1>6, MergedTextChangeHolds
  <1>7. CASE \E s \in panel, action \in Suggestions!Actions, sel \in Suggestions!Pairs :
                 Suggestions!RecordDecision(s, action, sel)
    BY <1>7, RecordDecisionHolds
  <1>8. CASE \E s \in panel, r \in Reps : Suggestions!ApplyRecorded(s, r)
    BY <1>8, ApplyRecordedHolds
  <1>9. CASE UNCHANGED Suggestions!mergeVars
    <2>1. UNCHANGED <<board, boardPast, boardFuture, panel, asked, events, decisions, made>>
      BY <1>9 DEF Suggestions!mergeVars
    <2>2. PanelOK' /\ EventsOK'
      BY <2>1 DEF MInv, PanelOK, EventsOK
    <2>3. QED
      BY <2>1, <2>2, BoardsStay
  <1>10. QED
    BY <1>1, <1>2, <1>3, <1>4, <1>5, <1>6, <1>7, <1>8, <1>9 DEF Suggestions!Next

LEMMA MInvSays ==
  MInv => Suggestions!TypeOK /\ Suggestions!DecisionsAudited /\ Suggestions!MergeFollowsDecision
  <1> SUFFICES ASSUME MInv
               PROVE  Suggestions!TypeOK /\ Suggestions!DecisionsAudited /\ Suggestions!MergeFollowsDecision
    OBVIOUS
  <1>1. \A d \in Suggestions!Boards : GoodBoard(d, decisions, made)
    BY DEF MInv, BoardsGood, Suggestions!Boards, Suggestions!ToSet
  <1>2. \A e \in Entry : e.action \in Suggestions!Actions /\ e.sel \in Suggestions!Pairs
    BY DEF Entry
  <1>3. \A d \in Board : \A n \in DOMAIN d.log : d.log[n] \in Entry
    BY DEF Board
  <1>4. \A d \in Board : /\ d.cards \subseteq Cards /\ d.reps \subseteq Reps
                         /\ d.into = [c \in Cards |-> d.into[c]]
    BY DEF Board
  <1>5. Suggestions!TypeOK
    <2>1. ASSUME NEW d \in Suggestions!Boards
          PROVE  /\ d.cards \subseteq Cards /\ d.held \subseteq d.cards
                 /\ d.unread \subseteq d.reps /\ d.reps \subseteq Reps
                 /\ d.into \in [Cards -> d.reps \cup {Suggestions!NoRep}]
                 /\ \A e \in Suggestions!ToSet(d.log) : e.action \in Suggestions!Actions /\ e.sel \in Suggestions!Pairs
      <3>1. d \in Board /\ d.held \subseteq d.cards /\ d.unread \subseteq d.reps
        BY <1>1 DEF GoodBoard
      <3>2. d.into \in [Cards -> d.reps \cup {Suggestions!NoRep}]
        <4>1. \A c \in Cards : d.into[c] \in d.reps \cup {Suggestions!NoRep}
          BY <1>1 DEF GoodBoard, NoRep
        <4>2. d.into = [c \in Cards |-> d.into[c]]
          BY <1>4, <3>1
        <4>3. QED
          BY <4>1, <4>2
      <3>3. \A e \in Suggestions!ToSet(d.log) : e \in Entry
        BY <1>3, <3>1 DEF Suggestions!ToSet
      <3>4. QED
        BY <1>2, <1>4, <3>1, <3>2, <3>3
    <2>2. Len(events) <= EventLimit
      BY SuggestionsAssumption DEF MInv, EventsOK
    <2>3. \A s, t \in panel : s.group = t.group => s = t
      BY DEF MInv, PanelOK
    <2>4. QED
      BY <2>1, <2>2, <2>3 DEF Suggestions!TypeOK
  <1>6. Suggestions!DecisionsAudited
    <2>1. SUFFICES ASSUME NEW d \in Suggestions!Boards, NEW n \in DOMAIN d.log,
                          d.log[n].id + EventLimit > decisions
                   PROVE  \E k \in DOMAIN events : events[k] = d.log[n].id
      BY DEF Suggestions!DecisionsAudited, Suggestions!ToSet
    <2>2. PICK id : id = d.log[n].id /\ id \in 1..decisions
      BY <1>1 DEF GoodBoard, Ordered
    <2>3. /\ decisions \in Nat /\ EventLimit \in Nat /\ DOMAIN events = 1..Len(events)
          /\ Len(events) = IF decisions > EventLimit THEN EventLimit ELSE decisions
          /\ \A k \in 1..Len(events) : events[k] = decisions - Len(events) + k
      BY SuggestionsAssumption DEF MInv, EventsOK
    <2>4. PICK k : k = id - (decisions - Len(events))
      OBVIOUS
    <2>5. k \in 1..Len(events) /\ decisions - Len(events) + k = id
      BY <2>1, <2>2, <2>3, <2>4
    <2>6. QED
      BY <2>2, <2>3, <2>5
  <1>7. Suggestions!MergeFollowsDecision
    <2>1. SUFFICES ASSUME NEW d \in Suggestions!Boards, NEW r \in d.reps
                   PROVE  \E e \in Suggestions!ToSet(d.log) :
                              /\ e.rep = r /\ e.action \in {"accept", "partial"}
                              /\ Suggestions!Sources(d, r) = e.sel
                              /\ \A f \in Suggestions!ToSet(d.log) : f.rep = r => f = e
      BY DEF Suggestions!MergeFollowsDecision
    <2>2. PICK n \in DOMAIN d.log : /\ d.log[n].rep = r /\ d.log[n].action \in {"accept", "partial"}
                                    /\ Suggestions!Sources(d, r) = d.log[n].sel
                                    /\ \A m \in DOMAIN d.log : d.log[m].rep = r => m = n
      BY <1>1 DEF GoodBoard, Founded
    <2>3. Suggestions!ToSet(d.log) = {d.log[m] : m \in DOMAIN d.log}
      BY DEF Suggestions!ToSet
    <2>4. \A f \in Suggestions!ToSet(d.log) : f.rep = r => f = d.log[n]
      BY <2>2, <2>3
    <2>5. d.log[n] \in Suggestions!ToSet(d.log)
      BY <2>3
    <2>6. QED
      BY <2>2, <2>4, <2>5
  <1>8. QED
    BY <1>5, <1>6, <1>7

LEMMA SteppedFollowsLatest ==
  ASSUME Stepped
  PROVE  \A r \in board'.reps \ board.reps : \A n \in DOMAIN board'.log :
             board'.log[n].rep = r /\ Len(board'.log) = Len(board.log) =>
                 \A k \in (n + 1)..Len(board'.log) : board'.log[k].group # board'.log[n].group
  <1>1. CASE board' = board \/ Leads(board', board)
    BY <1>1 DEF Leads
  <1>2. CASE Leads(board, board')
    BY <1>2 DEF Leads
  <1>3. QED
    BY <1>1, <1>2 DEF Stepped

(* A representative stands for the cards one accepting decision of its     *)
(* document selected, appears only under the newest decision of its group, *)
(* and every decision has its audit event while the limit allows: for any  *)
(* cards, groups and limits, whatever is edited and undone in between      *)
(* (handleRecordMergeSuggestionDecision, createRepresentativeMerge).       *)
THEOREM SuggestionsHold == Suggestions!Spec => SuggestionsFollowDecisions
  <1>1. Suggestions!Init => MInv
    BY SuggestionsStart
  <1>2. MInv /\ [Suggestions!Next]_(Suggestions!mergeVars) => MInv'
    BY SuggestionsStep
  <1>3. Suggestions!Spec => []MInv
    BY <1>1, <1>2, PTL DEF Suggestions!Spec
  <1>4. MInv => Suggestions!TypeOK /\ Suggestions!DecisionsAudited /\ Suggestions!MergeFollowsDecision
    BY MInvSays
  <1>5. MInv /\ [Suggestions!Next]_(Suggestions!mergeVars) =>
          [\A r \in board'.reps \ board.reps : \A n \in DOMAIN board'.log :
               board'.log[n].rep = r /\ Len(board'.log) = Len(board.log) =>
                   \A k \in (n + 1)..Len(board'.log) :
                       board'.log[k].group # board'.log[n].group]_(Suggestions!mergeVars)
    BY SuggestionsStep, SteppedFollowsLatest
  <1>6. Suggestions!Spec => Suggestions!MergeFollowsLatest
    BY <1>3, <1>5, PTL DEF Suggestions!Spec, Suggestions!MergeFollowsLatest
  <1>7. QED
    BY <1>3, <1>4, <1>6, PTL DEF SuggestionsFollowDecisions
=============================================================================
