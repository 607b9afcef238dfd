--------------------------- MODULE EditorSession ---------------------------
(***************************************************************************)
(* The life of the open document in the editor: which document is shown,   *)
(* its undo history, the ETag it will be saved under, the dirty, conflict  *)
(* and archived marks, and the requests in flight that will change them.   *)
(* A document is its id and the set of edits it contains (work).  An ETag  *)
(* names one revision of one document: the hash covers id and timestamp.   *)
(* Other users save, archive and unarchive the same documents.             *)
(***************************************************************************)
EXTENDS Naturals, Sequences, FiniteSets

CONSTANTS
    Docs,        \* document ids
    Home,        \* DEFAULT_DOCUMENT_ID, loaded when the page opens
    MaxEdits,    \* bound on the edits made, by anyone
    MaxRevs,     \* bound on the revisions of one document
    MaxLoads,    \* bound on the loads started since the page opened
    MaxTurns     \* bound on the rare operations (crash, import, merge, ...)

ASSUME DocsAssumption == Home \in Docs /\ "none" \notin Docs

ASSUME BoundsAssumption == {MaxEdits, MaxRevs, MaxLoads, MaxTurns} \subseteq Nat /\ MaxRevs > 0

VARIABLES
    server,     \* per document: revision, content of every revision, archived
    doc,        \* history.present
    active,     \* activeDocumentId
    past,       \* history.past
    future,     \* history.future
    etag,       \* docEtag
    marks,      \* isDirty, hasSaveConflict, isActiveDocumentArchived
    loading,    \* isLoading
    reloading,  \* isReloadingDocument
    loads,      \* per load: the getDocument call and what follows it
    save,       \* the putDocument call of handleSave
    flip,       \* the archive or unarchive call
    adopt,      \* the document an adopted proposal will be applied to
    snapshot,   \* lastMergeSnapshot
    evicted,    \* the document the error boundary left in localStorage
    offered,    \* where recovery is offered: crash screen, banner or not
    origin,     \* history: where the shown document came from
    edits,      \* number of edits made
    pack,       \* the sample pack is being fetched
    turns       \* rare operations left

vars == <<server, doc, active, past, future, etag, marks, loading, reloading, loads,
          save, flip, adopt, snapshot, evicted, offered, origin, edits, pack, turns>>

Edits == 1..MaxEdits
Content == [id : Docs, work : SUBSET Edits]
NoDoc == [id |-> "none", work |-> {}]
NoEtag == [id |-> "none", rev |-> 0]
ETag(d, r) == [id |-> d, rev |-> r]

NoLoad == [step |-> "none", id |-> Home, reload |-> FALSE, create |-> FALSE, sample |-> FALSE,
           found |-> "none", rev |-> 0]
NoSave == [step |-> "none", doc |-> NoDoc, etag |-> NoEtag, out |-> "none", blind |-> FALSE]
NoFlip == [step |-> "none", id |-> Home, archive |-> FALSE, active |-> FALSE, ok |-> FALSE]

Clean == [dirty |-> FALSE, conflict |-> FALSE]
Dirty == [dirty |-> TRUE, conflict |-> FALSE]

Origins == {"server", "created", "new", "import", "sample", "recovered"}

TypeOK ==
    /\ \A d \in Docs : /\ server[d].rev \in 0..MaxRevs
                       /\ server[d].texts \in [1..MaxRevs -> SUBSET Edits]
                       /\ server[d].archived \in BOOLEAN
    /\ doc \in Content \cup {NoDoc}
    /\ Len(past) <= MaxEdits + MaxTurns /\ Len(future) <= MaxEdits + MaxTurns
    /\ \A i \in 1..Len(past) : past[i] \in Content
    /\ \A i \in 1..Len(future) : future[i] \in Content
    /\ etag \in [id : Docs, rev : 1..MaxRevs] \cup {NoEtag}
    /\ marks \in [dirty : BOOLEAN, conflict : BOOLEAN, archived : BOOLEAN]
    /\ loading \in BOOLEAN /\ reloading \in BOOLEAN
    /\ \A i \in 1..Len(loads) : loads[i].step \in {"get", "got", "put", "created", "done"}
    /\ save.step \in {"none", "sent", "answered"}
    /\ flip.step \in {"none", "sent", "answered"}
    /\ offered \in {"no", "screen", "banner"}
    /\ origin \in Origins
    /\ active \in Docs /\ pack \in BOOLEAN
    /\ edits \in 0..MaxEdits /\ turns \in 0..MaxTurns

isReadOnly == marks.archived

\* Marks d and c replaced, archived kept.
Mark(m) == [dirty |-> m.dirty, conflict |-> m.conflict, archived |-> marks.archived]

-----------------------------------------------------------------------------
(* Opening the page: everything but the server and localStorage is new.    *)

FirstLoad == [NoLoad EXCEPT !.step = "get", !.create = TRUE]

Init ==
    /\ server \in [Docs -> [rev : {0, 1}, texts : {[r \in 1..MaxRevs |-> {}]}, archived : BOOLEAN]]
    /\ \A d \in Docs : server[d].archived => server[d].rev = 1 /\ d # Home /\ server[Home].rev = 1
    /\ \E d \in Docs : server[d].rev = 1
    /\ active = Home /\ pack = FALSE
    /\ doc = NoDoc /\ past = <<>> /\ future = <<>> /\ etag = NoEtag
    /\ marks = [dirty |-> FALSE, conflict |-> FALSE, archived |-> FALSE]
    /\ loading = TRUE /\ reloading = FALSE
    /\ loads = <<FirstLoad>>
    /\ save = NoSave /\ flip = NoFlip /\ adopt = NoDoc /\ snapshot = NoDoc
    /\ evicted = NoDoc /\ offered = "no"
    /\ origin = "server"
    /\ edits = 0 /\ turns = MaxTurns

\* Every way of putting another document into the editor resets the history
\* and drops the drag snapshot; the callers add the rest.
Replace(d, from) ==
    /\ doc' = d /\ active' = d.id
    /\ past' = <<>> /\ future' = <<>>
    /\ origin' = from

-----------------------------------------------------------------------------
(* loadDocument.                                                           *)

\* The archived mark of the document to come is set before anything else.
StartLoad(d, reload, create, sample, archived) ==
    /\ Len(loads) < MaxLoads
    /\ loads' = Append(loads, [NoLoad EXCEPT !.step = "get", !.id = d, !.reload = reload,
                                             !.create = create, !.sample = sample])
    /\ marks' = [marks EXCEPT !.archived = archived]
    /\ loading' = TRUE
    /\ reloading' = (reloading \/ reload)

\* handleOpenRecent: the list of documents knows which are archived.
OpenRecent(d) ==
    /\ doc # NoDoc /\ d # active /\ server[d].rev > 0
    /\ StartLoad(d, FALSE, FALSE, FALSE, server[d].archived)
    /\ UNCHANGED <<server, doc, active, past, future, etag, save, flip, adopt, snapshot,
                   evicted, offered, origin, edits, pack, turns>>

\* The reload button of the conflict notice.
ReloadAfterConflict ==
    /\ marks.conflict
    /\ StartLoad(active, TRUE, FALSE, FALSE, FALSE)
    /\ UNCHANGED <<server, doc, active, past, future, etag, save, flip, adopt, snapshot,
                   evicted, offered, origin, edits, pack, turns>>

StaleNever(i) == FALSE
Stale(i) == i # Len(loads)

ServerGet(i) ==
    /\ loads[i].step = "get"
    /\ \E out \in {"found", "missing", "failed"} :
          /\ out = "found" => server[loads[i].id].rev > 0
          /\ out = "missing" => server[loads[i].id].rev = 0
          /\ loads' = [loads EXCEPT ![i].step = "got", ![i].found = out, ![i].rev = server[loads[i].id].rev]
    /\ UNCHANGED <<server, doc, active, past, future, etag, marks, loading, reloading, save, flip, adopt,
                   snapshot, evicted, offered, origin, edits, pack, turns>>

Revision(d, r) == [id |-> d, work |-> server[d].texts[r]]

\* What an answered load or creation shows.
Show(i, from) ==
    /\ Replace(Revision(loads[i].id, loads[i].rev), from)
    /\ etag' = ETag(loads[i].id, loads[i].rev)
    /\ marks' = Mark(Clean)

\* finally: only the newest load clears the loading marks.
EndLoadWhenFound(i) ==
    /\ loading' = (loading /\ Stale(i) /\ loads[i].found # "found")
    /\ UNCHANGED reloading
EndLoad(i) ==
    /\ loading' = (loading /\ Stale(i) /\ ~loads[i].sample)
    /\ reloading' = (reloading /\ ~(loads[i].reload /\ ~Stale(i)))

\* loadDocument answers false; opening a sample then shows the built-in one.
BuiltInSample ==
    /\ Replace([id |-> Home, work |-> {}], "sample")
    /\ etag' = NoEtag
    /\ marks' = Mark(Clean)

LoadRefused(i) ==
    IF loads[i].sample THEN BuiltInSample ELSE UNCHANGED <<doc, active, past, future, origin, etag, marks>>

ReceiveLoad(i) ==
    /\ loads[i].step = "got"
    /\ \/ /\ loads[i].found = "missing" /\ loads[i].create
          /\ loads' = [loads EXCEPT ![i].step = "put"]
          /\ UNCHANGED <<doc, active, past, future, origin, etag, marks, loading, reloading>>
       \/ /\ ~(loads[i].found = "missing" /\ loads[i].create)
          /\ loads' = [loads EXCEPT ![i] = [NoLoad EXCEPT !.step = "done", !.reload = loads[i].reload]]
          /\ EndLoad(i)
          /\ IF loads[i].found = "found" /\ ~Stale(i) THEN Show(i, "server") ELSE LoadRefused(i)
    /\ UNCHANGED <<server, save, flip, adopt, snapshot, evicted, offered, edits, pack, turns>>

NextRevTwice(d, work) == [server EXCEPT ![d].rev = @ + 2]
NextRev(d, work) == [server EXCEPT ![d].rev = @ + 1, ![d].texts[server[d].rev + 1] = work]

\* The default document is stored without a precondition.
ServerCreate(i) ==
    /\ loads[i].step = "put"
    /\ LET d == loads[i].id IN
       \/ /\ ~server[d].archived /\ server[d].rev < MaxRevs
          /\ server' = NextRev(d, {})
          /\ loads' = [loads EXCEPT ![i].step = "created", ![i].found = "found", ![i].rev = server[d].rev + 1]
       \/ /\ loads' = [loads EXCEPT ![i].step = "created", ![i].found = "failed"]
          /\ UNCHANGED server
    /\ UNCHANGED <<doc, active, past, future, etag, marks, loading, reloading, save, flip, adopt, snapshot,
                   evicted, offered, origin, edits, pack, turns>>

ReceiveCreate(i) ==
    /\ loads[i].step = "created"
    /\ loads' = [loads EXCEPT ![i] = [NoLoad EXCEPT !.step = "done", !.reload = loads[i].reload]]
    /\ EndLoad(i)
    /\ IF loads[i].found = "found" /\ ~Stale(i) THEN Show(i, "created") ELSE LoadRefused(i)
    /\ UNCHANGED <<server, save, flip, adopt, snapshot, evicted, offered, edits, pack, turns>>

-----------------------------------------------------------------------------
(* Changing the document.                                                  *)

\* applyDocumentChange with a document made from another one, base: the
\* shown document, or one remembered from before an await.
ApplyWithoutHistory(base, new) ==
    /\ doc' = [base EXCEPT !.work = @ \cup new]
    /\ marks' = Mark(Dirty)
    /\ UNCHANGED <<past, future>>
Apply(base, new) ==
    IF isReadOnly THEN UNCHANGED <<doc, past, future, marks>>
    ELSE /\ doc' = [base EXCEPT !.work = @ \cup new]
         /\ past' = Append(past, doc)
         /\ future' = <<>>
         /\ marks' = Mark(Dirty)

Edit ==
    /\ doc # NoDoc /\ edits < MaxEdits
    /\ edits' = edits + 1
    /\ Apply(doc, {edits + 1})
    /\ UNCHANGED <<server, active, etag, loading, reloading, loads, save, flip, adopt, snapshot,
                   evicted, offered, origin, pack, turns>>

\* Moving the camera marks the document dirty, read-only or not.
MoveCamera ==
    /\ doc # NoDoc
    /\ marks' = [marks EXCEPT !.dirty = TRUE]
    /\ UNCHANGED <<server, doc, active, past, future, etag, loading, reloading, loads, save, flip, adopt,
                   snapshot, evicted, offered, origin, edits, pack, turns>>

Undo ==
    /\ ~isReadOnly /\ past # <<>>
    /\ doc' = past[Len(past)]
    /\ past' = SubSeq(past, 1, Len(past) - 1)
    /\ future' = <<doc>> \o future
    /\ marks' = [marks EXCEPT !.dirty = TRUE]
    /\ UNCHANGED <<server, active, etag, loading, reloading, loads, save, flip, adopt, snapshot,
                   evicted, offered, origin, edits, pack, turns>>

Redo ==
    /\ ~isReadOnly /\ future # <<>>
    /\ doc' = Head(future)
    /\ past' = Append(past, doc)
    /\ future' = Tail(future)
    /\ marks' = [marks EXCEPT !.dirty = TRUE]
    /\ UNCHANGED <<server, active, etag, loading, reloading, loads, save, flip, adopt, snapshot,
                   evicted, offered, origin, edits, pack, turns>>

-----------------------------------------------------------------------------
(* handleSave.                                                             *)

StartSave ==
    /\ doc # NoDoc /\ save.step = "none" /\ marks.dirty
    /\ ~isReadOnly /\ ~loading
    /\ save' = [step |-> "sent", doc |-> doc, etag |-> etag, out |-> "none",
                blind |-> origin \in {"import", "sample", "recovered"} \/ doc.id # active]
    /\ UNCHANGED <<server, doc, active, past, future, etag, marks, loading, reloading, loads, flip, adopt,
                   snapshot, evicted, offered, origin, edits, pack, turns>>

\* put_document: archived documents refuse, then the If-Match comparison.
ETagMatches(d, e) == e = NoEtag \/ (server[d].rev > 0 /\ e = ETag(d, server[d].rev))

ServerPut ==
    /\ save.step = "sent"
    /\ LET d == save.doc.id IN
       \/ /\ ~server[d].archived /\ ETagMatches(d, save.etag) /\ server[d].rev < MaxRevs
          /\ server' = NextRev(d, save.doc.work)
          /\ save' = [save EXCEPT !.step = "answered", !.out = "ok", !.etag = ETag(d, server[d].rev + 1)]
       \/ /\ ~server[d].archived /\ ~ETagMatches(d, save.etag)
          /\ save' = [save EXCEPT !.step = "answered", !.out = "conflict"]
          /\ UNCHANGED server
       \/ /\ save' = [save EXCEPT !.step = "answered", !.out = "failed"]
          /\ UNCHANGED server
    /\ UNCHANGED <<doc, active, past, future, etag, marks, loading, reloading, loads, flip, adopt, snapshot,
                   evicted, offered, origin, edits, pack, turns>>

\* The saved document replaces whatever is shown when the answer arrives.
SaveOkKeepingDocument == UNCHANGED <<doc, active, past, future, origin>> /\ etag' = save.etag /\ marks' = Mark(Clean)
SaveOkWithoutEtag == Replace(save.doc, "server") /\ etag' = NoEtag /\ marks' = Mark(Clean)
SaveOk ==
    /\ Replace(save.doc, "server")
    /\ etag' = save.etag
    /\ marks' = Mark(Clean)

ReceiveSave ==
    /\ save.step = "answered"
    /\ save' = NoSave
    /\ \/ save.out = "ok" /\ SaveOk
       \/ /\ save.out = "conflict"
          /\ marks' = [marks EXCEPT !.conflict = TRUE]
          /\ UNCHANGED <<doc, active, past, future, etag, origin>>
       \/ /\ save.out = "failed"
          /\ UNCHANGED <<doc, active, past, future, etag, marks, origin>>
    /\ UNCHANGED <<server, loading, reloading, loads, flip, adopt, snapshot, evicted, offered, edits, pack, turns>>

-----------------------------------------------------------------------------
(* Rare operations.  Each uses up a turn.                                  *)

TakeTurn == turns > 0 /\ turns' = turns - 1

\* crypto.randomUUID: an id that nothing has used yet.
FreshIds == {d \in Docs \ {Home, active} : server[d].rev = 0}

New ==
    /\ TakeTurn /\ ~isReadOnly /\ ~loading /\ save.step = "none"
    /\ \E d \in FreshIds : Replace([id |-> d, work |-> {}], "new")
    /\ etag' = NoEtag
    /\ marks' = Mark(Dirty)
    /\ UNCHANGED <<server, loading, reloading, loads, save, flip, adopt, snapshot, evicted, offered, edits, pack>>

Duplicate ==
    /\ TakeTurn /\ doc # NoDoc /\ ~isReadOnly /\ ~loading /\ save.step = "none"
    /\ \E d \in FreshIds : Replace([doc EXCEPT !.id = d], "new")
    /\ etag' = NoEtag
    /\ marks' = Mark(Dirty)
    /\ UNCHANGED <<server, loading, reloading, loads, save, flip, adopt, snapshot, evicted, offered, edits, pack>>

\* A validated file or review pack replaces the document, under its own id.
ImportDocument ==
    /\ TakeTurn
    /\ \E d \in Docs : Replace([id |-> d, work |-> {}], "import")
    /\ etag' = NoEtag
    /\ marks' = Mark(IF isReadOnly THEN Clean ELSE Dirty)
    /\ UNCHANGED <<server, loading, reloading, loads, save, flip, adopt, snapshot, evicted, offered, edits, pack>>

\* Opening the sample: the public pack, else the stored default document,
\* else the built-in one.
OpenSample ==
    /\ TakeTurn /\ ~loading /\ ~pack
    /\ pack' = TRUE /\ loading' = TRUE
    /\ UNCHANGED <<server, doc, active, past, future, etag, marks, reloading, loads, save, flip, adopt, snapshot,
                   evicted, offered, origin, edits>>

ReceivePack ==
    /\ pack /\ pack' = FALSE
    /\ \/ /\ \E d \in Docs : Replace([id |-> d, work |-> {}], "sample")
          /\ etag' = NoEtag
          /\ marks' = Mark(Clean)
          /\ loading' = FALSE
          /\ UNCHANGED <<loads, reloading>>
       \/ /\ BuiltInSample
          /\ loading' = FALSE
          /\ UNCHANGED <<loads, reloading>>
       \/ /\ StartLoad(Home, FALSE, TRUE, TRUE, FALSE)
          /\ UNCHANGED <<doc, active, past, future, etag, origin>>
    /\ UNCHANGED <<server, save, flip, adopt, snapshot, evicted, offered, edits, turns>>

\* Merging a comparison remembers the document before; the remembered one
\* can be applied again until another comparison is opened.
ApplyMerge ==
    /\ TakeTurn /\ doc # NoDoc /\ edits < MaxEdits
    /\ edits' = edits + 1
    /\ Apply(doc, {edits + 1})
    /\ snapshot' = doc
    /\ UNCHANGED <<server, active, etag, loading, reloading, loads, save, flip, adopt, evicted, offered, origin, pack>>

UndoLastMerge ==
    /\ snapshot # NoDoc
    /\ Apply(snapshot, {})
    /\ snapshot' = NoDoc
    /\ UNCHANGED <<server, active, etag, loading, reloading, loads, save, flip, adopt, evicted, offered,
                   origin, edits, pack, turns>>

\* Adopting an AI proposal records the decision on the server and applies
\* the proposal to the document it was adopted on.
StartAdopt ==
    /\ TakeTurn /\ doc # NoDoc /\ adopt = NoDoc /\ edits < MaxEdits
    /\ adopt' = doc
    /\ UNCHANGED <<server, doc, active, past, future, etag, marks, loading, reloading, loads, save, flip,
                   snapshot, evicted, offered, origin, edits, pack>>

ReceiveAdopt ==
    /\ adopt # NoDoc /\ adopt' = NoDoc
    /\ \/ edits < MaxEdits /\ edits' = edits + 1 /\ Apply(adopt, {edits + 1})
       \/ UNCHANGED <<doc, past, future, marks, edits>>
    /\ UNCHANGED <<server, active, etag, loading, reloading, loads, save, flip, snapshot, evicted, offered, origin, pack, turns>>

\* applyLifecycleTransition, from the list of documents.
StartFlip(d) ==
    /\ TakeTurn /\ flip.step = "none" /\ server[d].rev > 0
    /\ \E a \in BOOLEAN : flip' = [step |-> "sent", id |-> d, archive |-> a, active |-> d = active, ok |-> FALSE]
    /\ UNCHANGED <<server, doc, active, past, future, etag, marks, loading, reloading, loads, save, adopt,
                   snapshot, evicted, offered, origin, edits, pack>>

ServerFlip ==
    /\ flip.step = "sent"
    /\ \/ /\ server' = [server EXCEPT ![flip.id].archived = flip.archive]
          /\ flip' = [flip EXCEPT !.step = "answered", !.ok = TRUE]
       \/ /\ flip' = [flip EXCEPT !.step = "answered"]
          /\ UNCHANGED server
    /\ UNCHANGED <<doc, active, past, future, etag, marks, loading, reloading, loads, save, adopt, snapshot,
                   evicted, offered, origin, edits, pack, turns>>

ReceiveFlip ==
    /\ flip.step = "answered"
    /\ flip' = NoFlip
    /\ marks' = IF flip.ok /\ flip.active THEN [marks EXCEPT !.archived = flip.archive] ELSE marks
    /\ UNCHANGED <<server, doc, active, past, future, etag, loading, reloading, loads, save, adopt, snapshot,
                   evicted, offered, origin, edits, pack, turns>>

\* A render error: the error boundary stores the shown document.
Crash ==
    /\ TakeTurn /\ doc # NoDoc /\ offered # "screen"
    /\ evicted' = doc
    /\ offered' = "screen"
    /\ UNCHANGED <<server, doc, active, past, future, etag, marks, loading, reloading, loads, save, flip, adopt,
                   snapshot, origin, edits, pack>>

\* The reload button of the crash screen drops the requests in flight with
\* the rest of the page.  (Without a crash a reload is a new session.)
ReloadPage ==
    /\ TakeTurn /\ offered = "screen"
    /\ doc' = NoDoc /\ active' = Home /\ past' = <<>> /\ future' = <<>> /\ etag' = NoEtag
    /\ marks' = [dirty |-> FALSE, conflict |-> FALSE, archived |-> FALSE]
    /\ loading' = TRUE /\ reloading' = FALSE /\ loads' = <<FirstLoad>>
    /\ save' = NoSave /\ flip' = NoFlip /\ adopt' = NoDoc /\ snapshot' = NoDoc
    /\ offered' = "banner"
    /\ origin' = "server" /\ pack' = FALSE
    /\ UNCHANGED <<server, evicted, edits>>

\* applyRecoveredDocument: neither the ETag nor the archived mark changes.
Recover ==
    /\ offered # "no"
    /\ Replace(evicted, "recovered")
    /\ marks' = [marks EXCEPT !.dirty = TRUE]
    /\ evicted' = NoDoc /\ offered' = "no"
    /\ UNCHANGED <<server, etag, loading, reloading, loads, save, flip, adopt, snapshot, edits, pack, turns>>

DismissRecovery ==
    /\ offered = "banner"
    /\ evicted' = NoDoc /\ offered' = "no"
    /\ UNCHANGED <<server, doc, active, past, future, etag, marks, loading, reloading, loads, save, flip, adopt,
                   snapshot, origin, edits, pack, turns>>

\* Another user saves a document.
OtherSaves(d) ==
    /\ TakeTurn /\ server[d].rev \in 1..(MaxRevs - 1) /\ ~server[d].archived /\ edits < MaxEdits
    /\ edits' = edits + 1
    /\ server' = NextRev(d, server[d].texts[server[d].rev] \cup {edits + 1})
    /\ UNCHANGED <<doc, active, past, future, etag, marks, loading, reloading, loads, save, flip, adopt, snapshot,
                   evicted, offered, origin, pack>>

-----------------------------------------------------------------------------
\* Behind the crash screen only answers to requests still change anything.
UserActs ==
    /\ offered # "screen"
    /\ \/ \E d \in Docs : OpenRecent(d) \/ StartFlip(d)
       \/ ReloadAfterConflict \/ Edit \/ MoveCamera \/ Undo \/ Redo \/ StartSave
       \/ New \/ Duplicate \/ ImportDocument \/ OpenSample
       \/ ApplyMerge \/ UndoLastMerge \/ StartAdopt \/ DismissRecovery

Answers ==
    \/ \E i \in 1..Len(loads) : ServerGet(i) \/ ReceiveLoad(i) \/ ServerCreate(i) \/ ReceiveCreate(i)
    \/ ServerPut \/ ReceiveSave \/ ServerFlip \/ ReceiveFlip \/ ReceivePack \/ ReceiveAdopt

Next ==
    \/ UserActs
    \/ Answers
    \/ Crash \/ ReloadPage \/ Recover
    \/ \E d \in Docs : OtherSaves(d)

Spec == Init /\ [][Next]_vars

-----------------------------------------------------------------------------
\* A document that is not marked dirty and has an ETag is the revision its
\* ETag names, whatever was edited, undone, adopted or recovered while the
\* save or the load that produced it was under way.
CleanIsStored ==
    (doc # NoDoc /\ ~marks.dirty /\ etag # NoEtag) =>
        doc = Revision(etag.id, etag.rev)

\* A save that replaces a stored revision replaces the one the editor has
\* seen under its ETag.  The exceptions are exact: a document that came from
\* a file, a sample or the recovery copy, and a document of another id that a
\* late adoption or the undo of a merge put under the ETag of the open one.
NoBlindOverwrite ==
    [][(save.step = "sent" /\ save'.out = "ok" /\ server[save.doc.id].rev > 0) =>
          save.etag = ETag(save.doc.id, server[save.doc.id].rev) \/ save.blind]_vars

\* The work in c can still be reached in the next state.
KeptNext(w) ==
    \/ w \in doc'.work \/ w \in evicted'.work
    \/ \E i \in 1..Len(past') : w \in past'[i].work
    \/ \E i \in 1..Len(future') : w \in future'[i].work
    \/ \E d \in Docs, r \in 1..MaxRevs : w \in server'[d].texts[r]

\* Short of putting another document into the editor, no step loses work of
\* the shown document: not an edit or undo, not a late adoption computed on an
\* older document, not a conflict, a failure or an archive transition.
WorkKept ==
    [][\A w \in doc.work :
          (\/ Edit \/ Undo \/ Redo \/ ApplyMerge \/ UndoLastMerge \/ ReceiveAdopt \/ ReceiveFlip
           \/ ReceiveSave /\ save.out # "ok") => KeptNext(w)]_vars

\* The loading mark stands for a load or a sample under way, and the reload
\* mark for a reload, unless a later load overtook it: nothing clears it then.
MarksEnd ==
    /\ loading => pack \/ \E i \in 1..Len(loads) : loads[i].step # "done"
    /\ reloading => \E i \in 1..Len(loads) : loads[i].reload /\ (loads[i].step # "done" \/ Stale(i))

\* The documents a user asked for are shown in the order asked: an answered
\* load changes the document only if no load was started after it.  Opening
\* the sample is the exception, it shows the built-in document even then.
LateLoadDropped ==
    [][\A i \in 1..Len(loads) :
          (loads[i].step # "done" /\ i < Len(loads) /\ i <= Len(loads') /\ loads'[i].step = "done" /\ ~loads[i].sample)
             => doc' = doc /\ etag' = etag /\ marks' = marks]_vars

\* What holds of the open document between the steps of its requests: a
\* document without the dirty mark is the revision its ETag names, and the
\* loading marks end with the loads that set them.
SessionInvariant == TypeOK /\ CleanIsStored /\ MarksEnd

\* No step but putting another document into the editor loses an edit, and a
\* load that was overtaken leaves the editor alone.
WorkSurvives == WorkKept /\ LateLoadDropped

\* handleUndo's comment: history.past is empty in a read-only session.
ReadOnlyHasNoHistory == isReadOnly => past = <<>>
=============================================================================
