--------------------------- MODULE InquiryJourney ---------------------------
(***************************************************************************)
(* The inquiry panel's journey: rounds recorded from the open document,    *)
(* branches, handoffs, files and shared files (domain/inquiry_*.ts and     *)
(* ui/InquiryJourneyPrototypePanel.tsx).  Starting, recording, importing   *)
(* and ending await a digest or a worker: their result is made from the    *)
(* bundle and the document shown at the call and put on screen later.      *)
(*                                                                         *)
(* A round and its output snapshot share one id.  A document is its id and *)
(* its cards; a card is a text and whether it names a source.  The free    *)
(* texts of a handoff are one note, fieldwork outcomes are left out, and   *)
(* so are the wording of errors and the sizes of files.                    *)
(***************************************************************************)
EXTENDS Naturals, Sequences, FiniteSets, FiniteSetsExt, SequencesExt

CONSTANTS DocIds, Cards, Texts, Stages, Times,
          MaxSteps    \* bound: what the user does after the first start

VARIABLES sheet,       \* the open document
          past,        \* its undo history
          bundle,      \* the bundle on screen
          checkpoint,  \* branchUndoCheckpoint
          clock,       \* the browser's clock
          work,        \* the call that is under way (isBusy)
          files,       \* files that were written, and the server's copies
          given,       \* ids given so far
          steps,       \* steps counted against MaxSteps
          strayed      \* history: the document changed under a call

journeyVars == <<sheet, past, bundle, checkpoint, clock, work, files,
                given, steps, strayed>>

NoId == 0
Redacted == "redacted"
NoCard == [text |-> "none", sourced |-> FALSE]
NoNote == "none"
Note == "note"
NoHandoff == [carry |-> {}, held |-> {}, note |-> NoNote]
NoInfo == [scope |-> "none", round |-> NoId]
NoBundle == [journey |-> NoId]
NoDocument == [id |-> "none", cards |-> <<>>]
NoCheckpoint == [bundle |-> NoBundle, restored |-> NoDocument]
Idle == [op |-> "idle", result |-> NoBundle, base |-> NoBundle, branch |-> NoDocument,
         id |-> "none"]

CardsOf(doc) == {c \in Cards : doc.cards[c] # NoCard}

-----------------------------------------------------------------------------
(* Rounds.                                                                 *)

(* collectAncestorIds, of several rounds at once. *)
Ancestors(rounds, S) ==
    LET up[n \in 0..Cardinality(DOMAIN rounds)] ==
            IF n = 0 THEN S
            ELSE LET below == up[n - 1]
                 IN  below \cup UNION {rounds[p].parents : p \in below \cap DOMAIN rounds}
    IN  up[Cardinality(DOMAIN rounds)]

Proper(rounds, r) == Ancestors(rounds, rounds[r].parents)

Latest(rounds, S, stage) ==
    Max({0} \cup {rounds[a].iteration : a \in {b \in S \cap DOMAIN rounds : rounds[b].stage = stage}})

ExpectedIteration(rounds, r) == Latest(rounds, Proper(rounds, r), rounds[r].stage) + 1

(* Mutant: only the parents are counted. *)
NextIterationOfParents(rounds, stage, parents) == Latest(rounds, parents, stage) + 1

NextIteration(rounds, stage, parents) ==
    Latest(rounds, Ancestors(rounds, parents), stage) + 1

Outputs(b) == {r \in DOMAIN b.rounds : b.rounds[r].output # NoId}

(* validateInquiryBundle. *)
RoundsValid(b) ==
    /\ b.created <= b.updated
    /\ \A r \in DOMAIN b.rounds :
           LET round == b.rounds[r]
           IN  /\ round.created <= round.updated
               /\ round.stage \in Stages
               /\ round.parents \subseteq DOMAIN b.rounds
               /\ round.iteration = ExpectedIteration(b.rounds, r)
               /\ round.status = "working" \/ round.output # NoId
               /\ r \notin Proper(b.rounds, r)

HeadsValid(b) ==
    LET leaves == {r \in DOMAIN b.rounds : \A s \in DOMAIN b.rounds : r \notin b.rounds[s].parents}
    IN  /\ b.heads = leaves
        /\ b.head \in b.heads \cup {NoId}
        /\ b.info.scope = "round" => b.heads = {b.info.round} /\ b.head = b.info.round

SnapshotsValid(b) ==
    /\ b.origin \in DOMAIN b.snaps
    /\ \A r \in Outputs(b) : r \in DOMAIN b.snaps /\ r # b.origin
    /\ DOMAIN b.snaps = {b.origin} \cup Outputs(b)
    /\ \A r \in DOMAIN b.rounds :
           \A i \in b.rounds[r].inputs : i = b.origin \/ i \in Proper(b.rounds, r) \cap Outputs(b)

Known(b, address) ==
    address.snap \in DOMAIN b.snaps /\ address.card \in CardsOf(b.snaps[address.snap])

HandoffsValid(b) ==
    \A r \in DOMAIN b.rounds :
        \A a \in b.rounds[r].handoff.carry \cup b.rounds[r].handoff.held : Known(b, a)

LineageValid(b) ==
    \A e \in b.lineage :
        /\ \A a \in e.from \cup e.to : Known(b, a)
        /\ \A t \in e.to : /\ t.snap \in Outputs(b)
                           /\ \A s \in e.from : s.snap = b.origin \/ s.snap \in Proper(b.rounds, t.snap)

Valid(b) ==
    /\ RoundsValid(b) /\ HeadsValid(b) /\ SnapshotsValid(b)
    /\ HandoffsValid(b) /\ LineageValid(b)

-----------------------------------------------------------------------------
(* SafeMode: free text is redacted, sources are left out, the rest is kept.*)
(* A card stands for every element of a document that has a text.          *)

CardFields == [text |-> "redact", sourced |-> "omit"]
HandoffFields == [carry |-> "rebuild", held |-> "rebuild", note |-> "redact"]

Redact(text) == IF text \in {NoNote, Redacted} THEN text ELSE Redacted

SafeCard(card) ==
    [text |-> IF CardFields.text = "redact" THEN Redact(card.text) ELSE card.text,
     sourced |-> card.sourced /\ CardFields.sourced # "omit"]

SafeDocument(doc) ==
    [doc EXCEPT !.cards = [c \in Cards |-> IF @[c] = NoCard THEN NoCard ELSE SafeCard(@[c])]]

SafeHandoff(h) == IF HandoffFields.note = "redact" THEN [h EXCEPT !.note = Redact(@)] ELSE h

SafeRound(round) == [round EXCEPT !.handoff = SafeHandoff(@)]

SafeBundle(b) ==
    [b EXCEPT !.rounds = [r \in DOMAIN @ |-> SafeRound(@[r])],
              !.snaps = [s \in DOMAIN @ |-> SafeDocument(@[s])]]

(* validateExportClaim, isInquirySafeModeBundle *)
ClaimHolds(b) == b.info = NoInfo \/ SafeBundle(b) = b

(* serializeInquiryBundle, parseInquiryBundleJson: what is written is what *)
(* is read.                                                                *)
Accepted(b) == Valid(b) /\ ClaimHolds(b)

-----------------------------------------------------------------------------
(* deriveInquiryRoundBundle                                                *)

Scope(b, r) == Ancestors(b.rounds, {r})

ScopeSnaps(b, r) ==
    {b.origin} \cup (Scope(b, r) \cap Outputs(b)) \cup UNION {b.rounds[q].inputs : q \in Scope(b, r)}

Snaps(S) == {a.snap : a \in S}

(* A retired edge has no target: it comes along with its source. *)
InScope(b, r, e) ==
    Snaps(IF e.to = {} THEN e.from ELSE e.to) \cap ScopeSnaps(b, r) # {}

Contained(b, r) ==
    /\ \A q \in Scope(b, r) :
           Snaps(b.rounds[q].handoff.carry \cup b.rounds[q].handoff.held) \subseteq ScopeSnaps(b, r)
    /\ \A e \in b.lineage : InScope(b, r, e) => Snaps(e.from \cup e.to) \subseteq ScopeSnaps(b, r)

Projected(b, r) ==
    [b EXCEPT !.rounds = [q \in Scope(b, r) |-> @[q]],
              !.heads = {r}, !.head = r,
              !.snaps = [s \in ScopeSnaps(b, r) |-> @[s]],
              !.lineage = {e \in @ : InScope(b, r, e)}]

(* NoBundle when the scope is refused. *)
Derived(b, r) ==
    IF r = NoId THEN b
    ELSE IF Valid(b) /\ Contained(b, r) /\ Valid(Projected(b, r)) THEN Projected(b, r)
    ELSE NoBundle

(* prepareInquiryBundleForShare *)
Shared(b, r) ==
    LET bare == [b EXCEPT !.info = NoInfo]
        part == Derived(bare, r)
    IN  IF part = NoBundle \/ ~Accepted(part) THEN NoBundle
        ELSE [SafeBundle(part) EXCEPT
                 !.info = [scope |-> IF r = NoId THEN "full" ELSE "round", round |-> r]]

-----------------------------------------------------------------------------
(* startInquiryJourney, recordInquiryRound.                                *)

Started(doc, id, now) ==
    [journey |-> id, origin |-> id, rounds |-> <<>>, heads |-> {}, head |-> NoId,
     snaps |-> [s \in {id} |-> doc], lineage |-> {}, created |-> now, updated |-> now,
     info |-> NoInfo]

Address(s, c) == [snap |-> s, card |-> c]

(* buildCardLineage *)
Lineage(from, old, to, new) ==
    {[kind |-> IF c \notin CardsOf(old) THEN "new"
               ELSE IF old.cards[c].text = new.cards[c].text THEN "carried" ELSE "edited",
      from |-> IF c \in CardsOf(old) THEN {Address(from, c)} ELSE {},
      to |-> {Address(to, c)}] : c \in CardsOf(new)}
    \cup {[kind |-> "retired", from |-> {Address(from, c)}, to |-> {}] :
              c \in CardsOf(old) \ CardsOf(new)}

InputOf(b, p) == IF p = NoId \/ b.rounds[p].output = NoId THEN b.origin ELSE b.rounds[p].output

(* appendRoundRecord refuses a clock that went back and a parent without a *)
(* snapshot.                                                               *)
Appendable(b, p, now) == b.updated <= now /\ (p # NoId => b.rounds[p].output # NoId)

Recorded(b, doc, stage, p, id, now) ==
    LET parents == {p} \ {NoId}
        input == InputOf(b, p)
        round == [stage |-> stage, parents |-> parents, status |-> "paused",
                  iteration |-> NextIteration(b.rounds, stage, parents),
                  inputs |-> {input}, output |-> id, created |-> now, updated |-> now,
                  handoff |-> NoHandoff]
    IN  [b EXCEPT !.rounds = [r \in DOMAIN @ \cup {id} |-> IF r = id THEN round ELSE @[r]],
                  !.heads = (@ \ parents) \cup {id},
                  !.head = id,
                  !.updated = now,
                  !.snaps = [s \in DOMAIN @ \cup {id} |-> IF s = id THEN doc ELSE @[s]],
                  !.lineage = @ \cup Lineage(input, b.snaps[input], id, doc)]

(* A file of another tool, as the validator admits it: two branches and a  *)
(* round with both as parents that has no output yet.  Its ids are none of *)
(* the panel's own.                                                        *)
ForeignId == MaxSteps + 2
ForeignBranches == {ForeignId + 1, ForeignId + 2}

ForeignFile(doc, stage) ==
    LET round(ps, out, status) ==
            [stage |-> stage, parents |-> ps, status |-> status,
             iteration |-> IF ps = {} THEN 1 ELSE 2, inputs |-> {ForeignId}, output |-> out,
             created |-> 1, updated |-> 1, handoff |-> NoHandoff]
        merge == ForeignId + 3
    IN  [Started(doc, ForeignId, 1) EXCEPT
            !.rounds = [r \in ForeignBranches \cup {merge} |->
                            IF r = merge THEN round(ForeignBranches, NoId, "working")
                            ELSE round({}, r, "superseded")],
            !.heads = {merge}, !.head = merge,
            !.snaps = [s \in {ForeignId} \cup ForeignBranches |-> doc]]

-----------------------------------------------------------------------------
FirstDocument(d) == [id |-> d, cards |-> [c \in Cards |->
                        IF c = (CHOOSE k \in Cards : TRUE)
                        THEN [text |-> CHOOSE t \in Texts : TRUE, sourced |-> TRUE]
                        ELSE NoCard]]

Init ==
    /\ sheet = FirstDocument(CHOOSE d \in DocIds : TRUE)
    /\ past = <<>> /\ bundle = NoBundle /\ checkpoint = NoCheckpoint /\ work = Idle
    /\ files \in {{}, {ForeignFile(sheet, CHOOSE s \in Stages : TRUE)}}
    /\ clock = Max(Times) /\ given = 0 /\ steps = 0 /\ strayed = FALSE

Counted == steps < MaxSteps /\ steps' = steps + 1
Fresh == given' = given + 1 /\ (IF given = 0 THEN UNCHANGED steps ELSE Counted)

(* The effect on the document's id: the inquiry of another document goes   *)
(* away.                                                                   *)
Settle(doc, b, mark) ==
    /\ sheet' = doc
    /\ bundle' = IF doc.id = sheet.id THEN b ELSE NoBundle
    /\ checkpoint' = IF doc.id = sheet.id THEN mark ELSE NoCheckpoint

(* Time passes, or the clock is set back. *)
ClockMoves ==
    /\ Counted
    /\ clock' \in Times \ {clock}
    /\ UNCHANGED <<sheet, past, bundle, checkpoint, work, files, given, strayed>>

(* The user changes a card. *)
Edit ==
    /\ Counted
    /\ \E c \in Cards, card \in {NoCard} \cup [text : Texts, sourced : {TRUE}] :
           /\ card # sheet.cards[c]
           /\ sheet' = [sheet EXCEPT !.cards[c] = card]
    /\ past' = Append(past, sheet)
    /\ UNCHANGED <<bundle, checkpoint, work, files, given, strayed, clock>>

(* Another document is opened: an import is aborted, other calls go on. *)
OpenDocument(d) ==
    /\ d # sheet.id
    /\ Counted
    /\ Settle(FirstDocument(d), NoBundle, NoCheckpoint)
    /\ past' = <<>>
    /\ work' = IF work.op = "import" THEN Idle ELSE work
    /\ strayed' = (strayed \/ work.op \in {"start", "record", "load"})
    /\ UNCHANGED <<files, given, clock>>

(* handleStart *)
Start ==
    /\ bundle = NoBundle /\ work = Idle
    /\ Fresh
    /\ work' = [Idle EXCEPT !.op = "start", !.result = Started(sheet, given', clock)]
    /\ UNCHANGED <<sheet, past, bundle, checkpoint, files, strayed, clock>>

(* handleRecord: a parent other than the default head starts a branch from *)
(* its snapshot.                                                           *)
Record(stage, p) ==
    /\ bundle # NoBundle /\ work = Idle
    /\ p \in DOMAIN bundle.rounds \/ p = bundle.head
    /\ Fresh
    /\ LET branching == p # bundle.head
           doc == IF branching THEN bundle.snaps[p] ELSE sheet
       IN  /\ branching => bundle.rounds[p].output # NoId
           /\ Appendable(bundle, p, clock)
           /\ work' = [Idle EXCEPT !.op = "record", !.base = bundle,
                          !.result = Recorded(bundle, doc, stage, p, given', clock),
                          !.branch = IF branching THEN doc ELSE NoDocument]
    /\ UNCHANGED <<sheet, past, bundle, checkpoint, files, strayed, clock>>

(* The digest is there; the result replaces whatever is on screen now. *)
StartDone ==
    /\ work.op = "start"
    /\ bundle' = work.result /\ checkpoint' = NoCheckpoint /\ work' = Idle
    /\ UNCHANGED <<sheet, past, files, given, steps, strayed, clock>>

RecordDone ==
    /\ work.op = "record"
    /\ IF work.branch = NoDocument
       THEN bundle' = work.result /\ UNCHANGED <<sheet, past, checkpoint>>
       ELSE /\ Settle(work.branch, work.result, [bundle |-> work.base, restored |-> work.branch])
            /\ past' = Append(past, sheet)
    /\ work' = Idle
    /\ UNCHANGED <<files, given, steps, strayed, clock>>

(* onRestoreDocument refuses: the session has become read-only. *)
BranchRefused ==
    /\ work.op = "record" /\ work.branch # NoDocument
    /\ work' = Idle
    /\ UNCHANGED <<sheet, past, bundle, checkpoint, files, given, steps, strayed, clock>>

(* handleUndoBranch with discardLatestDocumentChange. *)
UndoBranch ==
    /\ checkpoint # NoCheckpoint /\ sheet = checkpoint.restored
    /\ past # <<>> /\ bundle # NoBundle /\ work = Idle
    /\ Settle(Last(past), checkpoint.bundle, NoCheckpoint)
    /\ past' = Front(past)
    /\ UNCHANGED <<work, files, given, steps, strayed, clock>>

-----------------------------------------------------------------------------
(* buildInquiryHandoffReview and buildHandoff: every candidate is a card   *)
(* of the head's snapshot; unanswered ones leave the round paused.         *)
Handoff(b, carried, answered) ==
    LET all == {Address(b.head, c) : c \in CardsOf(b.snaps[b.head])}
    IN  [carry |-> all \cap carried, held |-> IF answered THEN all \ carried ELSE {},
         note |-> IF answered THEN Note ELSE NoNote]

HandedOff(b, carried, answered, now) ==
    [b EXCEPT !.rounds[b.head].handoff = Handoff(b, carried, answered),
              !.rounds[b.head].status = IF answered THEN "handed_off" ELSE "paused",
              !.rounds[b.head].updated = now,
              !.updated = now]

(* handleSaveHandoff is not held back by isBusy. *)
SaveHandoff ==
    /\ bundle # NoBundle /\ bundle.head # NoId /\ bundle.rounds[bundle.head].output # NoId
    /\ Counted
    /\ \E carried \in {{Address(bundle.head, c)} : c \in CardsOf(bundle.snaps[bundle.head])} \cup {{}},
          answered \in BOOLEAN :
           LET next == HandedOff(bundle, carried, answered, clock)
           IN  Valid(next) /\ bundle' = next
    /\ UNCHANGED <<sheet, past, checkpoint, work, files, given, strayed, clock>>

-----------------------------------------------------------------------------
(* handleExport and handleSaveToBackend: the bundle, or a round with what  *)
(* led to it.                                                              *)
Export(r) ==
    /\ bundle # NoBundle /\ work = Idle
    /\ Counted
    /\ LET part == Derived(bundle, r)
       IN  part # NoBundle /\ Accepted(part) /\ files' = files \cup {part}
    /\ UNCHANGED <<sheet, past, bundle, checkpoint, work, given, strayed, clock>>

(* handleShareExport *)
Share(r) ==
    /\ bundle # NoBundle /\ work = Idle
    /\ Counted
    /\ LET part == Shared(bundle, r)
       IN  part # NoBundle /\ Accepted(part) /\ files' = files \cup {part}
    /\ UNCHANGED <<sheet, past, bundle, checkpoint, work, given, strayed, clock>>

(* handleImport, up to the answer of the worker; and handleLoadFromBackend *)
(* of the journey that is shown.                                           *)
Import(f) ==
    /\ work = Idle
    /\ Counted
    /\ work' = [Idle EXCEPT !.op = "import", !.result = f, !.id = sheet.id]
    /\ UNCHANGED <<sheet, past, bundle, checkpoint, files, given, strayed, clock>>

Load(f) ==
    /\ work = Idle /\ f.journey = bundle.journey
    /\ Counted
    /\ work' = [Idle EXCEPT !.op = "load", !.result = f, !.id = sheet.id]
    /\ UNCHANGED <<sheet, past, bundle, checkpoint, files, given, strayed, clock>>

(* parseInquiryBundleJson accepts it and it comes from the document that   *)
(* was open at the call.                                                   *)
ImportDone ==
    /\ work.op \in {"import", "load"}
    /\ IF Accepted(work.result) /\ work.result.snaps[work.result.origin].id = work.id
       THEN /\ bundle' = work.result
            /\ checkpoint' = IF work.op = "import" THEN NoCheckpoint ELSE checkpoint
       ELSE UNCHANGED <<bundle, checkpoint>>
    /\ work' = Idle
    /\ UNCHANGED <<sheet, past, files, given, steps, strayed, clock>>

ImportCancelled ==
    /\ work.op = "import"
    /\ work' = Idle
    /\ UNCHANGED <<sheet, past, bundle, checkpoint, files, given, steps, strayed, clock>>

(* handleEndConfirmationDecision: without saving, or after an export of    *)
(* the bundle shown at the call.                                           *)
End ==
    /\ bundle # NoBundle /\ work = Idle
    /\ Counted
    /\ \/ bundle' = NoBundle /\ checkpoint' = NoCheckpoint /\ UNCHANGED work
       \/ /\ Accepted(bundle)
          /\ work' = [Idle EXCEPT !.op = "end", !.result = bundle]
          /\ UNCHANGED <<bundle, checkpoint>>
    /\ UNCHANGED <<sheet, past, files, given, strayed, clock>>

EndSaved ==
    /\ work.op = "end"
    /\ files' = files \cup {work.result}
    /\ bundle' = NoBundle /\ checkpoint' = NoCheckpoint /\ work' = Idle
    /\ UNCHANGED <<sheet, past, given, steps, strayed, clock>>

-----------------------------------------------------------------------------
Next ==
    \/ ClockMoves \/ Edit \/ Start \/ StartDone \/ RecordDone \/ BranchRefused \/ UndoBranch
    \/ SaveHandoff \/ ImportDone \/ ImportCancelled \/ End \/ EndSaved
    \/ \E d \in DocIds : OpenDocument(d)
    \/ /\ bundle # NoBundle
       /\ \E r \in DOMAIN bundle.rounds \cup {NoId} :
              Export(r) \/ Share(r) \/ \E stage \in Stages : Record(stage, r)
    \/ \E f \in files : Import(f) \/ Load(f)

Spec == Init /\ [][Next]_journeyVars

-----------------------------------------------------------------------------
TypeOK ==
    /\ sheet.id \in DocIds
    /\ DOMAIN sheet.cards = Cards
    /\ work.op \in {"idle", "start", "record", "import", "load", "end"}
    /\ given \in 0..MaxSteps + 1 /\ steps \in 0..MaxSteps

(* Whatever rounds, branches, handoffs and imports lead to, the panel      *)
(* never makes a bundle its own validator refuses: it can be written,      *)
(* stored, shared and read again.  A shared file that was worked on is the *)
(* exception: it keeps the claim of its export.                            *)
AlwaysSaveable == bundle # NoBundle /\ bundle.info = NoInfo => Accepted(bundle)

(* The bundle on screen belongs to the open document, unless the document  *)
(* was changed while a call was under way.                                 *)
OfThisDocument == bundle # NoBundle /\ ~strayed => bundle.snaps[bundle.origin].id = sheet.id

(* A shared file has no text in the clear and holds the selected round     *)
(* with all that led to it and nothing else.                               *)
SharedIsSafe ==
    \A f \in files : f.info # NoInfo =>
        /\ \A s \in DOMAIN f.snaps, c \in Cards :
               f.snaps[s].cards[c] \in {NoCard, [text |-> Redacted, sourced |-> FALSE]}
        /\ \A r \in DOMAIN f.rounds : f.rounds[r].handoff.note # Note
        /\ f.info.scope = "round" => DOMAIN f.rounds = Ancestors(f.rounds, {f.info.round})

(* traceInquiryCardLineage: every card of a recorded snapshot is told by   *)
(* exactly one edge, whose source is the snapshot the round started from;  *)
(* and every card that is not in the output is told to be retired.         *)
LineageTold ==
    bundle # NoBundle =>
        \A r \in Outputs(bundle) \ ForeignBranches :
            /\ \A c \in CardsOf(bundle.snaps[r]) :
                   \E e \in bundle.lineage :
                       /\ e.to = {Address(r, c)}
                       /\ Snaps(e.from) \subseteq bundle.rounds[r].inputs
                       /\ \A d \in bundle.lineage \ {e} : Address(r, c) \notin d.to
            /\ \A i \in bundle.rounds[r].inputs : \A c \in CardsOf(bundle.snaps[i]) :
                   c \in CardsOf(bundle.snaps[r]) \/
                       \E e \in bundle.lineage : e.kind = "retired" /\ e.from = {Address(i, c)}
=============================================================================
