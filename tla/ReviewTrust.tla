---------------------------- MODULE ReviewTrust ----------------------------
(***************************************************************************)
(* What "reviewed" means in the editor (App.tsx).  Card texts, island      *)
(* titles, island summaries and relation summaries each carry a flag that  *)
(* a person has vouched for the text.  People type, mark and restore;      *)
(* models propose layouts, summaries, relation summaries and narratives    *)
(* over calls that are answered later, against the document the handler    *)
(* had captured; a proposed summary is adopted, held or rejected through   *)
(* a decision the server records first.                                    *)
(*                                                                         *)
(* A text is a number: Typed for anything a person typed, n for what the   *)
(* n-th call returned, Foreign for a text that came with the document.     *)
(***************************************************************************)
EXTENDS Naturals, Sequences, SequencesExt

CONSTANTS Islands,        \* the islands of the open document
          HistoryLimit,   \* HISTORY_LIMIT
          TrailLimit,     \* DEFAULT_HISTORY_LIMIT, RELATION_SUMMARY_HISTORY_LIMIT
          AttemptLimit,   \* resuggestAttemptLimit
          MaxEdits,       \* bound: document changes in a behaviour
          MaxCalls        \* bound: calls of models and of the decision endpoint

VARIABLES page,       \* history.present
          pagePast,   \* history.past
          pageFuture, \* history.future
          preview,    \* suggestedDocument: a set of at most one card
          attempts,   \* resuggestAttemptCount
          offer,      \* islandSummaryProposal: a set of at most one
          box,        \* narrativeText
          flights,    \* calls that have not been answered
          decided,    \* the decisions the server has recorded
          vouched,    \* texts a person has marked, with the field they mark
          readOnly,   \* isReadOnly
          sent,       \* calls so far
          revisions   \* document changes so far

reviewVars == <<page, pagePast, pageFuture, preview, attempts, offer, box, flights,
                decided, vouched, readOnly, sent, revisions>>

Typed == 0
Foreign == MaxCalls + 1
Texts == 0..MaxCalls + 1

Piece == [text : Texts, ok : BOOLEAN]

Summary == [text : Texts, ok : BOOLEAN, trail : Seq(Piece)]

(* Documents.  They open with typed texts, the card's possibly foreign.    *)

Fresh == [text |-> Typed, ok |-> TRUE]

Start(c) ==
    [card  |-> c,
     title |-> Fresh,
     sum   |-> [i \in Islands |-> [text |-> Typed, ok |-> FALSE, trail |-> <<>>]],
     rel   |-> [text |-> Typed, ok |-> FALSE, trail |-> <<>>],
     story |-> <<>>]

Init ==
    /\ page \in {Start(Fresh), Start([text |-> Foreign, ok |-> FALSE])}
    /\ pagePast = <<>> /\ pageFuture = <<>>
    /\ preview = {} /\ attempts = 0 /\ offer = {} /\ box = Typed
    /\ flights = {} /\ decided = {} /\ vouched = {}
    /\ readOnly \in BOOLEAN
    /\ sent = 0 /\ revisions = 0

-----------------------------------------------------------------------------
(* The history.                                                            *)

Newest(s, n) == SubSeq(s, Len(s) - (IF Len(s) > n THEN n ELSE Len(s)) + 1, Len(s))

(* applyDocumentChange: refused in a read-only session; a change drops the *)
(* previewed suggestion unless it asks to keep it.                         *)
Change(d, keep) ==
    IF readOnly THEN UNCHANGED <<page, pagePast, pageFuture, preview, revisions>>
    ELSE /\ revisions < MaxEdits
         /\ pagePast' = Newest(Append(pagePast, page), HistoryLimit)
         /\ page' = d
         /\ pageFuture' = <<>>
         /\ preview' = IF keep THEN preview ELSE {}
         /\ revisions' = revisions + 1

Beside == <<attempts, offer, box, flights, decided, readOnly, sent>>

Undo ==
    /\ pagePast # <<>>
    /\ page' = Last(pagePast) /\ pagePast' = Front(pagePast)
    /\ pageFuture' = <<page>> \o pageFuture
    /\ UNCHANGED <<preview, Beside, vouched, revisions>>

Redo ==
    /\ pageFuture # <<>>
    /\ page' = Head(pageFuture) /\ pageFuture' = Tail(pageFuture)
    /\ pagePast' = Newest(Append(pagePast, page), HistoryLimit)
    /\ UNCHANGED <<preview, Beside, vouched, revisions>>

-----------------------------------------------------------------------------
(* Summaries and their trails.                                             *)

(* updateIslandSummaryWithHistory: an entry when the text changes, or when *)
(* a restored version asks for one.                                        *)
SummaryWithHistory(s, text, ok, force) ==
    [text |-> text, ok |-> ok,
     trail |-> IF text # s.text \/ force
               THEN Newest(Append(s.trail, [text |-> text, ok |-> ok]), TrailLimit)
               ELSE s.trail]

(* Mutant: only a new text gets an entry. *)
RelationHistoryOfText(r, text, ok) ==
    [text |-> text, ok |-> ok,
     trail |-> IF text # r.text
               THEN Newest(Append(r.trail, [text |-> text, ok |-> ok]), TrailLimit)
               ELSE r.trail]

(* upsertRelationSummaryWithHistory: an entry when the text or the flag    *)
(* changes.                                                                *)
RelationWithHistory(r, text, ok) ==
    [text |-> text, ok |-> ok,
     trail |-> IF text # r.text \/ ok # r.ok
               THEN Newest(Append(r.trail, [text |-> text, ok |-> ok]), TrailLimit)
               ELSE r.trail]

-----------------------------------------------------------------------------
(* What people do.  Typing vouches, except on a card, whose flag is left   *)
(* as it is.                                                               *)

Edit(d, keep) ==
    /\ d # page
    /\ Change(d, keep)
    /\ UNCHANGED <<Beside, vouched>>

CommitCardText == Edit([page EXCEPT !.card.text = Typed], FALSE)

PlacardCardTextChange == Edit([page EXCEPT !.card = Fresh], FALSE)

IslandTitleChange == Edit([page EXCEPT !.title = Fresh], FALSE)

IslandPlacardCardChange == Edit([page EXCEPT !.title.ok = FALSE], FALSE)

IslandSummaryTextChange(i) ==
    Edit([page EXCEPT !.sum[i] = SummaryWithHistory(@, Typed, TRUE, FALSE)], FALSE)

RelationSummaryCommit ==
    /\ page.rel.trail # <<>>
    /\ Edit([page EXCEPT !.rel = RelationWithHistory(@, Typed, TRUE)], FALSE)

(* The reviewed boxes. *)
Mark(field, d, ok, keep) ==
    /\ d # page
    /\ Change(d, keep)
    /\ vouched' = IF ok THEN vouched \cup {field} ELSE vouched
    /\ UNCHANGED Beside

CardTextReviewedChange(ok) ==
    Mark(<<"card", page.card.text>>, [page EXCEPT !.card.ok = ok], ok, TRUE)

IslandTitleReviewedChange(ok) ==
    Mark(<<"title", page.title.text>>, [page EXCEPT !.title.ok = ok], ok, FALSE)

IslandSummaryReviewedChange(i, ok) ==
    Mark(<<"summary", page.sum[i].text>>, [page EXCEPT !.sum[i].ok = ok], ok, FALSE)

RelationSummaryReviewedChange(ok) ==
    /\ page.rel.trail # <<>>
    /\ Mark(<<"relation", page.rel.text>>,
            [page EXCEPT !.rel = RelationWithHistory(@, @.text, ok)], ok, FALSE)

(* Mutant: a restored version counts as reviewed, being restored by hand. *)
RestoredReviewed(entry) == [text |-> entry.text, ok |-> TRUE]

(* A version comes back with the flag it was recorded with. *)
Restored(entry) == entry

RestoreIslandSummaryVersion(i, n) ==
    /\ n \in DOMAIN page.sum[i].trail
    /\ LET e == Restored(page.sum[i].trail[n])
       IN  Edit([page EXCEPT !.sum[i] = SummaryWithHistory(@, e.text, e.ok, TRUE)], FALSE)

RestoreRelationSummaryHistoryEntry(n) ==
    /\ n \in DOMAIN page.rel.trail
    /\ LET e == Restored(page.rel.trail[n])
       IN  Edit([page EXCEPT !.rel = RelationWithHistory(@, e.text, e.ok)], FALSE)

-----------------------------------------------------------------------------
(* Calls.  Each kind of call has its own busy flag; all but the relation   *)
(* summary are refused while a card is unreviewed.                         *)

Idle(kind) == \A f \in flights : f.kind # kind

AiBlockedByUnreviewed == page.card.ok # TRUE

(* target holds the island the answer is for, text is what it will bring. *)
Call(kind, target, decision) ==
    /\ sent < MaxCalls
    /\ Idle(kind)
    /\ sent' = sent + 1
    /\ flights' = flights \cup {[kind |-> kind, target |-> target, decision |-> decision,
                                 text |-> IF kind = "check" THEN box ELSE sent + 1,
                                 base |-> IF kind = "summary" THEN Start(Fresh) ELSE page,
                                 offer |-> IF kind = "decide" THEN offer ELSE {}]}
    /\ UNCHANGED <<page, pagePast, pageFuture, preview, attempts, offer, box,
                   decided, vouched, readOnly, revisions>>

(* Mutant: failed tries are counted and nothing else. *)
SuggestLayoutAgain(mode) ==
    /\ ~AiBlockedByUnreviewed
    /\ Call("layout", {}, mode)

SuggestLayout(mode) ==
    /\ ~AiBlockedByUnreviewed
    /\ mode = "resuggest" => attempts < AttemptLimit
    /\ Call("layout", {}, mode)

SuggestIslandSummary(i) ==
    /\ ~AiBlockedByUnreviewed
    /\ Call("summary", {i}, "none")

GenerateRelationSummary == Call("relation", {}, "none")

GenerateNarrative ==
    /\ ~AiBlockedByUnreviewed
    /\ Call("narrative", {}, "none")

CheckNarrativeConsistency ==
    /\ ~AiBlockedByUnreviewed
    /\ Call("check", {}, "none")

(* i is the island selected now, whatever island the offer was made for. *)
AdoptIslandSummaryProposal(i) == offer # {} /\ Call("decide", {i}, "adopt")

RejectIslandSummaryProposal == offer # {} /\ Call("decide", {}, "reject")

HoldIslandSummaryProposal == offer # {} /\ Call("decide", {}, "hold")

-----------------------------------------------------------------------------
(* Answers.                                                                *)

(* Mutant: the model's texts keep the flags they had. *)
SuggestedKeepingFlags(base, text) == [text |-> text, ok |-> base.ok]

(* markSuggestedFieldsUnreviewed: a changed text is unreviewed. *)
Suggested(base, text) == [text |-> text, ok |-> IF text = base.text THEN base.ok ELSE FALSE]

LayoutAnswered(f) ==
    /\ f.kind = "layout"
    /\ \E text \in {f.base.card.text, f.text} : preview' = {Suggested(f.base.card, text)}
    /\ attempts' = IF f.decision = "suggest" THEN 0 ELSE attempts
    /\ UNCHANGED <<page, pagePast, pageFuture, offer, box, decided, revisions>>

SummaryAnswered(f) ==
    /\ f.kind = "summary"
    /\ offer' = {f.text}
    /\ UNCHANGED <<page, pagePast, pageFuture, preview, attempts, box, decided, revisions>>

RelationAnswered(f) ==
    /\ f.kind = "relation"
    /\ Change([f.base EXCEPT !.rel = RelationWithHistory(@, f.text, FALSE)], FALSE)
    /\ UNCHANGED <<attempts, offer, box, decided>>

NarrativeAnswered(f) ==
    /\ f.kind = "narrative"
    /\ Change([f.base EXCEPT !.story = Append(@, f.text)], FALSE)
    /\ box' = f.text
    /\ UNCHANGED <<attempts, offer, decided>>

(* The text of the box goes into the selected narrative, which is the      *)
(* first one until another is chosen.                                      *)
CheckAnswered(f) ==
    /\ f.kind = "check"
    /\ IF f.base.story = <<>> THEN UNCHANGED <<page, pagePast, pageFuture, preview, revisions>>
       ELSE \E n \in DOMAIN f.base.story : Change([f.base EXCEPT !.story[n] = f.text], FALSE)
    /\ UNCHANGED <<attempts, offer, box, decided>>

(* recordProposalDecision, as the editor relies on it: a proposal keeps    *)
(* its first final decision.                                               *)
Records(p, decision) == \A r \in decided : r[1] = p => r[2] = "hold"

Adopted(f) ==
    LET p == CHOOSE q \in f.offer : TRUE
        i == CHOOSE j \in f.target : TRUE
    IN  [f.base EXCEPT !.sum[i] = SummaryWithHistory(@, p, FALSE, FALSE)]

DecisionAnswered(f) ==
    /\ f.kind = "decide"
    /\ \A p \in f.offer : Records(p, f.decision)
    /\ decided' = decided \cup {<<p, f.decision>> : p \in f.offer}
    /\ IF f.decision = "adopt" THEN Change(Adopted(f), FALSE)
       ELSE UNCHANGED <<page, pagePast, pageFuture, preview, revisions>>
    /\ offer' = IF f.decision = "hold" THEN offer ELSE {}
    /\ UNCHANGED <<attempts, box>>

Answered(f) ==
    /\ \/ LayoutAnswered(f) \/ SummaryAnswered(f) \/ RelationAnswered(f)
       \/ NarrativeAnswered(f) \/ CheckAnswered(f) \/ DecisionAnswered(f)
    /\ flights' = flights \ {f}
    /\ UNCHANGED <<vouched, readOnly, sent>>

(* Mutant: the decision is recorded only once the document has changed. *)
FailedAfterChange(f) ==
    /\ f.kind = "decide" /\ f.decision = "adopt"
    /\ Change(Adopted(f), FALSE)
    /\ offer' = {}
    /\ flights' = flights \ {f}
    /\ UNCHANGED <<attempts, decided, box, vouched, readOnly, sent>>

(* A call fails; a decision may have been recorded although its answer is  *)
(* lost.  A failed layout call drops the preview, and a second failed try  *)
(* in a row counts against the stopper.                                    *)
Failed(f) ==
    /\ preview' = IF f.kind = "layout" THEN {} ELSE preview
    /\ attempts' = IF f.kind = "layout" /\ f.decision = "resuggest"
                   THEN attempts + 1 ELSE attempts
    /\ decided' \in IF f.kind = "decide" /\ \A p \in f.offer : Records(p, f.decision)
                    THEN {decided, decided \cup {<<p, f.decision>> : p \in f.offer}}
                    ELSE {decided}
    /\ flights' = flights \ {f}
    /\ UNCHANGED <<page, pagePast, pageFuture, offer, box, vouched, readOnly, sent, revisions>>

DiscardSuggestion ==
    /\ preview' = {} /\ attempts' = 0
    /\ UNCHANGED <<page, pagePast, pageFuture, offer, box, flights, decided, vouched,
                   readOnly, sent, revisions>>

-----------------------------------------------------------------------------
People ==
    \/ CommitCardText \/ PlacardCardTextChange
    \/ IslandTitleChange \/ IslandPlacardCardChange
    \/ RelationSummaryCommit
    \/ \E i \in Islands : IslandSummaryTextChange(i)
    \/ \E ok \in BOOLEAN :
           \/ CardTextReviewedChange(ok) \/ IslandTitleReviewedChange(ok)
           \/ RelationSummaryReviewedChange(ok)
           \/ \E i \in Islands : IslandSummaryReviewedChange(i, ok)
    \/ \E n \in 1..TrailLimit :
           \/ RestoreRelationSummaryHistoryEntry(n)
           \/ \E i \in Islands : RestoreIslandSummaryVersion(i, n)
    \/ Undo \/ Redo \/ DiscardSuggestion

Ask ==
    \/ \E mode \in {"suggest", "resuggest"} : SuggestLayout(mode)
    \/ \E i \in Islands : SuggestIslandSummary(i) \/ AdoptIslandSummaryProposal(i)
    \/ GenerateRelationSummary \/ GenerateNarrative \/ CheckNarrativeConsistency
    \/ RejectIslandSummaryProposal \/ HoldIslandSummaryProposal

Next ==
    \/ People
    \/ Ask
    \/ \E f \in flights : Answered(f) \/ Failed(f)

Spec == Init /\ [][Next]_reviewVars

-----------------------------------------------------------------------------
Pages == {page} \cup ToSet(pagePast) \cup ToSet(pageFuture)

TypeOfPage(d) ==
    /\ d.card \in Piece /\ d.title \in Piece
    /\ \A i \in Islands : d.sum[i] \in Summary
    /\ d.rel \in Summary
    /\ d.story \in Seq(Texts)

(* Documents, trails and proposals are well formed, trails and failed      *)
(* tries within their limits.                                              *)
TypeOK ==
    /\ \A d \in Pages : TypeOfPage(d)
    /\ \A d \in Pages : \A i \in Islands : Len(d.sum[i].trail) <= TrailLimit
    /\ Len(pagePast) <= HistoryLimit
    /\ preview \subseteq Piece
    /\ attempts \in 0..AttemptLimit
    /\ offer \subseteq Texts
    /\ box \in Texts

Vouched(field, p) == p.ok => p.text = Typed \/ <<field, p.text>> \in vouched

(* Whatever a document of the history, its trails or the previewed         *)
(* suggestion shows as reviewed was typed by a person or marked by one in  *)
(* a field of that kind.  No call that is answered late, no adoption, undo *)
(* or restored version makes a machine's text reviewed.                    *)
ReviewedIsVouched ==
    /\ \A d \in Pages :
           /\ Vouched("card", d.card) /\ Vouched("title", d.title)
           /\ \A i \in Islands : /\ Vouched("summary", d.sum[i])
                                 /\ \A e \in ToSet(d.sum[i].trail) : Vouched("summary", e)
           /\ Vouched("relation", d.rel)
           /\ \A e \in ToSet(d.rel.trail) : Vouched("relation", e)
    /\ \A c \in preview : Vouched("card", c)

(* The history a summary is shown with ends in the text that is shown, and *)
(* for relation summaries in its flag too: the trail explains the present  *)
(* also after restores, undo and answers to older documents.               *)
TrailEndsInPresent ==
    \A d \in Pages :
        /\ \A i \in Islands :
               d.sum[i].trail # <<>> => Last(d.sum[i].trail).text = d.sum[i].text
        /\ d.rel.trail # <<>> =>
               Last(d.rel.trail) = [text |-> d.rel.text, ok |-> d.rel.ok]

(* A proposed summary stands in a document only if the server has recorded *)
(* its adoption: recording comes first, and a failed or lost recording     *)
(* leaves the document alone.                                              *)
AdoptedIsDecided ==
    \A d \in Pages : \A i \in Islands :
        d.sum[i].text # Typed => <<d.sum[i].text, "adopt">> \in decided
=============================================================================
