---------------------------- MODULE CanvasEditor ----------------------------
(***************************************************************************)
(* The canvas of the frontend (App.tsx): cards, islands, edges, evidence   *)
(* links, the reading order and the shelf of one open document, edited by  *)
(* handlers that each push one snapshot on the undo history; card drags,   *)
(* which change the document on every pointer move and push one snapshot   *)
(* when the pointer is released; and the selection, which lives beside the *)
(* document and is not rolled back by an undo.                             *)
(*                                                                         *)
(* A card's text and annotations are one bit, its position a member of a   *)
(* small set; identifiers are drawn fresh (crypto.randomUUID) and never    *)
(* reused.  The view shows the whole document, the session may write it,   *)
(* and no layout suggestion is being previewed.                            *)
(***************************************************************************)
EXTENDS Naturals, FiniteSets, Sequences, SequencesExt

CONSTANTS CardIds,        \* identifiers a card may have
          IslandIds,      \* identifiers an island may have
          OldCards,       \* the cards of the document that was opened
          Outer, Inner,   \* the islands it may have
          Places,         \* where a card may lie
          HistoryLimit,   \* HISTORY_LIMIT
          MaxEdits        \* bound: document changes in a behaviour

VARIABLES doc,        \* history.present
          past,       \* history.past
          future,     \* history.future
          snap,       \* pendingCardDragSnapshotRef: a set of at most one document
          dragged,    \* lastDraggedCardIdRef
          cards,      \* selectedCardIds
          island,     \* selectedIslandId
          picking,    \* isPickingEdgeTarget
          editing,    \* editingCardId
          used,       \* identifiers drawn so far
          edits       \* document changes so far

canvasVars == <<doc, past, future, snap, dragged, cards, island, picking, editing,
          used, edits>>

None == "none"

(* Identifiers are UUIDs; a document is opened with at least one card.      *)
ASSUME CanvasAssumption ==
    /\ CardIds \cap IslandIds = {} /\ None \notin CardIds \cup IslandIds
    /\ OldCards \subseteq CardIds /\ OldCards # {}
    /\ Outer \in IslandIds /\ Inner \in IslandIds /\ Outer # Inner
    /\ IsFiniteSet(IslandIds) /\ Places # {}
    /\ HistoryLimit \in Nat /\ MaxEdits \in Nat

Kinds == {"supports", "contradicts"}

Things(d) == d.cards \cup d.islands

TypeOfDoc(d) ==
    /\ d.cards \subseteq CardIds /\ d.islands \subseteq IslandIds
    /\ d.note \in [CardIds -> BOOLEAN]
    /\ d.place \in [CardIds -> Places]
    /\ d.hold \in [CardIds -> {None, "held", "shelved"}]
    /\ d.into \in [CardIds -> CardIds \cup {None}]
    /\ d.shelf \subseteq CardIds
    /\ d.member \in [IslandIds -> SUBSET CardIds]
    /\ d.parent \in [IslandIds -> IslandIds \cup {None}]
    /\ d.edges \subseteq (CardIds \cup IslandIds) \X (CardIds \cup IslandIds)
    /\ d.links \subseteq CardIds \X CardIds \X Kinds
    /\ ToSet(d.order) \subseteq CardIds \cup IslandIds

Nowhere == CHOOSE p \in Places : TRUE

(* A document with its cards in its first island. *)
Plain ==
    [cards   |-> OldCards,
     note    |-> [c \in CardIds |-> FALSE],
     place   |-> [c \in CardIds |-> Nowhere],
     hold    |-> [c \in CardIds |-> None],
     into    |-> [c \in CardIds |-> None],
     shelf   |-> {},
     islands |-> {Outer},
     member  |-> [i \in IslandIds |-> IF i = Outer THEN OldCards ELSE {}],
     parent  |-> [i \in IslandIds |-> None],
     edges   |-> {},
     links   |-> {},
     order   |-> <<>>]

(* A document somebody has worked on: nested islands, a shelved card, a     *)
(* contradiction and a reading order.                                      *)
Worked(c) ==
    [Plain EXCEPT
       !.islands = {Outer, Inner}, !.parent[Inner] = Outer,
       !.member = [i \in IslandIds |-> IF i = Outer THEN OldCards \ {c}
                                       ELSE IF i = Inner THEN {c} ELSE {}],
       !.hold[c] = "shelved", !.shelf = {c},
       !.links = {<<c, d, "contradicts">> : d \in OldCards \ {c}},
       !.order = <<Inner, c>>]

CanvasInit ==
    /\ doc \in {Plain, Worked(CHOOSE c \in OldCards : TRUE)} /\ past = <<>> /\ future = <<>>
    /\ snap = {} /\ dragged = None
    /\ cards = {} /\ island = None /\ picking = FALSE /\ editing = None
    /\ used = Things(doc) /\ edits = 0

-----------------------------------------------------------------------------
(* The history and what follows every change of it.                        *)

(* Only the newest HistoryLimit snapshots are kept. *)
Trimmed(s) == SubSeq(s, Len(s) - (IF Len(s) > HistoryLimit THEN HistoryLimit
                                  ELSE Len(s)) + 1, Len(s))

(* Mutant: a change leaves the snapshot of a drag under way. *)
ApplyKeepingSnapshot(d) ==
    /\ edits < MaxEdits
    /\ past' = Trimmed(Append(past, doc))
    /\ doc' = d
    /\ future' = <<>>
    /\ snap' = snap
    /\ edits' = edits + 1

(* applyDocumentChange: the present goes to the past, a redo is forfeited   *)
(* and a drag under way loses its snapshot.                                 *)
Apply(d) ==
    /\ edits < MaxEdits
    /\ past' = Trimmed(Append(past, doc))
    /\ doc' = d
    /\ future' = <<>>
    /\ snap' = {}
    /\ edits' = edits + 1

(* Mutant: the selected island is not looked up again. *)
KeptAlways(i, d) == i

(* The entries of s that are in S, in their order. *)
Keeping(s, S) ==
    LET upto[n \in 0..Len(s)] ==
            IF n = 0 THEN <<>>
            ELSE IF s[n] \in S THEN Append(upto[n - 1], s[n]) ELSE upto[n - 1]
    IN  upto[Len(s)]

Dropping(s, e) == Keeping(s, ToSet(s) \ {e})

(* The effect that drops a selected island the document no longer has. *)
Kept(i, d) == IF i \in d.islands THEN i ELSE None

(* A change that leaves the selection to the pruning effect. *)
ApplyInPlace(d) ==
    /\ Apply(d)
    /\ island' = Kept(island, d)
    /\ UNCHANGED <<dragged, cards, picking, editing, used>>

Quiet == UNCHANGED <<doc, past, future, snap, dragged, used, edits>>

-----------------------------------------------------------------------------
(* Selection and connecting.                                               *)

(* What an edge would start from: the selected island alone, or the only   *)
(* selected card.                                                          *)
Sources ==
    IF island # None /\ cards = {} THEN {island}
    ELSE IF island = None /\ Cardinality(cards) = 1 THEN cards ELSE {}

Connect(target) ==
    \E s \in Sources :
        /\ s # target
        /\ Apply([doc EXCEPT !.edges = @ \cup {<<s, target>>}])
        /\ picking' = FALSE
        /\ UNCHANGED <<dragged, cards, island, editing, used>>

SelectCard(c, shift) ==
    /\ c \in doc.cards /\ ~picking
    /\ cards' = IF ~shift THEN {c}
                ELSE IF c \in cards THEN cards \ {c} ELSE cards \cup {c}
    /\ UNCHANGED <<island, picking, editing>> /\ Quiet

SelectIsland(i) ==
    /\ i \in doc.islands /\ ~picking
    /\ island' = i
    /\ UNCHANGED <<cards, picking, editing>> /\ Quiet

Pick(target) ==
    /\ picking /\ target \in Things(doc)
    /\ Connect(target)

(* The marquee; what encloses at most one card a click selects as well. *)
Marquee(S, shift) ==
    /\ ~picking
    /\ cards' = IF shift THEN cards \cup S ELSE S
    /\ UNCHANGED <<island, picking, editing>> /\ Quiet

(* A click on the background; Escape also ends picking. *)
ClearSelection ==
    /\ ~picking
    /\ cards' = {} /\ island' = None
    /\ UNCHANGED <<picking, editing>> /\ Quiet

StartConnect ==
    /\ ~picking /\ Sources # {}
    /\ picking' = TRUE
    /\ UNCHANGED <<cards, island, editing>> /\ Quiet

ConnectFromCard(c) ==
    /\ c \in doc.cards
    /\ cards' = {c} /\ island' = None /\ picking' = TRUE
    /\ UNCHANGED editing /\ Quiet

CancelConnect ==
    /\ picking /\ picking' = FALSE
    /\ UNCHANGED <<cards, island, editing>> /\ Quiet

EditCard(c) ==
    /\ c \in doc.cards
    /\ cards' = {c} /\ island' = None /\ editing' = c
    /\ UNCHANGED picking /\ Quiet

-----------------------------------------------------------------------------
(* Cards.                                                                  *)

CreateCard(c, p) ==
    /\ c \in CardIds \ used
    /\ Apply([doc EXCEPT !.cards = @ \cup {c}, !.place[c] = p])
    /\ used' = used \cup {c}
    /\ cards' = {c} /\ island' = None /\ editing' = c
    /\ UNCHANGED <<dragged, picking>>

(* The inline editor closes; a text that changes a card the document still *)
(* has becomes a history step.                                             *)
CommitCardText(changed) ==
    /\ editing # None
    /\ editing' = None
    /\ IF changed /\ editing \in doc.cards
       THEN /\ Apply([doc EXCEPT !.note[editing] = ~@])
            /\ UNCHANGED <<dragged, cards, island, picking, used>>
       ELSE UNCHANGED <<cards, island, picking>> /\ Quiet

(* Critique, source, KA and claim type: one card, and a step only when the *)
(* value changes.                                                          *)
AnnotateCard(c) ==
    /\ c \in doc.cards
    /\ ApplyInPlace([doc EXCEPT !.note[c] = ~@])

(* The same fields over a selection of two or more, as one step. *)
AnnotateSelection(value) ==
    /\ Cardinality(cards) > 1
    /\ \E c \in cards \cap doc.cards : doc.note[c] # value
    /\ ApplyInPlace([doc EXCEPT !.note =
           [c \in CardIds |-> IF c \in cards \cap doc.cards THEN value ELSE @[c]]])

(* Mutant: only releasing a card takes it off the shelf. *)
HoldKeepingShelf(d, S, h) ==
    [d EXCEPT !.hold = [c \in CardIds |-> IF c \in S \cap d.cards THEN h ELSE @[c]],
              !.shelf = IF h = "shelved" THEN @ \cup S
                        ELSE IF h = None THEN @ \ S ELSE @]

(* updateCardHoldStateAndShelf: the flag follows the card, the shelf the   *)
(* identifier.                                                             *)
Hold(d, S, h) ==
    [d EXCEPT !.hold = [c \in CardIds |-> IF c \in S \cap d.cards THEN h ELSE @[c]],
              !.shelf = IF h = "shelved" THEN @ \cup S ELSE @ \ S]

HoldCard(c, h) ==
    /\ c \in doc.cards
    /\ h = "shelved" => doc.hold[c] # h \/ c \notin doc.shelf
    /\ ApplyInPlace(Hold(doc, {c}, h))

(* Releases the selection when all of it is held, and holds it otherwise. *)
HoldSelection ==
    /\ Cardinality(cards) > 1
    /\ LET present == cards \cap doc.cards
           allHeld == present # {} /\ \A c \in present : doc.hold[c] = "held"
       IN  ApplyInPlace(Hold(doc, cards, IF allHeld THEN None ELSE "held"))

RestoreShelved(c) ==
    /\ c \in doc.shelf
    /\ Apply(Hold(doc, {c}, None))
    /\ cards' = {c}
    /\ UNCHANGED <<dragged, island, picking, editing, used>>

(* Arrow keys, alignment and distribution move the selection in one step. *)
MoveSelection(p) ==
    /\ \E c \in cards \cap doc.cards : doc.place[c] # p
    /\ ApplyInPlace([doc EXCEPT !.place =
           [c \in CardIds |-> IF c \in cards \cap doc.cards THEN p ELSE @[c]]])

-----------------------------------------------------------------------------
(* Dragging.                                                               *)

DragCard(c, p) ==
    /\ c \in doc.cards /\ doc.place[c] # p
    /\ edits < MaxEdits
    /\ snap' = IF snap = {} THEN {doc} ELSE snap
    /\ dragged' = c
    /\ doc' = [doc EXCEPT !.place[c] = p]
    /\ edits' = edits + 1
    /\ UNCHANGED <<past, future, cards, island, picking, editing, used>>

(* Mutant: the card joins without leaving. *)
JoinIsland(d, c, i) == [d EXCEPT !.member[i] = @ \cup {c}]

(* moveCardToIsland: in one island and out of every other. *)
MoveCardToIsland(d, c, i) ==
    [d EXCEPT !.member = [j \in IslandIds |-> IF j = i THEN @[j] \cup {c}
                                              ELSE @[j] \ {c}]]

(* pointerup: the whole drag is one step, and the card joins the island it *)
(* was dropped on.                                                         *)
DropTargets == {i \in doc.islands : dragged \notin doc.member[i]
                                    /\ doc.member[i] \cap doc.cards # {}}

Drop(onto) ==
    /\ dragged' = None /\ snap' = {}
    /\ IF snap = {} THEN UNCHANGED <<doc, past, future>>
       ELSE /\ onto # None => onto \in DropTargets /\ dragged \in doc.cards
            /\ past' = Trimmed(past \o SetToSeq(snap))
            /\ doc' = IF onto = None THEN doc
                      ELSE MoveCardToIsland(doc, dragged, onto)
            /\ future' = <<>>
    /\ UNCHANGED <<cards, island, picking, editing, used, edits>>

-----------------------------------------------------------------------------
(* Islands.                                                                *)

CreateIsland(i) ==
    /\ i \in IslandIds \ used
    /\ cards # {}
    /\ Apply([doc EXCEPT !.islands = @ \cup {i}, !.member[i] = cards])
    /\ used' = used \cup {i}
    /\ cards' = {} /\ island' = i
    /\ UNCHANGED <<dragged, picking, editing>>

AddSelectedTo(i) ==
    /\ i \in doc.islands
    /\ ~ (cards \subseteq doc.member[i])
    /\ ApplyInPlace([doc EXCEPT !.member[i] = @ \cup cards])

RemoveSelectedFrom(i) ==
    /\ i = island /\ i \in doc.islands
    /\ cards \cap doc.member[i] # {}
    /\ ApplyInPlace([doc EXCEPT !.member[i] = @ \ cards])

(* Following parents from i, as far as the document knows them. *)
Above(d, i) ==
    LET up[n \in 0..Cardinality(IslandIds)] ==
            IF n = 0 THEN {i}
            ELSE up[n - 1] \cup {d.parent[j] : j \in up[n - 1] \cap d.islands}
    IN  up[Cardinality(IslandIds)]

SetParent(i, p) ==
    /\ i \in doc.islands
    /\ p # None => p \in doc.islands \ {i} /\ i \notin Above(doc, p)
    /\ ApplyInPlace([doc EXCEPT !.parent[i] = p])

Without(d, gone) ==
    [d EXCEPT !.islands = @ \ gone,
              !.member = [i \in IslandIds |-> IF i \in gone THEN {} ELSE @[i]],
              !.parent = [i \in IslandIds |-> IF i \in gone THEN None ELSE @[i]]]

DeleteIsland(i) ==
    /\ i \in doc.islands
    /\ ApplyInPlace([Without(doc, {i}) EXCEPT !.order = Dropping(@, i)])

(* Mutant: evidence links of deleted cards stay. *)
WithoutCardsOnly(d, S) ==
    LET member == [i \in IslandIds |-> d.member[i] \ S]
        empty == {i \in d.islands : member[i] = {}}
    IN  [Without([d EXCEPT !.member = member], empty) EXCEPT
           !.cards = @ \ S,
           !.hold = [c \in CardIds |-> IF c \in S THEN None ELSE @[c]],
           !.edges = {e \in @ : e[1] \notin S /\ e[2] \notin S},
           !.order = Keeping(@, ToSet(@) \ (S \cup empty))]

(* Delete: the selected cards, their edges, links and reading order        *)
(* entries, and the islands left without cards.                            *)
WithoutCards(d, S) ==
    LET member == [i \in IslandIds |-> d.member[i] \ S]
        empty == {i \in d.islands : member[i] = {}}
        kept == (d.cards \ S) \cup (d.islands \ empty)
    IN  [Without([d EXCEPT !.member = member], empty) EXCEPT
           !.cards = @ \ S,
           !.note = [c \in CardIds |-> IF c \in S THEN FALSE ELSE @[c]],
           !.place = [c \in CardIds |-> IF c \in S THEN Nowhere ELSE @[c]],
           !.hold = [c \in CardIds |-> IF c \in S THEN None ELSE @[c]],
           !.into = [c \in CardIds |-> IF c \in S THEN None ELSE @[c]],
           !.edges = {e \in @ : e[1] \notin S /\ e[2] \notin S},
           !.links = {l \in @ : l[1] \notin S /\ l[2] \notin S},
           !.order = Keeping(@, kept)]

DeleteSelection ==
    IF cards # {}
    THEN /\ cards \cap doc.cards # {}
         /\ LET d == WithoutCards(doc, cards)
            IN  Apply(d) /\ island' = Kept(island, d)
         /\ cards' = {}
         /\ UNCHANGED <<dragged, picking, editing, used>>
    ELSE DeleteIsland(island)

-----------------------------------------------------------------------------
(* Evidence, reading order and representatives.                            *)

AddLink(c, d, k) ==
    /\ {c, d} \subseteq doc.cards /\ c # d
    /\ <<c, d, k>> \notin doc.links
    /\ ApplyInPlace([doc EXCEPT !.links = @ \cup {<<c, d, k>>}])

RemoveLink(l) ==
    /\ l \in doc.links
    /\ ApplyInPlace([doc EXCEPT !.links = @ \ {l}])

AppendToOrder(e) ==
    /\ e \in Things(doc) /\ ~picking
    /\ e \notin ToSet(doc.order)
    /\ ApplyInPlace([doc EXCEPT !.order = Append(@, e)])

(* moveReadingOrderEntry: e is taken out and put before or after t. *)
MoveInOrder(e, t, before) ==
    /\ {e, t} \subseteq ToSet(doc.order) /\ e # t
    /\ LET rest == Dropping(doc.order, e)
           at == CHOOSE n \in 1..Len(rest) : rest[n] = t
       IN  ApplyInPlace([doc EXCEPT !.order =
               InsertAt(rest, IF before THEN at ELSE at + 1, e)])

RemoveFromOrder(e) ==
    /\ e \in ToSet(doc.order)
    /\ ApplyInPlace([doc EXCEPT !.order = Dropping(@, e)])

(* createRepresentativeMerge: refused when a card is missing, held, already *)
(* merged or contradicted by another of them.                              *)
MergeConflict(S) ==
    \/ ~ (S \subseteq doc.cards)
    \/ \E c \in S : doc.hold[c] # None \/ doc.into[c] # None
    \/ \E l \in doc.links : l[3] = "contradicts" /\ {l[1], l[2]} \subseteq S

Projected(S, r) ==
    {<<r, e[2]>> : e \in {x \in doc.edges : x[1] \in S /\ x[2] \notin S}}
        \cup {<<e[1], r>> : e \in {x \in doc.edges : x[1] \notin S /\ x[2] \in S}}

Represent(r, rewire) ==
    /\ r \in CardIds \ used
    /\ Cardinality(cards) > 1 /\ ~MergeConflict(cards)
    /\ Apply([doc EXCEPT
           !.cards = @ \cup {r},
           !.into = [c \in CardIds |-> IF c \in cards THEN r ELSE @[c]],
           !.member = [i \in IslandIds |-> IF rewire /\ @[i] \cap cards # {}
                                           THEN @[i] \cup {r} ELSE @[i]],
           !.edges = IF rewire THEN @ \cup Projected(cards, r) ELSE @])
    /\ used' = used \cup {r}
    /\ cards' = {r} /\ island' = None
    /\ UNCHANGED <<dragged, picking, editing>>

-----------------------------------------------------------------------------
(* Undo and redo: the document goes back, the card selection does not.     *)

Undo ==
    /\ past # <<>>
    /\ snap' = {}
    /\ past' = Front(past) /\ doc' = Last(past) /\ future' = <<doc>> \o future
    /\ island' = Kept(island, doc')
    /\ UNCHANGED <<dragged, cards, picking, editing, used, edits>>

Redo ==
    /\ future # <<>>
    /\ snap' = {}
    /\ past' = Trimmed(Append(past, doc)) /\ doc' = Head(future)
    /\ future' = Tail(future)
    /\ island' = Kept(island, doc')
    /\ UNCHANGED <<dragged, cards, picking, editing, used, edits>>

(* discardLatestDocumentChange: undone for good. *)
DiscardLatest ==
    /\ past # <<>>
    /\ snap' = {}
    /\ past' = Front(past) /\ doc' = Last(past) /\ future' = <<>>
    /\ island' = Kept(island, doc')
    /\ UNCHANGED <<dragged, cards, picking, editing, used, edits>>

-----------------------------------------------------------------------------
Select ==
    \/ \E c \in CardIds, shift \in BOOLEAN : SelectCard(c, shift)
    \/ \E i \in IslandIds : SelectIsland(i)
    \/ \E S \in {T \in SUBSET doc.cards : Cardinality(T) > 1}, shift \in BOOLEAN :
           Marquee(S, shift)
    \/ ClearSelection
    \/ StartConnect
    \/ CancelConnect
    \/ \E c \in CardIds : ConnectFromCard(c) \/ EditCard(c)

EditCards ==
    \/ \E c \in CardIds, p \in Places : CreateCard(c, p)
    \/ \E changed \in BOOLEAN : CommitCardText(changed)
    \/ \E c \in CardIds : AnnotateCard(c)
    \/ \E value \in BOOLEAN : AnnotateSelection(value)
    \/ \E c \in CardIds, h \in {None, "held", "shelved"} : HoldCard(c, h)
    \/ HoldSelection
    \/ \E c \in CardIds : RestoreShelved(c)
    \/ \E p \in Places : MoveSelection(p)
    \/ \E c \in CardIds, p \in Places : DragCard(c, p)
    \/ \E onto \in IslandIds \cup {None} : Drop(onto)
    \/ \E r \in CardIds, rewire \in BOOLEAN : Represent(r, rewire)

EditStructure ==
    \/ \E t \in CardIds \cup IslandIds : Pick(t)
    \/ \E i \in IslandIds : CreateIsland(i) \/ AddSelectedTo(i) \/ DeleteIsland(i)
    \/ \E i \in IslandIds : RemoveSelectedFrom(i)
    \/ \E i \in IslandIds, p \in IslandIds \cup {None} : SetParent(i, p)
    \/ DeleteSelection
    \/ \E c, d \in CardIds, k \in Kinds : AddLink(c, d, k)
    \/ \E l \in doc.links : RemoveLink(l)
    \/ \E e \in Things(doc) : AppendToOrder(e) \/ RemoveFromOrder(e)
    \/ \E e, t \in ToSet(doc.order), before \in BOOLEAN : MoveInOrder(e, t, before)

CanvasNext ==
    \/ Select
    \/ EditCards
    \/ EditStructure
    \/ Undo
    \/ Redo
    \/ DiscardLatest

CanvasSpec == CanvasInit /\ [][CanvasNext]_canvasVars

-----------------------------------------------------------------------------
Documents == {doc} \cup ToSet(past) \cup ToSet(future) \cup snap

(* The state of the canvas and of its history is well formed, the history  *)
(* within its limit.                                                       *)
CanvasTypeOK ==
    /\ \A d \in Documents : TypeOfDoc(d)
    /\ Len(past) <= HistoryLimit
    /\ Cardinality(snap) <= 1
    /\ dragged \in CardIds \cup {None}
    /\ cards \subseteq CardIds
    /\ island \in doc.islands \cup {None}
    /\ picking \in BOOLEAN
    /\ editing \in CardIds \cup {None}
    /\ used \subseteq CardIds \cup IslandIds
    /\ edits \in 0..MaxEdits

(* Every document of the history can be shown as it is: its evidence links *)
(* join two different cards it has, its reading order names each of its    *)
(* cards and islands at most once, and no island lies inside itself.       *)
(* deleteSelection, the representative merge, the parent check and the     *)
(* undo of any of them have to agree on this.                              *)
ReferencesSound ==
    \A d \in Documents :
        /\ \A l \in d.links : {l[1], l[2]} \subseteq d.cards /\ l[1] # l[2]
        /\ ToSet(d.order) \subseteq Things(d)
        /\ Cardinality(ToSet(d.order)) = Len(d.order)
        /\ \A i \in d.islands :
               d.parent[i] # None => i \notin Above(d, d.parent[i])

(* While a drag is pending its snapshot differs from the document in       *)
(* nothing but where cards lie, so that releasing the pointer records one  *)
(* step whose undo gives back the document from before the drag and takes  *)
(* no other edit with it.                                                  *)
DragOnlyMoves ==
    \A s \in snap : [s EXCEPT !.place = doc.place] = doc

(* A card the document has is on the shelf exactly when it is marked       *)
(* shelved, so the shelf panel and the card agree, whatever is held,       *)
(* restored, merged, deleted, undone or redone.                            *)
ShelfMatchesMark ==
    \A d \in Documents : \A c \in d.cards :
        c \in d.shelf <=> d.hold[c] = "shelved"

(* The strict validator (validate_doc.ts), which every document attached   *)
(* to an inquiry round has to pass, rejects a shelf entry for a card the   *)
(* document does not have; the editor never leaves one.                    *)
ShelfNamesCards == \A d \in Documents : d.shelf \subseteq d.cards

(* A drop that changes island membership leaves the dropped card in one    *)
(* island: the one it was dropped on, whatever islands it was in before    *)
(* the drag and whatever happened while it lasted.                         *)
DropNeverSplits ==
    [][dragged # None /\ dragged' = None /\ doc'.member # doc.member =>
           Cardinality({i \in doc'.islands : dragged \in doc'.member[i]}) = 1]_canvasVars
=============================================================================
