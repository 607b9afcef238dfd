------------------------------- MODULE CanvasView -------------------------------
(* What of the open document the canvas shows. The application keeps the       *)
(* view (collapsed islands, focus, depth, summary, perspective, filters,       *)
(* reveals, peek, presets, mode) in state of its own beside the document; the  *)
(* sets of hidden cards and visible islands are derived from both at every     *)
(* rendering, and effects that watch one part of the state correct another.    *)
(* An action is a handler followed by its effects, run until nothing changes:  *)
(* four rounds are enough.                                                     *)
EXTENDS Integers, Sequences, FiniteSets, FiniteSetsExt

CONSTANTS
    DocIds, Islands, Cards,
    Chain,         \* [Islands -> Seq(Islands)], the islands around one, innermost first
    Home,          \* [Cards -> SUBSET Islands], the islands that list a card
    Structure,     \* [DocIds -> SUBSET Islands], as first loaded
    Placard,       \* [Islands -> Cards \cup {Nowhere}]
    Facts, Shelved, Merged, Matched, StateMatched,   \* sets of cards
    Grounding,     \* [Islands -> SUBSET Cards], the cards a summary rests on
    File,          \* a view metadata file: a patch
    MaxActions     \* bound on the operations of a behaviour

VARIABLES
    ui,        \* the open document and the view of it
    stored,    \* [DocIds -> document], as last saved
    storedMode,\* [DocIds -> mode], what storage remembers of each document
    past, future,   \* documents to undo and redo to
    reading,   \* the document a metadata file is being read for, or NoDocument
    drift,     \* how collapsed islands of view and document came to differ
    actions

viewVars == <<ui, stored, storedMode, past, future, reading, drift, actions>>

Nowhere == "nowhere"
All == 9
Levels == {"overview", "mid", "detail"}
Modes == {"explore", "review", "summary"}

---------------------------------------------------------------------------
(* Derived from the document. *)

(* The islands of S around i: a deleted island breaks the chain. *)
Above(i, S) ==
    {Chain[i][k] : k \in {n \in 1..Len(Chain[i]) : \A m \in 1..n : Chain[i][m] \in S}}

(* The islands of S that are one of R or lie inside one. *)
Below(R, S) == {i \in S : i \in R \/ Above(i, S) \cap R # {}}

ChildrenOf(p) == {i \in Islands : Chain[i] # <<>> /\ Chain[i][1] = p}

Depth(i, S) == Cardinality(Above(i, S))

(* The smallest depth of the islands a card is listed in. *)
CardDepth(c, S) == IF Home[c] \cap S = {} THEN 0 ELSE Min({Depth(i, S) : i \in Home[c] \cap S})

CardsIn(S) == {c \in Cards : Home[c] \cap S # {}}

(* Deleting an island leaves its cards in the document. *)
CardsOf(d) == {c \in Cards : Home[c] = {} \/ Home[c] \cap Structure[d.id] # {}}

MaxAvailable(d) == IF d.islands = {} THEN 0 ELSE Max({Depth(i, d.islands) : i \in d.islands})

---------------------------------------------------------------------------
(* Derived from document and view, as rendered. *)

HasFocus(s) == s.focus \in s.document.islands

ScopeIslands(s) ==
    IF HasFocus(s) THEN Below({s.focus}, s.document.islands) ELSE s.document.islands

ScopeCards(s) ==
    IF HasFocus(s) THEN CardsIn(ScopeIslands(s)) ELSE CardsOf(s.document)

RevealedIslands(s) == {i \in s.document.islands : \E c \in s.reveal : i \in Home[c]}

(* collectCollapsedIslandIds: what lies inside a collapsed island is        *)
(* collapsed. The islands outside the focus are not looked at.              *)
CollapsedInScope(s) == Below(s.collapsed, ScopeIslands(s))

EffectiveCollapsed(s) ==
    (IF s.summary \/ (s.lod /\ s.far) THEN ScopeIslands(s) ELSE CollapsedInScope(s))
        \ (RevealedIslands(s) \cup s.summaryReveal \cup {s.peek})

DepthHidden(s) == {c \in ScopeCards(s) : CardDepth(c, s.document.islands) > s.maxDepth}

CollapseHidden(s) ==
    CardsIn(Below(EffectiveCollapsed(s), ScopeIslands(s))) \ CardsIn({s.peek})

SummaryHidden(s) ==
    IF (s.summary /\ s.focus = Nowhere) \/ s.abstract
    THEN CardsIn(ScopeIslands(s) \ (s.summaryReveal \cup RevealedIslands(s) \cup {s.peek}))
    ELSE {}

FilterHidden(s) ==
    {c \in ScopeCards(s) :
        \/ "search" \in s.filters /\ c \notin Matched
        \/ "state" \in s.filters /\ c \notin StateMatched
        \/ "merged" \in s.filters /\ c \in Merged}

(* A temporary reveal overrides all but depth and shelf. *)
HiddenCards(s) ==
    (CollapseHidden(s) \cup SummaryHidden(s) \cup FilterHidden(s) \cup DepthHidden(s) \cup Shelved)
        \ (s.reveal \ (DepthHidden(s) \cup Shelved))

PlacardHidden(s) ==
    IF s.level = "overview" THEN CardsIn(ScopeIslands(s)) \ {Placard[i] : i \in ScopeIslands(s)} ELSE {}

PerspectiveHidden(s) ==
    IF s.perspective = "facts" /\ s.strict THEN ScopeCards(s) \ Facts ELSE {}

VisibleCards(s) ==
    ScopeCards(s) \ (HiddenCards(s) \cup PlacardHidden(s) \cup PerspectiveHidden(s))

VisibleIslands(s) ==
    {i \in ScopeIslands(s) : Depth(i, s.document.islands) <= s.maxDepth}
        \ UNION {ChildrenOf(p) : p \in EffectiveCollapsed(s)}

---------------------------------------------------------------------------
(* Presets. A patch is a function on some of the fields of the view. *)

ResolveLevel(n) == IF n = All THEN "detail" ELSE IF n <= 0 THEN "overview" ELSE "mid"

LevelDepth(l) == CASE l = "overview" -> 0 [] l = "mid" -> 1 [] OTHER -> All

DefaultPatch(mode) ==
    CASE mode = "explore" ->
           [summary |-> FALSE, abstract |-> FALSE, maxDepth |-> All,
            perspective |-> "default", strict |-> FALSE, lod |-> FALSE]
      [] mode = "review" -> [perspective |-> "review", strict |-> FALSE, lod |-> FALSE]
      [] mode = "summary" ->
           [summary |-> TRUE, abstract |-> TRUE, maxDepth |-> 1, focus |-> Nowhere,
            perspective |-> "default", strict |-> FALSE, lod |-> TRUE]

PatchFields ==
    {"level", "summary", "abstract", "maxDepth", "focus", "collapsed", "lod", "perspective", "strict"}

CaptureView(s) == [f \in PatchFields |-> s[f]]

(* Every field a patch has is set. *)
Over(p, s) == [f \in DOMAIN s |-> IF f \in DOMAIN p THEN p[f] ELSE s[f]]

(* resolveSummaryAbstractFromPatch: an abstract map implies the summary. *)
SummaryOfPatch(s, p) == Over(p, s).summary \/ Over(p, s).abstract

(* A level decides the depth, unless the patch has one of its own. *)
DepthOfPatch(s, p) ==
    IF "level" \in DOMAIN p /\ "maxDepth" \notin DOMAIN p THEN LevelDepth(p.level) ELSE Over(p, s).maxDepth

ApplyViewPatch(s, p) ==
    [Over(p, s) EXCEPT !.summary = SummaryOfPatch(s, p), !.maxDepth = DepthOfPatch(s, p)]

(* Chains agree with one another. A file was written by the application,   *)
(* so that its level is the one of its depth.                              *)
ASSUME ViewAssumption ==
    /\ IsFiniteSet(Islands) /\ Nowhere \notin Islands \cup DocIds
    /\ Chain \in [Islands -> Seq(Islands)]
    /\ \A i \in Islands : \A k \in 1..Len(Chain[i]) :
          Chain[Chain[i][k]] = SubSeq(Chain[i], k + 1, Len(Chain[i]))
    /\ Structure \in [DocIds -> SUBSET Islands] /\ Home \in [Cards -> SUBSET Islands]
    /\ DOMAIN File = PatchFields /\ File.collapsed \subseteq Islands
    /\ File.maxDepth \in Nat /\ File.level = ResolveLevel(File.maxDepth)
    /\ {File.summary, File.abstract} \subseteq BOOLEAN

---------------------------------------------------------------------------
(* Effects. s is the state just rendered, w the one rendered before it.    *)

NewDocument(s, w) == s.document.id # w.document.id

CollapsedAfterPruning(s, w) ==
    IF s.document # w.document THEN s.collapsed \cap s.document.islands ELSE s.collapsed

(* On another document the collapsed islands come from an imported file or *)
(* from the document; on a change of the same one deleted islands go.      *)
CollapsedAfter(s, w) ==
    IF NewDocument(s, w)
    THEN IF s.imported.id = s.document.id
         THEN s.imported.collapsed \cap s.document.islands
         ELSE Below(s.document.collapsed, s.document.islands)
    ELSE IF s.document # w.document THEN s.collapsed \cap s.document.islands
    ELSE s.collapsed

NothingImported == [id |-> Nowhere, collapsed |-> {}]

ImportedAfter(s, w) ==
    IF NewDocument(s, w) /\ s.imported.id = s.document.id THEN NothingImported ELSE s.imported

ClampedDepth(s) ==
    LET available == MaxAvailable(s.document)
    IN  IF s.maxDepth # All /\ s.maxDepth > available /\ available > 0
        THEN available ELSE s.maxDepth

KeptIfVisible(i, s) == IF i \in VisibleIslands(s) THEN i ELSE Nowhere

(* The effect that applies the preset of the mode watches its handler,     *)
(* which is made anew when a document, a preset, the summary or the        *)
(* abstract map changes.                                                   *)
ReappliesMode(s, w) ==
    \/ s.mode # w.mode \/ NewDocument(s, w) \/ s.stamp # w.stamp
    \/ s.summary # w.summary \/ s.abstract # w.abstract

(* The effects that keep each part of the view in step with the others.    *)
Corrected(s, w) ==
    [s EXCEPT
        !.collapsed = CollapsedAfter(s, w),
        !.imported = ImportedAfter(s, w),
        !.peek = IF @ \in ScopeIslands(s) THEN @ ELSE Nowhere,
        !.maxDepth = ClampedDepth(s),
        !.level = IF s.maxDepth # w.maxDepth THEN ResolveLevel(s.maxDepth) ELSE @,
        !.selected = KeptIfVisible(s.selected, s),
        !.focus = IF NewDocument(s, w) THEN Nowhere ELSE KeptIfVisible(s.focus, s),
        !.history = IF NewDocument(s, w) THEN <<>> ELSE @,
        !.reveal = IF NewDocument(s, w) THEN {} ELSE @,
        !.summaryReveal = IF s.summary THEN @ \cap ScopeIslands(s) ELSE {},
        !.filters = IF NewDocument(s, w) THEN {} ELSE @]

Round(s, w) ==
    IF ReappliesMode(s, w)
    THEN [ApplyViewPatch(Corrected(s, w), DefaultPatch(s.mode)) EXCEPT !.active = s.mode]
    ELSE Corrected(s, w)

---------------------------------------------------------------------------
NoDocument == [id |-> Nowhere, islands |-> {}, collapsed |-> {}]

NewDoc(id) == [id |-> id, islands |-> Structure[id], collapsed |-> {}]

InitView(d) ==
    [document |-> d, collapsed |-> {}, imported |-> NothingImported, focus |-> Nowhere, history |-> <<>>,
     maxDepth |-> All, level |-> "detail", summary |-> FALSE, abstract |-> FALSE, peek |-> Nowhere,
     reveal |-> {}, summaryReveal |-> {}, perspective |-> "default", strict |-> FALSE,
     lod |-> FALSE, far |-> FALSE, filters |-> {}, selected |-> Nowhere,
     mode |-> "explore", saved |-> <<>>, active |-> "explore", stamp |-> 0]

(* The document opened first may have been stored with islands collapsed. *)
ViewInit ==
    /\ \E id \in DocIds, i \in Islands \cup {Nowhere} :
          LET d == [NewDoc(id) EXCEPT !.collapsed = {i} \cap Structure[id]]
          IN  /\ ui = [InitView(d) EXCEPT !.collapsed = Below(d.collapsed, d.islands)]
              /\ stored = [x \in DocIds |-> IF x = id THEN d ELSE NewDoc(x)]
    /\ storedMode = [x \in DocIds |-> "explore"]
    /\ past = <<>> /\ future = <<>> /\ reading = NoDocument /\ drift = {} /\ actions = 0

(* A handler sets the state to s. Effects set state, that renders again,   *)
(* and effects run again: each rendering follows from the two before it.   *)
Set(s) ==
    /\ actions < MaxActions /\ actions' = actions + 1
    /\ \E s0 \in {s} : \E s1 \in {Round(s0, ui)} : \E s2 \in {Round(s1, s0)} :
          \E s3 \in {Round(s2, s1)} : ui' = Round(s3, s2)
    /\ storedMode' = [storedMode EXCEPT ![ui'.document.id] = ui'.mode]

SetView(s) == Set(s) /\ UNCHANGED <<stored, past, future, reading, drift>>

(* The handler also changed the document, which can be undone. *)
SetDocument(s) ==
    /\ Set(s)
    /\ UNCHANGED <<stored, reading>>
    /\ IF s.document = ui.document THEN UNCHANGED <<past, future>>
       ELSE past' = Append(past, ui.document) /\ future' = <<>>

---------------------------------------------------------------------------
(* Collapsing. *)

(* Expanding an island leaves those inside it as they are: collapsed in the *)
(* view when they came collapsed with the document around them.             *)
SetIslandCollapsed(i, collapse) ==
    LET next == IF collapse THEN ui.collapsed \cup {i} ELSE ui.collapsed \ {i}
        flags == IF collapse THEN ui.document.collapsed \cup {i} ELSE ui.document.collapsed \ {i}
    IN  /\ i \in ui.document.islands
        /\ next \subseteq ui.document.islands
        /\ SetDocument([ui EXCEPT !.collapsed = next, !.document.collapsed = flags])
        /\ drift' = IF ~collapse /\ \E j \in next : i \in Above(j, ui.document.islands)
                    THEN drift \cup {"nested"} ELSE drift

SetAllCollapsed(collapse) ==
    LET all == IF collapse THEN ui.document.islands ELSE {}
    IN  /\ SetDocument([ui EXCEPT !.collapsed = all, !.document.collapsed = all])
        /\ drift' = {}

DeleteIsland(i) ==
    /\ i \in ui.document.islands
    /\ SetDocument([ui EXCEPT !.document.islands = @ \ {i}, !.document.collapsed = @ \ {i},
                              !.selected = IF @ = i THEN Nowhere ELSE @])
    /\ drift' = IF \E j \in ui.collapsed \cap ui.document.islands : i \in Above(j, ui.document.islands)
                THEN drift \cup {"nested"} ELSE drift

Undo ==
    /\ past # <<>>
    /\ Set([ui EXCEPT !.document = past[Len(past)]])
    /\ past' = SubSeq(past, 1, Len(past) - 1) /\ future' = <<ui.document>> \o future
    /\ drift' = drift \cup {"undo"}
    /\ UNCHANGED <<stored, reading>>

Redo ==
    /\ future # <<>>
    /\ Set([ui EXCEPT !.document = Head(future)])
    /\ past' = Append(past, ui.document) /\ future' = Tail(future)
    /\ drift' = drift \cup {"undo"}
    /\ UNCHANGED <<stored, reading>>

(* loadDocument, after a save or without one. *)
Load(id, saved) ==
    LET kept == IF saved THEN [stored EXCEPT ![ui.document.id] = ui.document] ELSE stored
    IN  /\ Set([ui EXCEPT !.document = kept[id], !.mode = storedMode[id], !.selected = Nowhere])
        /\ stored' = kept /\ past' = <<>> /\ future' = <<>>
        /\ drift' = CASE id = ui.document.id -> drift \cup {"reloaded"}
                      [] id # ui.document.id /\ ui.imported.id = id -> {"file"}
                      [] OTHER -> {}
        /\ UNCHANGED reading

---------------------------------------------------------------------------
(* Focus, depth, reveals. *)

Snapshot == [focus |-> ui.focus, maxDepth |-> ui.maxDepth]

FocusIsland(i) ==
    /\ i \in ui.document.islands
    /\ SetView([ui EXCEPT !.focus = i, !.history = Append(@, Snapshot)])

FocusCard == SetView([ui EXCEPT !.focus = Nowhere, !.history = Append(@, Snapshot)])

ClearFocus == ui.focus # Nowhere /\ SetView([ui EXCEPT !.focus = Nowhere])

FocusBack ==
    /\ ui.history # <<>>
    /\ LET top == ui.history[Len(ui.history)]
       IN  SetView([ui EXCEPT !.history = SubSeq(@, 1, Len(@) - 1),
                              !.focus = top.focus, !.maxDepth = top.maxDepth])

PeekStart(i) == i \in VisibleIslands(ui) /\ SetView([ui EXCEPT !.peek = i])

PeekEnd == ui.peek # Nowhere /\ SetView([ui EXCEPT !.peek = Nowhere])

SelectIsland(i) == i \in VisibleIslands(ui) /\ SetView([ui EXCEPT !.selected = i])

(* One grounding card is revealed only where the reveal can show it ... *)
InspectCard(c) ==
    /\ c \in ScopeCards(ui) \ DepthHidden(ui)
    /\ SetView([ui EXCEPT !.reveal = @ \cup {c}])

(* ... all of them wherever they are. *)
RevealGrounding ==
    /\ ui.selected # Nowhere /\ Grounding[ui.selected] # {}
    /\ SetView([ui EXCEPT !.reveal = @ \cup Grounding[ui.selected]])

ClearReveal == ui.reveal # {} /\ SetView([ui EXCEPT !.reveal = {}])

ToggleSummaryReveal ==
    /\ ui.selected # Nowhere
    /\ SetView([ui EXCEPT !.summaryReveal = IF ui.selected \in @ THEN @ \ {ui.selected}
                                            ELSE @ \cup {ui.selected}])

SetMaxDepth(n) == SetView([ui EXCEPT !.maxDepth = n])

SetHierarchyLevel(l) == SetView([ui EXCEPT !.level = l, !.maxDepth = LevelDepth(l)])

(* The buttons for bird's eye, middle and detail, and the reset. *)
ApplyDepthPreset(n) == SetView([ui EXCEPT !.focus = Nowhere, !.maxDepth = n])

---------------------------------------------------------------------------
(* Summary, perspective, filters, modes and presets. *)

SetSummary(on) == SetView([ui EXCEPT !.summary = on])

SetAbstract(on) == SetView([ui EXCEPT !.abstract = on, !.summary = @ \/ on])

SetPerspective(p, strict) == SetView([ui EXCEPT !.perspective = p, !.strict = strict])

SetLod(on, far) == SetView([ui EXCEPT !.lod = on, !.far = far])

ToggleFilter(f) == SetView([ui EXCEPT !.filters = IF f \in @ THEN @ \ {f} ELSE @ \cup {f}])

ApplyViewMode(m) ==
    SetView([ApplyViewPatch(ui, DefaultPatch(m)) EXCEPT !.mode = m, !.active = m])

SavePreset ==
    SetView([ui EXCEPT !.saved = CaptureView(ui), !.active = "saved", !.stamp = 1 - @])

ApplyPreset ==
    /\ ui.saved # <<>>
    /\ Set([ApplyViewPatch(ui, ui.saved) EXCEPT !.active = "saved"])
    /\ drift' = drift \cup {"preset"}
    /\ UNCHANGED <<stored, past, future, reading>>

RenamePreset == ui.saved # <<>> /\ SetView([ui EXCEPT !.stamp = 1 - @])

DeletePreset ==
    /\ ui.saved # <<>>
    /\ SetView([ui EXCEPT !.saved = <<>>, !.stamp = 1 - @,
                          !.active = IF @ = "saved" THEN Nowhere ELSE @])

(* A view metadata file is read asynchronously for the document then open. *)
OpenFile ==
    /\ reading = NoDocument /\ actions < MaxActions
    /\ reading' = ui.document
    /\ UNCHANGED <<ui, stored, storedMode, past, future, drift, actions>>

ApplyImportedView ==
    /\ reading # NoDocument
    /\ LET collapsed == File.collapsed \cap reading.islands
       IN  Set([Over(File, ui) EXCEPT
                    !.summary = File.summary \/ File.abstract,
                    !.collapsed = collapsed,
                    !.imported = [id |-> reading.id, collapsed |-> collapsed],
                    !.saved = <<>>, !.stamp = 1 - @, !.active = Nowhere,
                    !.focus = IF File.focus \in reading.islands THEN File.focus ELSE Nowhere])
    /\ reading' = NoDocument
    /\ drift' = drift \cup {"file"}
    /\ UNCHANGED <<stored, past, future>>

---------------------------------------------------------------------------
(* What decides which islands are collapsed. *)
CollapseNext ==
    \/ \E i \in Islands, collapse \in BOOLEAN : SetIslandCollapsed(i, collapse)
    \/ \E collapse \in BOOLEAN : SetAllCollapsed(collapse)
    \/ \E i \in Islands : DeleteIsland(i) \/ FocusIsland(i)
    \/ Undo \/ Redo
    \/ \E id \in DocIds, saved \in BOOLEAN : Load(id, saved)
    \/ \E m \in Modes : ApplyViewMode(m)
    \/ SavePreset \/ ApplyPreset \/ RenamePreset \/ DeletePreset
    \/ OpenFile \/ ApplyImportedView

(* What decides what is shown of them. *)
ShowNext ==
    \/ \E i \in Islands : SetIslandCollapsed(i, TRUE) \/ FocusIsland(i) \/ PeekStart(i) \/ SelectIsland(i)
    \/ FocusCard \/ ClearFocus \/ FocusBack \/ PeekEnd
    \/ \E c \in Cards : InspectCard(c)
    \/ RevealGrounding \/ ClearReveal \/ ToggleSummaryReveal
    \/ \E n \in {2, All} : SetMaxDepth(n)
    \/ \E l \in Levels : SetHierarchyLevel(l)
    \/ \E n \in {0, 1, All} : ApplyDepthPreset(n)
    \/ \E on \in BOOLEAN : SetSummary(on) \/ SetAbstract(on) \/ SetLod(on, on)
    \/ \E p \in {"default", "facts"}, strict \in BOOLEAN : SetPerspective(p, strict)
    \/ \E f \in {"search", "state", "merged"} : ToggleFilter(f)
    \/ \E m \in Modes : ApplyViewMode(m)

ViewSpec == ViewInit /\ [][CollapseNext \/ ShowNext]_viewVars

---------------------------------------------------------------------------
ViewTypeOK ==
    /\ ui.document.islands \subseteq Islands /\ ui.document.collapsed \subseteq ui.document.islands
    /\ ui.collapsed \subseteq Islands /\ ui.focus \in Islands \cup {Nowhere}
    /\ ui.level \in Levels /\ ui.mode \in Modes
    /\ drift \subseteq {"nested", "undo", "reloaded", "preset", "file"}

(* Effects come to rest: nothing flickers and no rendering is left over. *)
ComesToRest == Round(ui, ui) = ui

(* Neither focus nor selection is on an island the canvas does not show. *)
OnWhatIsShown == {ui.focus, ui.selected} \subseteq VisibleIslands(ui) \cup {Nowhere}

(* The level shown is that of the depth in force. *)
LevelFollowsDepth == ui.level = ResolveLevel(ui.maxDepth)

(* The effect of the mode leaves the summary switches no say in the modes  *)
(* whose preset names them.                                                *)
ModeDictates ==
    /\ ui.mode = "explore" => ~ui.summary /\ ~ui.abstract
    /\ ui.mode = "summary" => ui.summary /\ ui.abstract
    /\ ui.abstract => ui.summary

(* A card of a collapsed island, or of one inside it, is shown only when    *)
(* it, its island or the islands around that were asked for.                *)
Asked(i) == i \in RevealedIslands(ui) \cup ui.summaryReveal \cup {ui.peek}

CollapsedStaysHidden ==
    \A c \in VisibleCards(ui) \ (ui.reveal \cup CardsIn({ui.peek})) :
        \A h \in Home[c] \cap ScopeIslands(ui) :
            LET around == {h} \cup Above(h, ScopeIslands(ui))
            IN  around \cap ui.collapsed # {} =>
                    \A a \in around :
                        Asked(a) \/ ({a} \cup Above(a, ScopeIslands(ui))) \cap ui.collapsed = {}

(* An island drawn open does not hide its cards by collapsing, unless it   *)
(* was opened inside a collapsed one.                                      *)
OpenShowsCards ==
    \A i \in VisibleIslands(ui) \ Below(EffectiveCollapsed(ui), ScopeIslands(ui)) :
        \/ CardsIn({i}) \cap CollapseHidden(ui) = {}
        \/ \E c \in CardsIn({i}) : Cardinality(Home[c]) > 1

(* View and document agree on what is collapsed, unless an expansion inside *)
(* a collapsed island, undo, a reload, a preset or a file came between.     *)
CollapseInStep ==
    /\ drift = {} => Below(ui.collapsed, ui.document.islands)
                       = Below(ui.document.collapsed, ui.document.islands)
    /\ drift \cap {"preset", "file"} = {} => ui.collapsed \subseteq ui.document.islands
=============================================================================
