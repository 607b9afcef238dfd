-------------------------- MODULE MergeSuggestions --------------------------
(***************************************************************************)
(* Merging cards on a model's suggestion (App.tsx, MergeSuggestionsPanel,  *)
(* merge_suggestion_*.ts).  Three steps are kept apart: a request whose    *)
(* answer fills the panel, a person's decision, which is appended to the   *)
(* document, and the application of the latest decision of a group, which  *)
(* looks at the document again and creates a representative card.  The     *)
(* document is edited and undone in between; undo does not touch the panel *)
(* or the audit events.  The clock that stamps decisions never goes back.  *)
(***************************************************************************)
EXTENDS Naturals, FiniteSets, Sequences, SequencesExt

CONSTANTS Cards,         \* the cards of the opened document
          Reps,          \* identifiers of representatives
          Groups,        \* groupId
          EventLimit,    \* MERGE_DECISION_AUDIT_EVENT_LIMIT
          MaxChanges,    \* bound: document changes in a behaviour
          MaxRequests    \* bound: requests in a behaviour

VARIABLES board,        \* history.present
          boardPast,    \* history.past
          boardFuture,  \* history.future
          panel,        \* mergeSuggestions
          asked,        \* the document of a request under way, at most one
          events,       \* mergeDecisionAuditEvents
          decisions,    \* decisions recorded so far
          made,         \* representatives created so far
          requests, changes

mergeVars == <<board, boardPast, boardFuture, panel, asked, events, decisions, made,
               requests, changes>>

NoRep == "none"

Actions == {"accept", "partial", "reject", "defer"}

Pairs == {S \in SUBSET Cards : Cardinality(S) > 1}

Init ==
    /\ board = [cards |-> Cards, held |-> {}, clash |-> {}, reps |-> {}, unread |-> {},
                into |-> [c \in Cards |-> NoRep], log |-> <<>>]
    /\ boardPast = <<>> /\ boardFuture = <<>>
    /\ panel = {} /\ asked = {} /\ events = <<>> /\ decisions = 0 /\ made = {}
    /\ requests = 0 /\ changes = 0

-----------------------------------------------------------------------------
(* The document.                                                           *)

Push(d) ==
    /\ changes < MaxChanges
    /\ boardPast' = Append(boardPast, board)
    /\ board' = d
    /\ boardFuture' = <<>>
    /\ changes' = changes + 1

(* Any other change of the document drops the suggestions. *)
Edit(d) ==
    /\ Push(d)
    /\ panel' = {}
    /\ UNCHANGED <<asked, events, decisions, made, requests>>

DeleteCard(c) ==
    /\ c \in board.cards
    /\ Edit([board EXCEPT !.cards = @ \ {c}, !.held = @ \ {c}])

HoldCard(c) == c \in board.cards \ board.held /\ Edit([board EXCEPT !.held = @ \cup {c}])

(* A contradiction, a negation or a different claim type. *)
Contradict(S) == S \subseteq board.cards /\ Edit([board EXCEPT !.clash = @ \cup {S}])

ReviewRepresentative(r) ==
    /\ r \in board.unread
    /\ Edit([board EXCEPT !.unread = @ \ {r}])

Beside == <<panel, asked, events, decisions, made, requests, changes>>

Undo ==
    /\ boardPast # <<>>
    /\ board' = Last(boardPast) /\ boardPast' = Front(boardPast)
    /\ boardFuture' = <<board>> \o boardFuture
    /\ UNCHANGED Beside

Redo ==
    /\ boardFuture # <<>>
    /\ board' = Head(boardFuture) /\ boardFuture' = Tail(boardFuture)
    /\ boardPast' = Append(boardPast, board)
    /\ UNCHANGED Beside

-----------------------------------------------------------------------------
(* Asking.                                                                 *)

SuggestMerges ==
    /\ requests < MaxRequests
    /\ asked = {} /\ board.unread = {}
    /\ asked' = {board}
    /\ requests' = requests + 1
    /\ UNCHANGED <<board, boardPast, boardFuture, panel, events, decisions, made, changes>>

(* Mutant: the first decision of a group stands. *)
FirstByGroup(log, g) ==
    LET of == {n \in DOMAIN log : log[n].group = g}
    IN  {log[n] : n \in {m \in of : \A k \in of : m <= k}}

(* getLatestMergeSuggestionDecisionByGroup: none or one. *)
LatestByGroup(log, g) ==
    LET of == {n \in DOMAIN log : log[n].group = g}
    IN  {log[n] : n \in {m \in of : \A k \in of : k <= m}}

(* resolveDecisionOriginTrace: whether a representative already stands for *)
(* some of the cards.                                                      *)
Represented(d, S) == \E c \in S : d.into[c] # NoRep

Shown(d, g, S) ==
    [group |-> g, cards |-> S, blank |-> FALSE,
     latest |-> {e.action : e \in LatestByGroup(d.log, g)},
     applied |-> Represented(d, S)]

(* The answer, whose groups may be about any cards of the document that    *)
(* was sent.                                                               *)
SuggestionsReady(g, S) ==
    /\ \E d \in asked : S \subseteq d.cards /\ panel' = {Shown(d, g, S)}
    /\ asked' = {}
    /\ UNCHANGED <<board, boardPast, boardFuture, events, decisions, made, requests, changes>>

(* collectMergeCandidates, when the service is not available: groups of    *)
(* cards that no representative stands for.                                *)
LocalFallback(g, S) ==
    /\ \A d \in asked : \A c \in S : d.into[c] = NoRep
    /\ SuggestionsReady(g, S)

SuggestionFailed ==
    /\ asked # {} /\ asked' = {} /\ panel' = {}
    /\ UNCHANGED <<board, boardPast, boardFuture, events, decisions, made, requests, changes>>

(* A merge candidate adopted from an external agent's response is shown    *)
(* beside the others, without a look at earlier decisions.                 *)
AgentCandidate(g, S) ==
    /\ requests < MaxRequests
    /\ \A s \in panel : s.group # g
    /\ panel' = panel \cup {[group |-> g, cards |-> S, blank |-> FALSE,
                             latest |-> {}, applied |-> FALSE]}
    /\ requests' = requests + 1
    /\ UNCHANGED <<board, boardPast, boardFuture, asked, events, decisions, made, changes>>

(* The draft's text; what matters is whether it is blank. *)
MergedTextChange(s) ==
    /\ panel' = (panel \ {s}) \cup {[s EXCEPT !.blank = ~@]}
    /\ UNCHANGED <<board, boardPast, boardFuture, asked, events, decisions, made,
                   requests, changes>>

-----------------------------------------------------------------------------
(* Deciding.                                                               *)

(* Mutant: audit events pile up. *)
EventsUnbounded(n) == Append(events, n)

(* appendMergeDecisionAuditEvent keeps the newest. *)
EventsWith(n) ==
    LET all == Append(events, n)
    IN  SubSeq(all, Len(all) - (IF Len(all) > EventLimit THEN EventLimit
                                ELSE Len(all)) + 1, Len(all))

(* resolveSelectedCardIds: part of the group only for a partial decision,  *)
(* and then at least two and not all of them.                              *)
Selections(s, action) ==
    IF action = "partial" THEN {S \in Pairs : S \subseteq s.cards /\ S # s.cards}
    ELSE {s.cards}

(* Mutant: an event is written for what is accepted only. *)
DecideSilently(s, action, sel) ==
    /\ sel \in Selections(s, action)
    /\ Cardinality(s.cards \cap board.cards) > 1 /\ ~s.blank
    /\ Push([board EXCEPT !.log =
           Append(@, [id |-> decisions + 1, group |-> s.group, action |-> action,
                      sel |-> sel, rep |-> NoRep])])
    /\ decisions' = decisions + 1
    /\ events' = IF action = "partial" THEN events ELSE EventsWith(decisions + 1)
    /\ panel' = (panel \ {s}) \cup {[s EXCEPT !.latest = {action}]}
    /\ UNCHANGED <<asked, made, requests>>

(* handleRecordMergeSuggestionDecision: a suggestion needs two cards that  *)
(* are still there and a text; the decision goes into the document, the    *)
(* panel keeps its suggestions.                                            *)
RecordDecision(s, action, sel) ==
    /\ sel \in Selections(s, action)
    /\ Cardinality(s.cards \cap board.cards) > 1 /\ ~s.blank
    /\ Push([board EXCEPT !.log =
           Append(@, [id |-> decisions + 1, group |-> s.group, action |-> action,
                      sel |-> sel, rep |-> NoRep])])
    /\ decisions' = decisions + 1
    /\ events' = EventsWith(decisions + 1)
    /\ panel' = (panel \ {s}) \cup {[s EXCEPT !.latest = {action}]}
    /\ UNCHANGED <<asked, made, requests>>

-----------------------------------------------------------------------------
(* Applying.                                                               *)

(* Mutant: the panel's word is taken for the decision. *)
AcceptedByPanel(e) == TRUE

(* resolveAppliedSourceIds: rejected and deferred groups are not merged. *)
Accepted(e) == e.action \in {"accept", "partial"}

(* The document is checked again: cards that are gone, held, merged or at  *)
(* odds with one another win over an older decision.                       *)
Mergeable(d, S) ==
    /\ S \subseteq d.cards /\ S \cap d.held = {}
    /\ \A c \in S : d.into[c] = NoRep
    /\ \A p \in d.clash : ~ (p \subseteq S)

(* applyRecordedMergeSuggestionDecision and createRepresentativeMerge: the *)
(* representative is unreviewed, its sources stay, and the decision that   *)
(* led to it names it.                                                     *)
Merged(d, e, r) ==
    [d EXCEPT !.reps = @ \cup {r}, !.unread = @ \cup {r},
              !.into = [c \in Cards |-> IF c \in e.sel THEN r ELSE @[c]],
              !.log = [n \in DOMAIN @ |-> IF @[n].id = e.id THEN [@[n] EXCEPT !.rep = r]
                                          ELSE @[n]]]

ApplyRecorded(s, r) ==
    /\ s.latest \cap {"accept", "partial"} # {} /\ ~s.applied
    /\ r \in Reps \ made
    /\ \E e \in LatestByGroup(board.log, s.group) :
           /\ Accepted(e) /\ Mergeable(board, e.sel)
           /\ Push(Merged(board, e, r))
    /\ made' = made \cup {r}
    /\ panel' = (panel \ {s}) \cup {[s EXCEPT !.applied = TRUE]}
    /\ UNCHANGED <<asked, events, decisions, requests>>

-----------------------------------------------------------------------------
Next ==
    \/ \E c \in Cards : DeleteCard(c) \/ HoldCard(c)
    \/ \E S \in {T \in Pairs : Cardinality(T) = 2} : Contradict(S)
    \/ \E r \in Reps : ReviewRepresentative(r)
    \/ Undo \/ Redo
    \/ SuggestMerges \/ SuggestionFailed
    \/ \E g \in Groups, S \in Pairs : SuggestionsReady(g, S) \/ LocalFallback(g, S)
    \/ \E g \in Groups, S \in Pairs : AgentCandidate(g, S)
    \/ \E s \in panel : MergedTextChange(s)
    \/ \E s \in panel, action \in Actions, sel \in Pairs : RecordDecision(s, action, sel)
    \/ \E s \in panel, r \in Reps : ApplyRecorded(s, r)

Spec == Init /\ [][Next]_mergeVars

-----------------------------------------------------------------------------
Boards == {board} \cup ToSet(boardPast) \cup ToSet(boardFuture)

(* Documents and suggestions are well formed, one suggestion per group and *)
(* no more audit events than the limit.                                    *)
TypeOK ==
    /\ \A d \in Boards :
           /\ d.cards \subseteq Cards /\ d.held \subseteq d.cards
           /\ d.unread \subseteq d.reps /\ d.reps \subseteq Reps
           /\ d.into \in [Cards -> d.reps \cup {NoRep}]
           /\ \A e \in ToSet(d.log) : e.action \in Actions /\ e.sel \in Pairs
    /\ \A s, t \in panel : s.group = t.group => s = t
    /\ Len(events) <= EventLimit

Sources(d, r) == {c \in Cards : d.into[c] = r}

(* In every document of the history each representative is named by one    *)
(* decision of that document, an accepting one, and stands for exactly the *)
(* cards the decision selected: not by an undone decision, and not for     *)
(* cards another representative has taken.                                 *)
MergeFollowsDecision ==
    \A d \in Boards : \A r \in d.reps :
        \E e \in ToSet(d.log) :
            /\ e.rep = r /\ e.action \in {"accept", "partial"}
            /\ Sources(d, r) = e.sel
            /\ \A f \in ToSet(d.log) : f.rep = r => f = e

(* A representative appears only under the newest decision of its group: a *)
(* rejection recorded after an acceptance is never overtaken by it.        *)
MergeFollowsLatest ==
    [][\A r \in board'.reps \ board.reps :
           \A n \in DOMAIN board'.log :
               board'.log[n].rep = r /\ Len(board'.log) = Len(board.log) =>
                   \A k \in (n + 1)..Len(board'.log) :
                       board'.log[k].group # board'.log[n].group]_mergeVars

(* Every decision a document of the history holds has its audit event,     *)
(* unless EventLimit newer ones have displaced it.                         *)
DecisionsAudited ==
    \A d \in Boards : \A e \in ToSet(d.log) :
        e.id + EventLimit > decisions => e.id \in ToSet(events)
=============================================================================
