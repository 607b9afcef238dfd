-------------------------- MODULE WorkspaceReports --------------------------
(***************************************************************************)
(* What the workspace says about the islands of a document: relations      *)
(* derived from the edges of their cards (island_edge_aggregate.ts), the   *)
(* checks of the diagnostics (outline_quality.ts, distribution_checks.ts), *)
(* detected voids, the reading outline (reading_path.ts), and when the     *)
(* reports of a diagnostics run are shown (App.tsx).                       *)
(*                                                                         *)
(* Cards and islands are numbers: their order is the order of their ids    *)
(* and of their places.  Texts, thresholds on more entities than a         *)
(* document of the model has, and the wording of reports are left out.     *)
(***************************************************************************)
EXTENDS Integers, Sequences, FiniteSets, FiniteSetsExt

CONSTANTS Cards, Islands,   \* disjoint sets of numbers
          Relations,        \* edges a user may draw: [from, to, type]
          MaxRelations,     \* bound: edges
          MaxEdits          \* bound: edits of islands

VARIABLES islands, member, titled, summary, edges, explained, \* the document
          voids,                   \* the stored voids: their kinds, and what happened since
          docId, reviewedOnly,     \* the open document and the reading option
          running, report,         \* the diagnostics run at work, the reports on show
          edits

structure == <<islands, member, titled, summary, edges, explained>>
reading == <<docId, reviewedOnly>>
reports == <<running, report>>
reportVars == <<structure, voids, reading, reports, edits>>

Nothing == 0

ASSUME ReportsAssumption ==
    /\ Cards \cup Islands \subseteq Nat \ {Nothing} /\ Cards \cap Islands = {}
    /\ IsFiniteSet(Cards) /\ IsFiniteSet(Islands) /\ MaxEdits \in Nat

(* "emptied" is a reviewed summary whose text was removed, "unset" has no  *)
(* reviewed flag at all.                                                   *)
Summaries == {"none", "emptied", "unset", "draft", "reviewed"}

-----------------------------------------------------------------------------
(* Islands.                                                                *)

Members(i) == {c \in Cards : member[c] = i}

(* getIslandsForCard; an endpoint that is an island stands for itself. *)
IslandsOf(x) == IF x \in Cards THEN {member[x]} \ {Nothing} ELSE {x}

IslandEdges == {e \in edges : e.from \notin Cards /\ e.to \notin Cards}

(* getDerivedIslandEdges: a card stands for its island, a lone card for    *)
(* itself, and edges within an island are dropped.                         *)
Derived ==
    {[from |-> CHOOSE i \in IslandsOf(e.from) : TRUE, to |-> CHOOSE i \in IslandsOf(e.to) : TRUE, type |-> e.type] :
        e \in {f \in edges \ IslandEdges : IslandsOf(f.from) # {} /\ IslandsOf(f.to) # {} /\ IslandsOf(f.from) # IslandsOf(f.to)}}
    \cup {[from |-> CHOOSE i \in IslandsOf(e.from) : TRUE, to |-> e.to, type |-> e.type] :
            e \in {f \in edges : IslandsOf(f.from) # {} /\ IslandsOf(f.to) = {}}}
    \cup {[from |-> CHOOSE i \in IslandsOf(e.to) : TRUE, to |-> e.from, type |-> e.type] :
            e \in {f \in edges : IslandsOf(f.from) = {} /\ IslandsOf(f.to) # {}}}

(* countIslandDegrees = 0 (Q005, the orphaned islands of the voids). *)
Disconnected ==
    {i \in islands : ~\E e \in IslandEdges \cup Derived :
        {e.from, e.to} \subseteq islands /\ e.from # e.to /\ i \in {e.from, e.to}}

(* buildIslandDegreeMap = 0 (D003): edges between islands only. *)
IsolatedIslands ==
    {i \in islands : ~\E e \in IslandEdges : {e.from, e.to} \subseteq islands /\ i \in {e.from, e.to}}

ConnectedPairs == {{e.from, e.to} : e \in IslandEdges \cup Derived}

LoneCards == {c \in Cards : member[c] = Nothing}

HasText(i) == summary[i] \in {"unset", "draft", "reviewed"}

Reviewed(i) == summary[i] \in {"reviewed", "emptied"}

(* detectVoidCandidates. *)
VoidKinds ==
    (IF LoneCards # {} THEN {"unintegrated_card"} ELSE {})
    \cup (IF Disconnected # {} THEN {"orphaned_island"} ELSE {})
    \cup (IF \E i \in islands : ~titled[i] \/ ~HasText(i) THEN {"unspoken_island"} ELSE {})
    \cup (IF ConnectedPairs \ explained # {} THEN {"unexplained_relation"} ELSE {})
    \cup (IF \E i \in islands : ~Reviewed(i) THEN {"unreviewed_content"} ELSE {})

(* analyzeOutlineQuality, analyzeDistribution: codes with the islands they *)
(* name.                                                                   *)
More(S, a, b) == b * Cardinality(S) > a * Cardinality(islands)

Finding(code, S, worth) == IF worth THEN {<<code, S>>} ELSE {}

Findings ==
    LET untitled == {i \in islands : ~titled[i]}
        bare == {i \in islands : ~HasText(i)}
        unreviewed == {i \in islands : ~Reviewed(i)}
        done == {i \in islands : Reviewed(i)}
    IN  Finding("Q001", untitled, More(untitled, 3, 10))
        \cup Finding("Q002", bare, More(bare, 2, 5))
        \cup Finding("Q003", unreviewed, More(unreviewed, 1, 2))
        \cup Finding("Q004", {}, Cardinality(explained) < Cardinality(islands) - 1)
        \cup Finding("Q005", Disconnected, More(Disconnected, 1, 5))
        \cup Finding("Q008", bare \cap done, done # {} /\ 10 * Cardinality(bare \cap done) > Cardinality(done))
        \cup Finding("D003", IsolatedIslands, IsolatedIslands # {})

(* The guided flow's review step asks for an explicit FALSE. *)
ReviewTargets == {i \in islands : summary[i] \in {"none", "draft"}}

(* buildReadingList: islands without members have no place. *)
Shown(i) == ~reviewedOnly \/ ~HasText(i) \/ summary[i] = "reviewed"

(* The elements of a set in ascending order. *)
InOrder(S) ==
    CHOOSE s \in [1..Cardinality(S) -> S] :
        /\ \A x \in S : \E k \in DOMAIN s : s[k] = x
        /\ \A j, k \in DOMAIN s : j < k => s[j] < s[k]

CardItems(S) == LET order == InOrder(S) IN [k \in 1..Cardinality(S) |-> <<"card", order[k]>>]

IslandItems(i) == (IF Shown(i) THEN <<<<"island", i>>>> ELSE <<>>) \o CardItems(Members(i))

(* The lists of q, one after another. *)
Joined(q) ==
    LET upto[n \in 0..Len(q)] == IF n = 0 THEN <<>> ELSE upto[n - 1] \o q[n] IN upto[Len(q)]

Placed == InOrder({i \in islands : Members(i) # {}})

ReadingList ==
    LET placed == Placed
    IN  Joined([k \in 1..Len(placed) |-> IslandItems(placed[k])]) \o CardItems(LoneCards)

(* The heading a card is printed under. *)
Heading(list, c) ==
    LET at == CHOOSE k \in 1..Len(list) : list[k] = <<"card", c>>
        above == {k \in 1..at : list[k][1] = "island"}
    IN  IF above = {} THEN Nothing ELSE list[Max(above)][2]

-----------------------------------------------------------------------------
(* The operations.                                                         *)

(* What is stored or on show about the islands knows when it was overtaken.*)
Since(S, what) == {[x EXCEPT !.since = @ \cup {what}] : x \in S}

Edited ==
    /\ edits < MaxEdits
    /\ edits' = edits + 1
    /\ voids' = Since(voids, "edited")
    /\ running' = Since(running, "edited") /\ report' = Since(report, "edited")
    /\ UNCHANGED reading

Draw(e) ==
    /\ e \notin edges /\ Cardinality(edges) < MaxRelations
    /\ \A x \in {e.from, e.to} \cap Islands : x \in islands
    /\ edges' = edges \cup {e}
    /\ Edited /\ UNCHANGED <<islands, member, titled, summary, explained>>

Move(c, i) ==
    /\ i \in islands \cup {Nothing} /\ member[c] # i
    /\ member' = [member EXCEPT ![c] = i]
    /\ Edited /\ UNCHANGED <<islands, titled, summary, edges, explained>>

Explain(i, j) ==
    /\ {i, j} \subseteq islands /\ i # j
    /\ explained' = explained \cup {{i, j}}
    /\ Edited /\ UNCHANGED <<islands, member, titled, summary, edges>>

Rewrite(i, s) ==
    /\ i \in islands /\ summary[i] # s
    /\ summary' = [summary EXCEPT ![i] = s]
    /\ Edited /\ UNCHANGED <<islands, member, titled, edges, explained>>

Title(i) ==
    /\ i \in islands
    /\ titled' = [titled EXCEPT ![i] = ~@]
    /\ Edited /\ UNCHANGED <<islands, member, summary, edges, explained>>

(* handleDeleteIslandById keeps edges and relation summaries. *)
DeleteIsland(i) ==
    /\ i \in islands
    /\ islands' = islands \ {i}
    /\ member' = [c \in Cards |-> IF member[c] = i THEN Nothing ELSE member[c]]
    /\ Edited /\ UNCHANGED <<titled, summary, edges, explained>>

(* handleDetectVoids: the stored voids are replaced. *)
DetectVoids ==
    /\ edits < MaxEdits
    /\ edits' = edits + 1
    /\ voids' = {[kinds |-> VoidKinds, since |-> {}]}
    /\ UNCHANGED <<structure, reading, reports>>

(* handleRunOutlineDiagnostics, and the worker's answer. *)
Captured == [id |-> docId, reviewedOnly |-> reviewedOnly, findings |-> Findings, since |-> {}]

RunDiagnostics ==
    /\ running = {}
    /\ running' = {Captured}
    /\ UNCHANGED <<structure, voids, reading, report, edits>>

ShowDiagnostics ==
    /\ running # {}
    /\ report' = running /\ running' = {}
    /\ UNCHANGED <<structure, voids, reading, edits>>

CancelDiagnostics ==
    /\ running # {}
    /\ running' = {}
    /\ UNCHANGED <<structure, voids, reading, report, edits>>

(* Mutant of Overtaken: what is shown stays. *)
OvertakenUnnoticed == UNCHANGED report /\ running' = Since(running, "overtaken")

(* The effect on document id, readingMode and reviewedOnly clears what is  *)
(* shown, not what is being computed.                                      *)
Overtaken == /\ report' = {}
             /\ running' = Since(running, "overtaken")

ToggleReviewedOnly ==
    /\ reviewedOnly' = ~reviewedOnly
    /\ Overtaken /\ UNCHANGED <<structure, voids, docId, edits>>

(* Another document, of the same content: only what belongs to it matters. *)
OpenDocument ==
    /\ docId' = 3 - docId
    /\ Overtaken /\ UNCHANGED <<structure, voids, reviewedOnly, edits>>

IslandNext ==
    \/ \E e \in Relations : Draw(e)
    \/ \E c \in Cards, i \in Islands \cup {Nothing} : Move(c, i)
    \/ \E i, j \in Islands : Explain(i, j)
    \/ \E i \in Islands, s \in Summaries : Rewrite(i, s)
    \/ \E i \in Islands : Title(i) \/ DeleteIsland(i)
    \/ DetectVoids
    \/ ToggleReviewedOnly

ReportNext == RunDiagnostics \/ ShowDiagnostics \/ CancelDiagnostics \/ OpenDocument

ReportsInit ==
    /\ islands = Islands /\ member \in [Cards -> Islands \cup {Nothing}]
    /\ titled = [i \in Islands |-> TRUE] /\ summary \in [Islands -> {"reviewed", "draft"}]
    /\ edges \in {{}} \cup {{e} : e \in Relations} /\ explained = {}
    /\ voids = {}
    /\ docId = 1 /\ reviewedOnly = FALSE
    /\ running = {} /\ report = {} /\ edits \in 0..MaxEdits

ReportsSpec == ReportsInit /\ [][IslandNext \/ ReportNext]_reportVars

-----------------------------------------------------------------------------
(* Properties.                                                             *)

ReportsTypeOK ==
    /\ islands \subseteq Islands /\ member \in [Cards -> islands \cup {Nothing}]
    /\ summary \in [Islands -> Summaries] /\ Cardinality(running) <= 1 /\ Cardinality(report) <= 1

(* An island with no relation in one check has one in the other only       *)
(* through an edge of its cards, or an edge to itself; and a relation that *)
(* cannot be explained is an edge to a lone card, to itself, or to an      *)
(* island that was deleted.                                                *)
RelationsAgree ==
    /\ \A i \in IsolatedIslands \ Disconnected : \E e \in Derived : i \in {e.from, e.to}
    /\ \A i \in Disconnected \ IsolatedIslands : \E e \in IslandEdges : e.from = i /\ e.to = i
    /\ ({{i, j} : i, j \in islands} \ {{i} : i \in islands}) \subseteq explained =>
          \A p \in ConnectedPairs \ explained :
              Cardinality(p) = 1 \/ p \cap Cards # {} \/ ~p \subseteq islands

(* Every card is listed once, under its island unless reviewedOnly hides   *)
(* that heading; islands the guided flow does not offer for review though  *)
(* they count as unreviewed have text without a flag.                      *)
OutlineTruthful ==
    LET list == ReadingList
    IN  /\ \A c \in Cards : Cardinality({k \in DOMAIN list : list[k] = <<"card", c>>}) = 1
        /\ \A c \in Cards : LET h == Heading(list, c)
                            IN  h # member[c] =>
                                   \/ member[c] # Nothing /\ ~Shown(member[c])
                                   \/ member[c] = Nothing /\ \E i \in islands : Members(i) # {} /\ Shown(i)
        /\ \A i \in islands \ ReviewTargets : ~Reviewed(i) => summary[i] = "unset"

(* Reports on show, and stored voids, are those of the open document, its  *)
(* present state and the current option unless it was edited since; only   *)
(* an answer that was overtaken tells of another document or option.       *)
ReportsCurrent ==
    /\ \A r \in report :
          /\ r.since = {} => r = Captured
          /\ (r.id # docId \/ r.reviewedOnly # reviewedOnly) => "overtaken" \in r.since
    /\ \A v \in voids : v.since = {} => v.kinds = VoidKinds

(* What the workspace says about islands is true, in every part of it.     *)
ReportsInvariant == ReportsTypeOK /\ RelationsAgree /\ OutlineTruthful /\ ReportsCurrent
=============================================================================
