--------------------------- MODULE DocumentChecks ---------------------------
(***************************************************************************)
(* What the workspace computes about the evidence of a document: traces    *)
(* along evidence links (domain/view/evidence_trace.ts,                    *)
(* contradiction_trace.ts, evidence_overlay.ts, worker/trace_analytics.ts) *)
(* and structure metrics.                                                  *)
(*                                                                         *)
(* Cards are numbers: their order is the order of their ids.  Texts and    *)
(* the wording of reports are left out.                                    *)
(***************************************************************************)
EXTENDS Integers, Sequences, FiniteSets, SequencesExt, FiniteSetsExt

CONSTANTS Cards,            \* numbers
          Relations,        \* edges a user may have drawn: [from, to]
          Claims,           \* claim types a document of the run may start with
          MaxLinks, MaxMixed \* bounds: links of one type, of both types

VARIABLES claim, links,     \* evidence: type per card, links <<from, to, type>>
          edges             \* edges between cards

checkVars == <<claim, links, edges>>

Nothing == 0

LinkTypes == {"supports", "contradicts"}

-----------------------------------------------------------------------------
(* Evidence links.                                                         *)

Of(t) == {l \in links : l[3] = t}

Priority == [fact |-> 0, claim |-> 1, hypothesis |-> 2, unknown |-> 3]

(* sortCardIds: by claim type, then by id. *)
Before(a, b) == \/ Priority[claim[a]] < Priority[claim[b]]
                \/ Priority[claim[a]] = Priority[claim[b]] /\ a < b

Sorted(S) == SetToSortSeq(S, Before)

Supporters(c) == {l[1] : l \in {m \in Of("supports") : m[2] = c}}

Contradictors(c) == {l[1] : l \in {m \in Of("contradicts") : m[2] = c}}

(* Cards at the other end of a link of one of the types. *)
Neighbours(c, T) ==
    {l[1] : l \in {m \in links : m[2] = c /\ m[3] \in T}}
    \cup {l[2] : l \in {m \in links : m[1] = c /\ m[3] \in T}}

FactSupported(c) == \E s \in Supporters(c) : claim[s] = "fact"

(* The evidence trace: o.depth and o.max are clamped by the caller,        *)
(* o.stop is stopAtFacts.  The walk carries what it printed, the cards     *)
(* seen, how many were expanded and whether it was cut at o.max.           *)
Fresh(c) == [lines |-> <<>>, seen |-> {c}, expanded |-> 0, truncated |-> FALSE]

Printed(w, c, d, mark) == [w EXCEPT !.lines = Append(@, [card |-> c, depth |-> d, mark |-> mark])]

RECURSIVE Walk(_, _, _, _, _), WalkAll(_, _, _, _, _)

(* Mutant: a card that was seen is not compared with the path.             *)
PathMark(c, path, seen) == IF c \in seen THEN "see above" ELSE "new"

LineMark(c, path, seen) ==
    IF c \in path THEN "cycle" ELSE IF c \in seen THEN "see above" ELSE "new"

Walk(w, c, d, path, o) ==
    LET mark == LineMark(c, path, w.seen)
    IN  CASE w.truncated -> w
          [] ~w.truncated /\ mark # "new" -> Printed(w, c, d, mark)
          [] ~w.truncated /\ mark = "new" /\ w.expanded >= o.max -> [w EXCEPT !.truncated = TRUE]
          [] OTHER ->
               LET v == [Printed(w, c, d, mark) EXCEPT !.expanded = @ + 1, !.seen = @ \cup {c}]
               IN  IF d >= o.depth \/ (o.stop /\ claim[c] = "fact") THEN v
                   ELSE WalkAll(v, Sorted(Supporters(c)), d + 1, path \cup {c}, o)

WalkAll(w, kids, d, path, o) ==
    IF kids = <<>> \/ w.truncated THEN w
    ELSE WalkAll(Walk(w, Head(kids), d, path, o), Tail(kids), d, path, o)

EvidenceTrace(c, o) == WalkAll(Fresh(c), Sorted(Supporters(c)), 1, {c}, o)

(* The contradiction network: breadth first, undirected.                   *)
RECURSIVE Spread(_, _, _), Visit(_, _, _, _)

Start(c) == [queue |-> <<c>>, depth |-> (c :> 0), parent |-> (c :> Nothing), expanded |-> 0, truncated |-> FALSE]

Visit(b, c, next, o) ==
    IF next = <<>> THEN b
    ELSE IF b.expanded >= o.max THEN [b EXCEPT !.truncated = TRUE, !.queue = <<>>]
    ELSE LET n == Head(next)
         IN  Visit(IF n \in DOMAIN b.depth THEN b
                   ELSE [queue |-> Append(b.queue, n), depth |-> b.depth @@ (n :> b.depth[c] + 1),
                         parent |-> b.parent @@ (n :> c), expanded |-> b.expanded + 1, truncated |-> FALSE],
                   c, Tail(next), o)

Spread(b, T, o) ==
    IF b.queue = <<>> THEN b
    ELSE LET c == Head(b.queue)
             rest == [b EXCEPT !.queue = Tail(@)]
             next == IF o.byType THEN Sorted(Neighbours(c, T)) ELSE SetToSortSeq(Neighbours(c, T), <)
         IN  Spread(IF b.depth[c] >= o.depth THEN rest ELSE Visit(rest, c, next, o), T, o)

ContradictionTrace(c, o) ==
    Spread(Start(c), {"contradicts"}, [depth |-> o.depth, max |-> o.max, byType |-> TRUE])

(* "cycle" is printed under a card with a neighbour that was reached but   *)
(* is neither its parent nor its child in the tree.                        *)
CycleMarks(b) ==
    {c \in DOMAIN b.depth \ {r \in DOMAIN b.depth : b.parent[r] = Nothing} :
        \E n \in Neighbours(c, {"contradicts"}) \cap DOMAIN b.depth :
            n # b.parent[c] /\ b.parent[n] # c}

(* computeTraceAnalytics goes by ids and counts the start card in maxNodes.*)
Analytics(c, T, o) ==
    Spread(Start(c), T, [depth |-> o.depth, max |-> o.max - 1, byType |-> FALSE])

LinksWithin(S, T) == {l \in links : l[1] \in S /\ l[2] \in S /\ l[3] \in T}

(* Pairs of cards, however many links join them. *)
PairsOf(L) == {{l[1], l[2]} : l \in L}

Adjacent(c, P) == {d \in Cards : {c, d} \in P /\ c # d}

RECURSIVE Joined(_, _)

Joined(S, P) ==
    LET next == S \cup UNION {Adjacent(c, P) : c \in S}
    IN  IF next = S THEN S ELSE Joined(next, P)

CycleCount(S, T) ==
    LET L == LinksWithin(S, T)
        n == Cardinality(L) - Cardinality(S) + Cardinality({Joined({c}, PairsOf(L)) : c \in S})
    IN  IF n > 0 THEN n ELSE 0

(* getEvidenceNeighborhood, with the depth clamped to 1..3. *)
RECURSIVE Grow(_, _, _)

Grow(S, T, k) == IF k = 0 THEN S ELSE Grow(S \cup UNION {Neighbours(c, T) : c \in S}, T, k - 1)

Neighbourhood(c, T, k) == Grow({c}, T, IF k < 1 THEN 1 ELSE IF k > 3 THEN 3 ELSE k)

(* analyzeEvidenceGaps E004 counts links, analyzeDialecticBalance B004     *)
(* counts pairs.                                                           *)
Ungrounded == {l \in Of("contradicts") : ~FactSupported(l[1]) /\ ~FactSupported(l[2])}

UngroundedPairs == PairsOf(Ungrounded)

-----------------------------------------------------------------------------
(* Structure metrics over links and edges between cards.                   *)

Pairs == PairsOf(links)
         \cup {{e.from, e.to} : e \in {f \in edges : f.from \in Cards /\ f.to \in Cards /\ f.from # f.to}}

ConnectedComponents(P) == {Joined({c}, P) : c \in Cards}

Isolated(P) == {c \in Cards : Adjacent(c, P) = {}}

(* countBridgeEdges: discovery times and low links.                        *)
RECURSIVE Dfs(_, _, _, _), DfsAll(_, _, _, _, _)

Smaller(a, b) == IF a < b THEN a ELSE b

IsBridge(low, found) == low > found

Dfs(s, c, from, P) ==
    LET t == s.time + 1
        entered == [s EXCEPT !.time = t, !.found = @ @@ (c :> t), !.low = @ @@ (c :> t)]
    IN  DfsAll(entered, c, from, SetToSortSeq(Adjacent(c, P) \ {from}, <), P)

DfsAll(s, c, from, next, P) ==
    IF next = <<>> THEN s
    ELSE LET n == Head(next)
             after == IF n \in DOMAIN s.found
                      THEN [s EXCEPT !.low[c] = Smaller(@, s.found[n])]
                      ELSE LET r == Dfs(s, n, c, P)
                           IN  [r EXCEPT !.low[c] = Smaller(@, r.low[n]),
                                         !.bridges = @ + (IF IsBridge(r.low[n], r.found[c]) THEN 1 ELSE 0)]
         IN  DfsAll(after, c, from, Tail(next), P)

RECURSIVE DfsFrom(_, _, _)

DfsFrom(s, cs, P) ==
    IF cs = <<>> THEN s
    ELSE DfsFrom(IF Head(cs) \in DOMAIN s.found THEN s ELSE Dfs(s, Head(cs), Nothing, P), Tail(cs), P)

BridgeEdgeCount(P) ==
    DfsFrom([time |-> 0, found |-> <<>>, low |-> <<>>, bridges |-> 0], SetToSortSeq(Cards, <), P).bridges

-----------------------------------------------------------------------------
(* The operations.                                                         *)

Fits(L) ==
    LET n == Cardinality(L)
        m == Cardinality({l[3] : l \in L})
    IN  n <= (IF m > 1 THEN MaxMixed ELSE MaxLinks)

AddLink(a, b, t) ==
    /\ a # b /\ <<a, b, t>> \notin links
    /\ Fits(links \cup {<<a, b, t>>})
    /\ links' = links \cup {<<a, b, t>>}
    /\ UNCHANGED <<claim, edges>>

RemoveLink(l) ==
    /\ links' = links \ {l}
    /\ UNCHANGED <<claim, edges>>

LinkNext == \/ \E a, b \in Cards, t \in LinkTypes : AddLink(a, b, t)
            \/ \E l \in links : RemoveLink(l)

Init ==
    /\ claim \in Claims /\ links = {}
    /\ edges \in {{}} \cup {{e} : e \in Relations}

-----------------------------------------------------------------------------
(* Reference definitions and properties.                                   *)

TypeOK == links \subseteq Cards \X Cards \X LinkTypes /\ claim \in Claims

Options == [depth : 1..3, max : {2, 80}, stop : BOOLEAN]

RECURSIVE Within(_, _, _)

(* Cards that support S over at most k links, not looking behind facts if  *)
(* the trace stops there.                                                  *)
Within(S, k, o) ==
    IF k = 0 THEN {}
    ELSE LET next == UNION {Supporters(c) : c \in S}
         IN  next \cup Within({c \in next : ~(o.stop /\ claim[c] = "fact")}, k - 1, o)

(* Without truncation the evidence trace shows every card within its       *)
(* depth, except behind a card that was first printed at the limit though  *)
(* a shorter path leads to it; it is truncated only if a card is missing;  *)
(* and it marks a cycle exactly if the links it followed contain one.      *)
EvidenceTraceComplete ==
    \A c \in Cards, o \in Options :
        LET w == EvidenceTrace(c, o)
            shown == {w.lines[k].card : k \in DOMAIN w.lines}
            late == {w.lines[k].card : k \in {j \in DOMAIN w.lines :
                        /\ w.lines[j].mark = "new" /\ w.lines[j].depth = o.depth
                        /\ w.lines[j].card \in Within({c}, o.depth - 1, o)}}
            within == Within({c}, o.depth, o) \ {c}
            followed == {c} \cup {w.lines[k].card : k \in {j \in DOMAIN w.lines :
                            /\ w.lines[j].mark = "new" /\ w.lines[j].depth < o.depth
                            /\ ~(o.stop /\ claim[w.lines[j].card] = "fact")}}
            cyclic == \E d \in followed : \E P \in SUBSET followed :
                          d \in P /\ P # {} /\ \A x \in P : Supporters(x) \cap P # {}
        IN  /\ shown \subseteq within \cup {c}
            /\ w.truncated => within \ shown # {} /\ w.expanded = o.max
            /\ ~w.truncated /\ within \ shown # {} =>
                  late # {} /\ within \ shown \subseteq Within(late, o.depth, o)
            /\ ~w.truncated =>
                  ((\E k \in DOMAIN w.lines : w.lines[k].mark = "cycle") <=> cyclic)

Ball(c, T, k) == Grow({c}, T, k)

(* Without truncation the contradiction network is the ball of its depth,  *)
(* each card at its distance; a cycle is marked exactly if its pairs of    *)
(* cards are more than a tree; the analytics of the same links count no    *)
(* fewer cycles, and count a mutual contradiction as one.                  *)
ContradictionTraceExact ==
    \A c \in Cards, o \in {p \in Options : ~p.stop} :
        LET b == ContradictionTrace(c, o)
            S == DOMAIN b.depth
            a == Analytics(c, {"contradicts"}, o)
            pairs == {{l[1], l[2]} : l \in LinksWithin(S, {"contradicts"})}
        IN  /\ \A d \in S : d \in Ball(c, {"contradicts"}, b.depth[d])
            /\ ~b.truncated =>
                  /\ S = Ball(c, {"contradicts"}, o.depth)
                  /\ \A d \in S \ {c} : d \notin Ball(c, {"contradicts"}, b.depth[d] - 1)
                  /\ (CycleMarks(b) # {}) <=> Cardinality(pairs) >= Cardinality(S)
            /\ b.truncated => b.expanded = o.max
            /\ ~a.truncated =>
                  /\ DOMAIN a.depth = Ball(c, {"contradicts"}, o.depth)
                  /\ CycleCount(DOMAIN a.depth, {"contradicts"}) =
                      Cardinality(LinksWithin(DOMAIN a.depth, {"contradicts"})) - Cardinality(DOMAIN a.depth) + 1
            /\ Neighbourhood(c, {"contradicts"}, o.depth) = Ball(c, {"contradicts"}, o.depth)

(* The bridges counted by low links are the pairs whose removal separates  *)
(* a component.                                                            *)
BridgesExact ==
    LET P == Pairs
    IN  /\ BridgeEdgeCount(P) =
             Cardinality({p \in P : Cardinality(ConnectedComponents(P \ {p})) > Cardinality(ConnectedComponents(P))})
        /\ \A c \in Isolated(P) : {c} \in ConnectedComponents(P)

(* The two checks of fact grounding agree up to mutual contradictions.     *)
GroundingAgrees ==
    /\ (Ungrounded # {}) <=> (UngroundedPairs # {})
    /\ Cardinality(Ungrounded) - Cardinality(UngroundedPairs) =
         Cardinality({p \in UngroundedPairs : \E x, y \in p : <<x, y, "contradicts">> \in links /\ <<y, x, "contradicts">> \in links /\ x # y})
=============================================================================
