----------------------------- MODULE MCSnapshot -----------------------------
(* The document store where a transaction reads one snapshot, and - sharing  *)
(* nothing with it - the view of a document: islands o around m around i in  *)
(* document "a", island p in document "b".                                   *)
EXTENDS MCDocumentStore, CanvasView

VARIABLE explored

SampleChain == [i \in {"o", "m", "i", "p"} |->
    CASE i = "m" -> <<"o">> [] i = "i" -> <<"m", "o">> [] OTHER -> <<>>]

(* Card 4 is listed in two islands, card 5 in none. *)
SampleHome == (1 :> {"o"}) @@ (2 :> {"m"}) @@ (3 :> {"i"}) @@ (4 :> {"o", "i"}) @@ (5 :> {}) @@ (6 :> {"p"})

SampleStructure == ("a" :> {"o", "m", "i"}) @@ ("b" :> {"p"})

SamplePlacard == [i \in {"o", "m", "i", "p"} |-> CASE i = "o" -> 1 [] i = "i" -> 3 [] OTHER -> 0]

SampleGrounding == [i \in {"o", "m", "i", "p"} |->
    CASE i = "o" -> {3, 5} [] i = "m" -> {2} [] OTHER -> {}]

SampleFile ==
    [summary |-> FALSE, abstract |-> TRUE, maxDepth |-> 1, level |-> "mid", focus |-> "m",
     collapsed |-> {"i", "o"}, lod |-> TRUE, perspective |-> "facts", strict |-> TRUE]


SnapshotInit ==
    /\ explored \in {"store", "collapse", "show"}
    /\ Init
    /\ IF explored = "store" THEN ui = Nowhere /\ stored = Nowhere /\ storedMode = Nowhere /\ past = Nowhere /\ future = Nowhere /\ reading = Nowhere /\ drift = Nowhere /\ actions = 0
       ELSE committed.row = NoRow /\ ViewInit /\ ui.document = [NewDoc("a") EXCEPT !.collapsed = {"o"}]

SnapshotNext ==
    /\ UNCHANGED explored
    /\ \/ explored = "store" /\ Next /\ UNCHANGED viewVars
       \/ explored = "collapse" /\ CollapseNext /\ UNCHANGED vars
       \/ explored = "show" /\ ShowNext /\ UNCHANGED vars
       \/ explored # "store" /\ actions = MaxActions /\ UNCHANGED <<vars, viewVars>>

SnapshotSpec == SnapshotInit /\ [][SnapshotNext]_<<explored, vars, viewVars>>

(* The effects of the view come to rest, focus and selection are on islands *)
(* the canvas shows, level follows depth, the preset of the mode prevails,  *)
(* the cards of a collapsed island stay hidden unless asked for, an open    *)
(* island shows its cards, and view and document agree on what is collapsed *)
(* unless a nested expansion, undo, reload, preset or file came between.    *)
ViewInvariant ==
    explored # "store" =>
        /\ ViewTypeOK /\ ComesToRest /\ OnWhatIsShown /\ LevelFollowsDepth
        /\ ModeDictates /\ CollapsedStaysHidden /\ OpenShowsCards /\ CollapseInStep
=============================================================================
