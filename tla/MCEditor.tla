------------------------------ MODULE MCEditor ------------------------------
(* Parts of the editor that share nothing but the document they change,    *)
(* each explored on its own: the life of the open document, the review     *)
(* flags with the calls of models, merging cards on suggestions, and the   *)
(* pictures of islands.                                                    *)
EXTENDS EditorSession, TLC

CONSTANTS Islands, TrailLimit, AttemptLimit, MaxCalls, ReviewHistory, MaxReviewEdits,
          Cards, Reps, Groups, EventLimit, MaxChanges, MaxRequests,
          Tabs, CueDocs, Refs, CueHistory, MaxHistories

VARIABLES
    explored,   \* the part this behaviour is about
    page, pagePast, pageFuture, preview, attempts, offer, box, flights, decided, vouched,
    readOnly, sent, revisions,
    board, boardPast, boardFuture, panel, asked, events, decisions, made, requests, changes,
    stored, cloud, view, sweeps, easel, drawn, unkept, exposed, rounds

Review == INSTANCE ReviewTrust WITH HistoryLimit <- ReviewHistory, MaxEdits <- MaxReviewEdits

ASSUME ReviewAssumption == {TrailLimit, AttemptLimit, MaxCalls, ReviewHistory} \subseteq Nat

Suggestions == INSTANCE MergeSuggestions

ASSUME SuggestionsAssumption == EventLimit \in Nat /\ Suggestions!NoRep \notin Reps

Cues == INSTANCE CueAssets WITH Docs <- CueDocs, HistoryLimit <- CueHistory,
                                MaxTurns <- MaxHistories

ASSUME CueAssumption == CueHistory \in Nat /\ Cues!NoDoc \notin CueDocs /\ Cues!NoCue \notin Refs

reviewVars == <<page, pagePast, pageFuture, preview, attempts, offer, box, flights,
                decided, vouched, readOnly, sent, revisions>>
mergeVars == <<board, boardPast, boardFuture, panel, asked, events, decisions, made,
               requests, changes>>
cueVars == <<stored, cloud, view, sweeps, easel, drawn, unkept, exposed, rounds>>

Symmetry == Permutations(Islands) \cup Permutations(Tabs)

(* A part that is not explored stays in one of its initial states. *)
PlainServer == \A d \in Docs : server[d].rev = 1 /\ ~server[d].archived
PlainPage == ~readOnly /\ page = Review!Start(Review!Fresh)

EditorInit ==
    /\ explored \in {"document", "review", "suggestions", "cues"}
    /\ Init /\ Review!Init /\ Suggestions!Init /\ Cues!Init
    /\ explored # "document" => PlainServer
    /\ explored # "review" => PlainPage
    /\ view = [t \in Tabs |-> Cues!Opened(CHOOSE d \in CueDocs : TRUE, Cues!NoCue)]

EditorNext ==
    /\ UNCHANGED explored
    /\ \/ explored = "document" /\ Next /\ UNCHANGED <<reviewVars, mergeVars, cueVars>>
       \/ explored = "review" /\ Review!Next /\ UNCHANGED <<vars, mergeVars, cueVars>>
       \/ explored = "suggestions" /\ Suggestions!Next /\ UNCHANGED <<vars, reviewVars, cueVars>>
       \/ explored = "cues" /\ Cues!Next /\ UNCHANGED <<vars, reviewVars, mergeVars>>

EditorSpec == EditorInit /\ [][EditorNext]_<<explored, vars, reviewVars, mergeVars, cueVars>>

(* What is marked as reviewed was typed or vouched for by a person, the    *)
(* newest entry of a summary's history is the text that is shown, and an   *)
(* adopted summary is one the server recorded an adoption of.              *)
ReviewInvariant ==
    /\ Review!TypeOK
    /\ Review!ReviewedIsVouched
    /\ Review!TrailEndsInPresent
    /\ Review!AdoptedIsDecided

(* A representative stands for the cards a decision accepted, every        *)
(* decision in the document has its audit event, and applying a suggestion *)
(* follows the latest decision of its group.                               *)
SuggestionsFollowDecisions ==
    /\ []Suggestions!TypeOK
    /\ []Suggestions!DecisionsAudited
    /\ []Suggestions!MergeFollowsDecision
    /\ Suggestions!MergeFollowsLatest

(* Undo and redo always find the picture a document of the history names,  *)
(* and a picture no history names is swept, with several tabs, late and    *)
(* failed sweeps, restored packs and editors that save too late.           *)
CueInvariant == Cues!TypeOK /\ Cues!HistoryHasAssets /\ Cues!Collected
=============================================================================
