---------------------------- MODULE MCWorkspace ----------------------------
(* Two parts of the frontend that share nothing, each explored on its own: *)
(* the tenant session of two browser tabs, and merging and patching a      *)
(* document.                                                               *)
EXTENDS TenantSession, FiniteSets, TLC

CONSTANTS Cards, Islands, Edges, Links, Absent, Joined, Ends, Contents, Start, Others,
          MaxEdits, w1, w2

VARIABLES
    explored,   \* the component this behaviour is about
    doc, base, incoming, confirmed, premerge, original, patch, chosen, theirs,
    baseline, edits, did

mergeVars == <<doc, base, incoming, confirmed, premerge, original, patch, chosen,
               theirs, baseline, edits, did>>

SampleEnds == [i \in Edges \cup Links |-> IF i \in Links THEN {"a", "n"} ELSE {"a", "q"}]

SampleStart == [i \in Cards \cup Islands \cup Edges \cup Links |->
            CASE i = "a" -> w1 [] i = "n" -> w1 [] i = "q" -> {"a"}
              [] i = "l" -> Joined [] OTHER -> Absent]

(* Comparison files: a card and its link removed; everything added; a      *)
(* rewritten card without its island.                                      *)
SampleOthers ==
    {[SampleStart EXCEPT !["n"] = Absent, !["l"] = Absent],
     [SampleStart EXCEPT !["n"] = w2, !["q"] = {"a", "n"}, !["e"] = Joined],
     [SampleStart EXCEPT !["a"] = w2, !["q"] = Absent, !["l"] = Absent]}

Merge == INSTANCE DocumentMerge

(* Identifiers tell what they are for; an edge joins cards and islands, a  *)
(* link cards; what is opened and compared are documents.                  *)
ASSUME MergeAssumption ==
    /\ IsFiniteSet(Merge!Ids) /\ Cards \cap Islands = {}
    /\ (Cards \cup Islands) \cap (Edges \cup Links) = {}
    /\ \A i \in Edges : Ends[i] \subseteq Cards \cup Islands
    /\ \A i \in Links : Ends[i] \subseteq Cards
    /\ Absent # Joined /\ Absent \notin Contents /\ \A S \in SUBSET Cards : Absent # S
    /\ Merge!IsDoc(Start) /\ \A d \in Others : Merge!IsDoc(d)
    /\ MaxEdits \in Nat

Symmetry == Permutations(Pages)

WorkspaceInit ==
    /\ explored \in {"tenant", "merge"}
    /\ Init /\ Merge!Init

WorkspaceNext ==
    /\ UNCHANGED explored
    /\ \/ explored = "tenant" /\ Next /\ UNCHANGED mergeVars
       \/ explored = "merge" /\ Merge!Next /\ UNCHANGED vars

WorkspaceSpec == WorkspaceInit /\ [][WorkspaceNext]_<<explored, vars, mergeVars>>

(* applyMergeTransaction never overwrites what was edited locally, and a   *)
(* patch keeps what both sides changed until "theirs" is chosen.           *)
LocalWorkKept == Merge!MergeKeepsLocalWork /\ Merge!ConflictsStayYours

(* A merge, and a patch applied whole, leave a sound document sound, and   *)
(* the fixes lint proposes remove the errors they were proposed for.       *)
ReferencesKept ==
    Merge!MergeKeepsReferences /\ Merge!WholePatchKeepsReferences /\ Merge!FixesResolve
=============================================================================
