--------------------------- MODULE MCGenerationGC ---------------------------
(* The collection of revisions and blobs, and - sharing nothing with it -  *)
(* what the workspace computes about the evidence of a document, on every  *)
(* small set of evidence links.                                            *)
EXTENDS GenerationGC, TLC, Integers

CONSTANTS v1, v2, v3, d1, d2, d3, s1, s2, Cards, MaxLinks, MaxMixed

VARIABLES explored, claim, links, edges

(* d2 is stored as a delta of d1; d3 is kept by an external backend. *)
DeltaBase == [d \in Digests |-> IF d = d2 THEN d1 ELSE None]

Symmetry == Permutations(Revs) \cup Permutations(Savers)

SampleClaims ==
    {<<"hypothesis", "claim", "fact", "unknown">>, <<"claim", "fact", "fact", "hypothesis">>}

SampleRelations == {[from |-> 1, to |-> 2], [from |-> 3, to |-> 4]}

Checks == INSTANCE DocumentChecks WITH Claims <- SampleClaims, Relations <- SampleRelations

checkVars == <<claim, links, edges>>

GCInit ==
    /\ explored \in {"gc", "links"}
    /\ Checks!Init
    /\ explored = "gc" => edges = {} /\ claim = CHOOSE f \in SampleClaims : TRUE
    /\ Init
    /\ explored = "links" =>
          blobs = [d \in Digests |-> IF d = d1 THEN "ready" ELSE "absent"] /\ head = v1 /\ revs[v2] # NoRev
          /\ revs[v2].tier = "checkpoint"

GCNext ==
    /\ UNCHANGED explored
    /\ \/ explored = "gc" /\ Next /\ UNCHANGED checkVars
       \/ explored = "links" /\ Checks!LinkNext /\ UNCHANGED vars

GCSpec == GCInit /\ [][GCNext]_<<explored, vars, checkVars>>

(* The traces show what their depth and limits promise, cycles and bridges *)
(* are found exactly, and checks of one thing agree.                       *)
ChecksInvariant ==
    explored = "links" =>
        /\ Checks!TypeOK
        /\ Checks!EvidenceTraceComplete /\ Checks!ContradictionTraceExact
        /\ Checks!BridgesExact /\ Checks!GroundingAgrees
=============================================================================
