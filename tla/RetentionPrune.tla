--------------------------- MODULE RetentionPrune ---------------------------
(***************************************************************************)
(* prune_ephemeral_history_by_reachability (generation_repository.py): the *)
(* worklist that marks what to retain, popping in any order (the roots     *)
(* come from a set), the cut of boundary edges and the child-first         *)
(* deletion.  The transaction holds every revision row FOR UPDATE, so the  *)
(* graph does not change underneath it.                                    *)
(***************************************************************************)
EXTENDS Naturals, FiniteSets, FiniteSetsExt

CONSTANTS
    Revs,          \* revision ids
    KeepPerRoot,   \* ephemeral revisions kept on each path from a root
    Older(_, _)    \* Older(a, b): a may be an ancestor of b (ids in save order)

VARIABLES
    tier,       \* generation_tier: "ephemeral" or durable
    anchors,    \* revisions a head, a pin or a source reference names
    expired,    \* revisions created before older_than
    parents,    \* parent edges <<child, parent>>
    alive,      \* revisions not deleted
    pending,    \* worklist of <<revision, ephemeral count>>
    best,       \* best_ephemeral_count, Unseen where there is none
    retained,
    remaining,  \* candidates still to delete
    phase       \* "mark", "sweep", "done" or "conflict"

vars == <<tier, anchors, expired, parents, alive, pending, best, retained, remaining, phase>>
graph == <<tier, anchors, expired>>

(* More than any path counts and than the policy keeps. *)
Unseen == Cardinality(Revs) + KeepPerRoot + 1

Weight(r) == IF tier[r] = "ephemeral" THEN 1 ELSE 0

Roots == {r \in Revs : tier[r] # "ephemeral"} \cup anchors

Init ==
    /\ tier \in [Revs -> {"ephemeral", "checkpoint"}]
    /\ anchors \in SUBSET {r \in Revs : tier[r] = "ephemeral"}
    /\ expired \in SUBSET Revs     \* created_at comes from the client's clock
    /\ parents \in SUBSET {e \in Revs \X Revs : Older(e[2], e[1])}
    /\ alive = Revs
    /\ pending = {<<r, Weight(r)>> : r \in Roots}
    /\ best = [r \in Revs |-> Unseen]
    /\ retained = {}
    /\ remaining = {}
    /\ phase = "mark"

(* Mutant of Improves: a revision is expanded once, at its first count. *)
ImprovesFirst(r, n) == best[r] = Unseen

(* "if previous is not None and previous <= ephemeral_count: continue" *)
Improves(r, n) == n < best[r]

(* Mutant of Within: one more than the policy allows. *)
WithinOneMore(n) == n <= KeepPerRoot + 1

Within(n) == n <= KeepPerRoot

ParentsOf(r) == {p \in Revs : <<r, p>> \in parents}

(* One turn of the marking loop. *)
Mark ==
    /\ phase = "mark"
    /\ \E item \in pending :
         LET r == item[1]
             n == item[2]
             expand == Improves(r, n) /\ Within(n)
         IN  /\ best' = IF Improves(r, n) THEN [best EXCEPT ![r] = n] ELSE best
             /\ retained' = IF expand THEN retained \cup {r} ELSE retained
             /\ pending' = (pending \ {item}) \cup
                  (IF expand THEN {<<p, n + Weight(p)>> : p \in ParentsOf(r)} ELSE {})
    /\ UNCHANGED <<graph, parents, alive, remaining, phase>>

(* Mutant of Candidates: age and tier alone. *)
CandidatesByAge == {r \in Revs : tier[r] = "ephemeral" /\ r \in expired}

(* Ephemeral, older than the limit and not marked. *)
Candidates == {r \in Revs : tier[r] = "ephemeral" /\ r \in expired /\ r \notin retained}

(* Mutant of CutBoundary: edges into the candidates stay. *)
CutNothing(candidates) == parents

(* Edges from what stays into what goes. *)
CutBoundary(candidates) ==
    {e \in parents : ~(e[2] \in candidates /\ e[1] \notin candidates)}

(* The worklist is empty: candidates and the boundary cut. *)
StartSweep ==
    /\ phase = "mark" /\ pending = {}
    /\ remaining' = Candidates
    /\ parents' = CutBoundary(Candidates)
    /\ phase' = "sweep"
    /\ UNCHANGED <<graph, alive, pending, best, retained>>

(* No child of r is still to be deleted. *)
Ready(r) == \A c \in remaining : <<c, r>> \notin parents

(* delete_ephemeral_gc_candidate's conditions, evaluated once more. *)
Unprotected(r) ==
    /\ tier[r] = "ephemeral" /\ r \in expired /\ r \notin anchors
    /\ \A e \in parents : e[2] # r

DeleteNext ==
    /\ phase = "sweep"
    /\ \E r \in remaining :
         /\ Ready(r)
         /\ IF Unprotected(r)
            THEN /\ alive' = alive \ {r}
                 /\ parents' = {e \in parents : e[1] # r}
                 /\ remaining' = remaining \ {r}
                 /\ UNCHANGED phase
            ELSE /\ phase' = "conflict"
                 /\ UNCHANGED <<alive, parents, remaining>>
    /\ UNCHANGED <<graph, pending, best, retained>>

(* No candidate is left, or none is ready: a cycle. *)
EndSweep ==
    /\ phase = "sweep"
    /\ \A r \in remaining : ~Ready(r)
    /\ phase' = IF remaining = {} THEN "done" ELSE "conflict"
    /\ UNCHANGED <<graph, parents, alive, pending, best, retained, remaining>>

Ended == phase \in {"done", "conflict"} /\ UNCHANGED vars

Next == Mark \/ StartSweep \/ DeleteNext \/ EndSweep \/ Ended

Spec == Init /\ [][Next]_vars

----------------------------------------------------------------------------
(* Reference definition: the fewest ephemeral revisions on a path of n     *)
(* edges or less from a root to r, both ends counted; shorter tells it for *)
(* paths of one edge less.                                                 *)
FewestFrom(shorter) ==
    [r \in Revs |->
        LET asRoot == IF r \in Roots THEN {Weight(r)} ELSE {}
            viaChild == {shorter[c] + Weight(r) : c \in {x \in Revs : <<x, r>> \in parents}}
        IN  Min(asRoot \cup viaChild \cup {Unseen})]

NoPath == [r \in Revs |-> Unseen]

Fewest[n \in 0..Cardinality(Revs)] == FewestFrom(IF n = 0 THEN NoPath ELSE Fewest[n - 1])

(* Types; the worklist never counts further than one past the limit.       *)
TypeOK ==
    /\ parents \subseteq Revs \X Revs
    /\ alive \subseteq Revs
    /\ pending \subseteq Revs \X (0..(KeepPerRoot + 1))
    /\ best \in [Revs -> 0..Unseen]
    /\ retained \subseteq Revs
    /\ remaining \subseteq Revs
    /\ phase \in {"mark", "sweep", "done", "conflict"}

(* ADR-0070, decision 19: whatever the order in which the worklist is      *)
(* popped, what is retained is exactly what lies within the configured     *)
(* number of ephemeral revisions of some root on some parent path.         *)
RetainedAsSpecified ==
    (phase = "mark" /\ pending = {}) =>
        retained = {r \in Revs : Fewest[Cardinality(Revs)][r] <= KeepPerRoot}

(* No edge ever points to or from a deleted revision, and everything that  *)
(* had to stay is alive.                                                   *)
GraphIntact ==
    /\ \A e \in parents : e[1] \in alive /\ e[2] \in alive
    /\ phase # "mark" => retained \cup Roots \subseteq alive

(* On an acyclic history the pruning never aborts with GenerationGcConflict*)
NeverConflicts == phase # "conflict"
=============================================================================
