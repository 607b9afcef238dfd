---------------------------- MODULE MCRetention ----------------------------
(* Two server components that share nothing, each explored on its own: the *)
(* CE4 context audit, and retention pruning on every acyclic history of    *)
(* four revisions.                                                         *)
EXTENDS Ce4AuditTrail, TLC

CONSTANTS k1, k2, h1, h2, Revs, KeepPerRoot

ASSUME KeepAssumption == KeepPerRoot \in Nat \ {0}
(* Revisions are numbered as they were saved. *)
ASSUME RevsAssumption == IsFiniteSet(Revs) /\ Revs \subseteq Nat

VARIABLES
    explored,   \* the component this behaviour is about
    tier, anchors, expired, parents, alive, pending, best, retained, remaining, phase

pruneVars == <<tier, anchors, expired, parents, alive, pending, best, retained, remaining, phase>>

Earlier(a, b) == a < b

Prune == INSTANCE RetentionPrune WITH Older <- Earlier

Symmetry == Permutations(Keys) \cup Permutations(Hashes)

(* While the trail is explored there is one plain history to prune. *)
PlainHistory == tier = [r \in Revs |-> "checkpoint"] /\ expired = {} /\ parents = {}

RetentionInit ==
    /\ explored \in {"trail", "prune"}
    /\ Prune!Init
    /\ explored = "trail" => PlainHistory
    /\ TrailInit

RetentionNext ==
    /\ UNCHANGED explored
    /\ \/ explored = "trail" /\ TrailNext /\ UNCHANGED pruneVars
       \/ explored = "prune" /\ Prune!Next /\ UNCHANGED vars

RetentionSpec == RetentionInit /\ [][RetentionNext]_<<explored, vars, pruneVars>>

(* Pruning retains exactly what the policy defines, in every order of the  *)
(* worklist; no parent edge dangles while candidates are deleted; and no   *)
(* candidate is found protected at its deletion.                           *)
PruneInvariant ==
    /\ Prune!TypeOK
    /\ Prune!RetainedAsSpecified
    /\ Prune!GraphIntact
    /\ Prune!NeverConflicts
=============================================================================
