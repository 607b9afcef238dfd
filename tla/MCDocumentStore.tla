-------------------------- MODULE MCDocumentStore --------------------------
(* Instances of DocumentStore for TLC. *)
EXTENDS DocumentStore, TLC

CONSTANTS r1, r2, r3, t1, t2, t3

(* Every text is its own canonical value. *)
CanonInjective == [t \in Texts |-> t]

(* t1 and t2 differ in the key order of a free-form mapping only           *)
(* (ReproposalDiffOp.before / after), so they have one canonical value.    *)
CanonShared == [t \in Texts |-> IF t = t2 THEN t1 ELSE t]

Symmetry == Permutations(Requests)
=============================================================================
