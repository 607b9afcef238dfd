-------------------------- MODULE RetentionProofs --------------------------
(***************************************************************************)
(* Proofs about Ce4AuditTracker and Ce4AuditTrail for any keys, hashes,    *)
(* caps, sweep intervals and times to live: forgetting never makes an      *)
(* incomplete apply pass, and every operation recorded reaches the sink.   *)
(* RetentionPrune, as MCRetention runs it beside them, for any history and *)
(* order of the worklist: it retains exactly what the policy names.        *)
(***************************************************************************)
EXTENDS MCRetention, FiniteSetTheorems, WellFoundedInduction, TLAPS

(* The tracker remembers less than what happened, never something else:    *)
(* its operations were recorded, and the source of an entry is that of the *)
(* newest proposal, because an entry that saw a proposal is updated by     *)
(* every later one or is forgotten as a whole.                             *)
TrackerIsMemory ==
    /\ DOMAIN tracker = Keys
    /\ \A k \in Keys :
         /\ tracker[k].seen \subseteq recorded[k]
         /\ tracker[k].source # None <=> "proposal" \in tracker[k].seen
         /\ tracker[k].source # None => tracker[k].source = proposed[k]

HistoryOK == DOMAIN recorded = Keys /\ DOMAIN proposed = Keys
             /\ recorded \in [Keys -> SUBSET Operations]

TrackerInv == TrackerIsMemory /\ HistoryOK /\ ApplyComplete

(* A sweep forgets whole entries. *)
LEMMA EvictForgets ==
    ASSUME NEW t, NEW k \in Keys
    PROVE  Evict(t)[k] \in {t[k], NoEntry}
  BY DEF Evict

LEMMA RecordKeepsMemory ==
    ASSUME TrackerInv, NEW k \in Keys, NEW op \in Operations, NEW source,
           op \in {"proposal", "apply"} <=> source # None, Record(k, op, source)
    PROVE  TrackerInv'
  <1> DEFINE fetched == WithEntry(k)
             kept == IF counter % EvictEvery = 0 THEN Evict(fetched) ELSE fetched
             new == NewSource(fetched[k].source, op, source)
             state == [seen |-> fetched[k].seen \cup {op}, source |-> new, touched |-> clock]
  <1>1. /\ tracker' = IF kept[k] = NoEntry THEN kept ELSE [kept EXCEPT ![k] = state]
        /\ recorded' = [recorded EXCEPT ![k] = @ \cup {op}]
        /\ proposed' = [proposed EXCEPT ![k] = NewSource(@, op, source)]
        /\ last' = [event |-> [key |-> k, op |-> op, source |-> source],
                    answer |-> Answer(op, source, state.source, state.seen)]
    BY DEF Record
  <1>2. /\ DOMAIN fetched = Keys
        /\ \A l \in Keys : l # k => fetched[l] = tracker[l]
        /\ fetched[k].seen \subseteq recorded[k]
        /\ fetched[k].source # None <=> "proposal" \in fetched[k].seen
        /\ fetched[k].source # None => fetched[k].source = proposed[k]
    BY DEF WithEntry, TrackerInv, TrackerIsMemory
  <1>3. DOMAIN kept = Keys /\ \A l \in Keys : kept[l] \in {fetched[l], NoEntry}
    BY <1>2, EvictForgets DEF Evict
  <1>4. state.seen = fetched[k].seen \cup {op} /\ state.source = new
    OBVIOUS
  <1>5. NoEntry.seen = {} /\ NoEntry.source = None
    BY DEF NoEntry
  <1>6. /\ new # None <=> "proposal" \in fetched[k].seen \cup {op}
        /\ new # None => new = proposed'[k]
        /\ op \in recorded'[k] /\ fetched[k].seen \subseteq recorded'[k]
    BY <1>1, <1>2 DEF NewSource, TrackerInv, HistoryOK, Operations
  <1> HIDE DEF fetched, kept, new, state
  <1>7. HistoryOK'
    BY <1>1 DEF TrackerInv, HistoryOK
  <1>8. TrackerIsMemory'
    <2>1. \A l \in Keys : l # k => tracker'[l] = kept[l] /\ recorded'[l] = recorded[l] /\ proposed'[l] = proposed[l]
      BY <1>1, <1>3 DEF TrackerInv, HistoryOK
    <2>2. tracker'[k] \in {NoEntry, state}
      BY <1>1, <1>3
    <2>3. DOMAIN tracker' = Keys
      BY <1>1, <1>3
    <2>4. QED
      BY <1>2, <1>3, <1>4, <1>5, <1>6, <2>1, <2>2, <2>3 DEF TrackerInv, TrackerIsMemory
  <1>9. ApplyComplete'
    <2>1. SUFFICES ASSUME op = "apply", Answer(op, source, new, state.seen) = "accepted"
                   PROVE  recorded'[k] = Operations /\ proposed'[k] = source
      BY <1>1, <1>4 DEF ApplyComplete
    <2>2. Missing(state.seen) = {} /\ (new = None \/ source = new)
      BY <2>1 DEF Answer
    <2>3. Operations \subseteq state.seen
      BY <2>2 DEF Missing
    <2>4. recorded'[k] = Operations
      BY <1>4, <1>6, <1>7, <2>3 DEF HistoryOK
    <2>5. new # None /\ source = new
      BY <1>4, <1>6, <2>1, <2>2, <2>3 DEF Operations
    <2>6. QED
      BY <1>6, <2>4, <2>5
  <1>10. QED
    BY <1>7, <1>8, <1>9 DEF TrackerInv

LEMMA NextTrackerInv == TrackerInv /\ [Next]_trackerVars => TrackerInv'
  <1> SUFFICES ASSUME TrackerInv, [Next]_trackerVars PROVE TrackerInv'
    OBVIOUS
  <1>1. CASE UNCHANGED trackerVars \/ LongPause \/ Ended
    BY <1>1 DEF trackerVars, LongPause, Ended, TrackerInv, TrackerIsMemory, HistoryOK, ApplyComplete
  <1>2. CASE Restart
    BY <1>2 DEF Restart, TrackerInv, TrackerIsMemory, HistoryOK, ApplyComplete, NoEntry
  <1>3. CASE Receive
    BY <1>3, RecordKeepsMemory DEF Receive
  <1>4. QED
    BY <1>1, <1>2, <1>3 DEF Next

LEMMA InitTrackerInv == Init => TrackerInv
  BY DEF Init, TrackerInv, TrackerIsMemory, HistoryOK, ApplyComplete, NoEntry

(* Whatever the tracker forgets, by its cap, its times to live or a        *)
(* restart, an apply that is accepted follows all four operations on its   *)
(* key and carries the source of the newest proposal.                      *)
THEOREM AcceptedApplyIsComplete == Spec => []ApplyComplete
  <1>1. TrackerInv => ApplyComplete
    BY DEF TrackerInv
  <1>2. QED
    BY <1>1, InitTrackerInv, NextTrackerInv, PTL DEF Spec

----------------------------------------------------------------------------
(* What was recorded is delivered or on its way, and only what was         *)
(* delivered suppresses anything.                                          *)
NothingSlips ==
    /\ \A k \in Keys : \A op \in recorded[k] \ {"apply"} :
         \/ <<op, k>> \in sink
         \/ \E e \in accepted : e.op = op /\ e.key = k
    /\ recent \subseteq sink

LEMMA NextNothingSlips == TrackerInv /\ NothingSlips /\ [TrailNext]_vars => NothingSlips'
  <1> SUFFICES ASSUME TrackerInv, NothingSlips, [TrailNext]_vars PROVE NothingSlips'
    OBVIOUS
  <1> USE DEF NothingSlips
  <1>1. CASE UNCHANGED <<recorded, accepted, recent, sink>>
    BY <1>1
  <1>2. CASE Accept
    <2>1. PICK k \in Keys, op \in Operations, source \in Hashes \cup {None} : Record(k, op, source)
      BY <1>2 DEF Accept, Receive
    <2> DEFINE e == [key |-> k, op |-> op, source |-> source]
    <2>2. /\ recorded' = [recorded EXCEPT ![k] = @ \cup {op}]
          /\ last'.event = e /\ (op # "apply" => last'.answer = "accepted")
      BY <2>1 DEF Record, Answer
    <2>3. /\ accepted \subseteq accepted' /\ (op # "apply" => e \in accepted')
          /\ UNCHANGED <<recent, sink>>
      BY <1>2, <2>2 DEF Accept
    <2>4. e.op = op /\ e.key = k
      OBVIOUS
    <2> HIDE DEF e
    <2>5. QED
      BY <2>2, <2>3, <2>4 DEF TrackerInv, HistoryOK
  <1>3. ASSUME NEW e \in accepted, Emit(e)
        PROVE  NothingSlips'
    <2>1. <<e.op, e.key>> \in sink' /\ sink \subseteq sink'
      BY <1>3 DEF Emit, DedupKey
    <2>2. recent' \subseteq sink'
      BY <1>3 DEF Emit, DedupKey
    <2>3. accepted' = accepted \ {e} /\ recorded' = recorded
      BY <1>3 DEF Emit, trackerVars
    <2>4. QED
      BY <2>1, <2>2, <2>3
  <1>4. ASSUME NEW d \in recent, WindowEnds(d)
        PROVE  NothingSlips'
    BY <1>4 DEF WindowEnds, trackerVars
  <1>5. QED
    BY <1>1, <1>2, <1>3, <1>4
       DEF TrailNext, vars, trackerVars, LongPause, Restart, Ended

(* Suppression, overtaking and the tracker's forgetting lose no recorded   *)
(* operation: with nothing left to hand over, each is in the audit sink.   *)
THEOREM RecordedReachesSink == TrailSpec => []RecordedIsAudited
  <1>1. TrailInit => TrackerInv /\ NothingSlips
    BY InitTrackerInv DEF TrailInit, Init, NothingSlips
  <1>2. [TrailNext]_vars => [Next]_trackerVars
    BY DEF TrailNext, Accept, Emit, WindowEnds, Next, vars, trackerVars
  <1>3. NothingSlips => RecordedIsAudited
    BY DEF NothingSlips, RecordedIsAudited
  <1>4. QED
    BY <1>1, <1>2, <1>3, NextTrackerInv, NextNothingSlips, PTL DEF TrailSpec

(* The soundness of the completeness check holds along the trail too. *)
THEOREM TrailAppliesComplete == TrailSpec => []ApplyComplete
  <1>1. TrailInit => TrackerInv
    BY InitTrackerInv DEF TrailInit
  <1>2. [TrailNext]_vars => [Next]_trackerVars
    BY DEF TrailNext, Accept, Emit, WindowEnds, Next, vars, trackerVars
  <1>3. TrackerInv => ApplyComplete
    BY DEF TrackerInv
  <1>4. QED
    BY <1>1, <1>2, <1>3, NextTrackerInv, PTL DEF TrailSpec

-----------------------------------------------------------------------------
(* RetentionPrune, for any finite history and any number to keep.          *)

PruneTypes ==
    /\ tier \in [Revs -> {"ephemeral", "checkpoint"}]
    /\ anchors \subseteq Revs /\ expired \subseteq Revs
    /\ parents \subseteq Revs \X Revs /\ \A e \in parents : e[2] < e[1]
    /\ alive \subseteq Revs /\ retained \subseteq Revs /\ remaining \subseteq Revs
    /\ best \in [Revs -> 0..Prune!Unseen]
    /\ pending \subseteq Revs \X (0..(KeepPerRoot + 1))
    /\ phase \in {"mark", "sweep", "done"}

(* What a revision within the policy leads to is marked or waits.          *)
MarkingCloses ==
    /\ \A r \in Prune!Roots : best[r] <= Prune!Weight(r) \/ <<r, Prune!Weight(r)>> \in pending
    /\ \A e \in parents : best[e[1]] <= KeepPerRoot =>
         \/ best[e[2]] <= best[e[1]] + Prune!Weight(e[2])
         \/ <<e[2], best[e[1]] + Prune!Weight(e[2])>> \in pending
    /\ retained = {r \in Revs : best[r] <= KeepPerRoot}

(* G counts no more than any path from a root.                             *)
LowerBound(G) ==
    /\ \A r \in Prune!Roots : G[r] <= Prune!Weight(r)
    /\ \A e \in parents : G[e[2]] <= G[e[1]] + Prune!Weight(e[2])
    /\ \A r \in Revs : G[r] <= Prune!Unseen

(* The worklist counts no less than the paths do.                          *)
CountsPaths ==
    \A G \in [Revs -> Nat] : LowerBound(G) =>
        /\ \A item \in pending : G[item[1]] <= item[2]
        /\ \A r \in Revs : G[r] <= best[r]

(* What is deleted may be, and has no children but those deleted before.   *)
SweepSafe ==
    /\ retained \cup Prune!Roots \subseteq alive
    /\ \A r \in remaining : r \notin retained /\ r \notin Prune!Roots /\ r \in expired
    /\ \A e \in parents : e[2] \in remaining => e[1] \in remaining

PInv ==
    /\ PruneTypes
    /\ phase = "mark" => MarkingCloses /\ CountsPaths /\ alive = Revs /\ remaining = {}
    /\ phase # "mark" => SweepSafe
    /\ \A e \in parents : e[1] \in alive /\ e[2] \in alive

LEMMA RevsNumbered == IsFiniteSet(Revs) /\ Revs \subseteq Nat /\ \A r \in Revs : r \in Nat
  BY RevsAssumption

LEMMA Amounts ==
    /\ Cardinality(Revs) \in Nat /\ KeepPerRoot \in Nat /\ KeepPerRoot > 0
    /\ Prune!Unseen \in Nat /\ Prune!Unseen > KeepPerRoot /\ (Revs # {} => Prune!Unseen > KeepPerRoot + 1)
  <1>1. KeepPerRoot \in Nat /\ KeepPerRoot > 0
    BY KeepAssumption
  <1>2. Cardinality(Revs) \in Nat /\ (Revs # {} => Cardinality(Revs) > 0)
    BY RevsNumbered, FS_CardinalityType, FS_EmptySet
  <1>3. Prune!Unseen = Cardinality(Revs) + KeepPerRoot + 1
    BY DEF Prune!Unseen, Prune!Cardinality, Cardinality, Prune!IsFiniteSet, IsFiniteSet
  <1>4. QED
    BY <1>1, <1>2, <1>3

LEMMA WeightIs == \A r : Prune!Weight(r) \in {0, 1} /\ Prune!Weight(r) \in Nat
  BY DEF Prune!Weight

LEMMA LeastNumber == \A T \in SUBSET Nat : T # {} => \E x \in T : \A y \in T : x <= y
  <1> SUFFICES ASSUME NEW T \in SUBSET Nat, T # {} PROVE \E x \in T : \A y \in T : x <= y
    OBVIOUS
  <1>1. PICK x \in T : \A y \in T : ~(<<y, x>> \in OpToRel(<, Nat))
    BY NatLessThanWellFounded, WFMin
  <1>2. ASSUME NEW y \in T PROVE x <= y
    <2>1. ~(y < x)
      BY <1>1, Zenon DEF OpToRel
    <2>2. QED
      BY <2>1
  <1>3. QED
    BY <1>2

(* How many revisions were saved after r.                                  *)
Later(r) == {x \in Revs : x > r}

LEMMA LaterShrinks ==
    /\ \A r \in Revs : Cardinality(Later(r)) \in Nat /\ Cardinality(Later(r)) < Cardinality(Revs)
    /\ \A r, c \in Revs : r < c => Cardinality(Later(c)) < Cardinality(Later(r))
  <1>1. ASSUME NEW r \in Revs PROVE /\ IsFiniteSet(Later(r)) /\ Cardinality(Later(r)) \in Nat
                                    /\ Cardinality(Later(r)) < Cardinality(Revs)
    <2>1. Later(r) \in SUBSET Revs /\ r \notin Later(r)
      BY RevsNumbered DEF Later
    <2>2. IsFiniteSet(Later(r)) /\ Cardinality(Later(r)) <= Cardinality(Revs) /\ Cardinality(Later(r)) # Cardinality(Revs)
      BY <2>1, RevsNumbered, FS_Subset
    <2>3. QED
      BY <2>2, FS_CardinalityType, Amounts
  <1>2. ASSUME NEW r \in Revs, NEW c \in Revs, r < c PROVE Cardinality(Later(c)) < Cardinality(Later(r))
    <2> r \in Nat /\ c \in Nat /\ \A x \in Revs : x \in Nat
      BY RevsNumbered
    <2>0. c > r /\ ~(c > c) /\ \A x \in Revs : x > c => x > r
      BY <1>2
    <2>1. Later(c) \in SUBSET Later(r) /\ c \in Later(r) /\ c \notin Later(c)
      BY <2>0 DEF Later
    <2>2. Cardinality(Later(c)) <= Cardinality(Later(r)) /\ Cardinality(Later(c)) # Cardinality(Later(r))
      BY <2>1, <1>1, FS_Subset
    <2>3. QED
      BY <2>2, <1>1
  <1>3. QED
    BY <1>1, <1>2

(* A set of revisions has a last one.                                      *)
LEMMA LastRevision == \A S \in SUBSET Revs : S # {} => \E m \in S : \A x \in S : x <= m
  <1> SUFFICES ASSUME NEW S \in SUBSET Revs, S # {} PROVE \E m \in S : \A x \in S : x <= m
    OBVIOUS
  <1> DEFINE T == {Cardinality(Later(x)) : x \in S}
  <1>1. T \in SUBSET Nat /\ T # {}
    BY LaterShrinks
  <1>2. PICK n \in T : \A y \in T : n <= y
    BY <1>1, LeastNumber
  <1>3. PICK m \in S : n = Cardinality(Later(m))
    BY <1>2
  <1>4. ASSUME NEW x \in S, m < x PROVE FALSE
    <2>1. Cardinality(Later(x)) < Cardinality(Later(m)) /\ Cardinality(Later(x)) \in Nat /\ Cardinality(Later(m)) \in Nat
      BY <1>4, LaterShrinks
    <2>2. QED
      BY <2>1, <1>2, <1>3
  <1>5. QED
    BY <1>4, RevsNumbered

LEMMA PruneStarts == Prune!Init => PInv
  <1> SUFFICES ASSUME Prune!Init PROVE PInv
    OBVIOUS
  <1> USE DEF Prune!Init
  <1>1. Prune!Roots \subseteq Revs
    BY DEF Prune!Roots
  <1>2. PruneTypes
    <2>1. \A e \in parents : e[2] < e[1]
      BY DEF Earlier
    <2>2. best \in [Revs -> 0..Prune!Unseen]
      BY Amounts
    <2>3. pending \subseteq Revs \X (0..(KeepPerRoot + 1))
      <3>1. 0 \in 0..(KeepPerRoot + 1) /\ 1 \in 0..(KeepPerRoot + 1)
        BY Amounts
      <3>2. QED
        BY <1>1, <3>1, WeightIs
    <2>4. QED
      BY <2>1, <2>2, <2>3 DEF PruneTypes
  <1>3. MarkingCloses
    <2>1. \A e \in parents : e[1] \in Revs /\ e[2] \in Revs
      OBVIOUS
    <2>2. \A r \in Revs : ~(best[r] <= KeepPerRoot)
      BY Amounts
    <2>3. QED
      BY <2>1, <2>2 DEF MarkingCloses
  <1>4. CountsPaths
    BY <1>1 DEF CountsPaths, LowerBound
  <1>5. QED
    BY <1>2, <1>3, <1>4 DEF PInv

LEMMA MarkKeepsPInv == ASSUME PInv, Prune!Mark PROVE PInv'
  <1> USE DEF Prune!graph
  <1>1. PICK item \in pending :
          LET r == item[1]
              n == item[2]
              expand == Prune!Improves(r, n) /\ Prune!Within(n)
          IN  /\ best' = IF Prune!Improves(r, n) THEN [best EXCEPT ![r] = n] ELSE best
              /\ retained' = IF expand THEN retained \cup {r} ELSE retained
              /\ pending' = (pending \ {item}) \cup
                   (IF expand THEN {<<p, n + Prune!Weight(p)>> : p \in Prune!ParentsOf(r)} ELSE {})
    BY DEF Prune!Mark
  <1> DEFINE x == item[1]
             n == item[2]
             better == n < best[x]
             expand == better /\ n <= KeepPerRoot
             pushed == {<<p, n + Prune!Weight(p)>> : p \in Prune!ParentsOf(x)}
  <1>2. /\ PruneTypes /\ MarkingCloses /\ CountsPaths /\ alive = Revs /\ remaining = {} /\ phase = "mark"
        /\ UNCHANGED <<tier, anchors, expired, parents, alive, remaining, phase>>
    BY DEF PInv, Prune!Mark
  <1>3. x \in Revs /\ n \in Nat /\ n <= KeepPerRoot + 1 /\ item = <<x, n>>
    BY <1>2, Amounts DEF PruneTypes
  <1>4. /\ best' = IF better THEN [best EXCEPT ![x] = n] ELSE best
        /\ retained' = IF expand THEN retained \cup {x} ELSE retained
        /\ pending' = (pending \ {item}) \cup (IF expand THEN pushed ELSE {})
    BY <1>1 DEF Prune!Improves, Prune!Within
  <1>5. /\ best \in [Revs -> Nat] /\ best' \in [Revs -> Nat]
        /\ best'[x] <= n
        /\ \A r \in Revs : best'[r] <= best[r] /\ (r # x => best'[r] = best[r]) /\ best[r] <= Prune!Unseen
        /\ better => best'[x] = n
        /\ ~better => best'[x] = best[x]
    BY <1>2, <1>3, <1>4, Amounts DEF PruneTypes
  <1> HIDE DEF x, n, better, expand, pushed
  <1>6. \A r : Prune!Weight(r)' = Prune!Weight(r)
    BY <1>2 DEF Prune!Weight
  <1>7. Prune!Roots' = Prune!Roots /\ Prune!Roots \subseteq Revs
    BY <1>2 DEF Prune!Roots, PruneTypes
  <1>8. PruneTypes'
    <2>1. best' \in [Revs -> 0..Prune!Unseen']
      BY <1>5, Amounts DEF Prune!Unseen
    <2>2. pending' \subseteq Revs \X (0..(KeepPerRoot + 1))
      <3>1. ASSUME expand, NEW p \in Prune!ParentsOf(x) PROVE <<p, n + Prune!Weight(p)>> \in Revs \X (0..(KeepPerRoot + 1))
        <4>1. p \in Revs
          BY <3>1 DEF Prune!ParentsOf
        <4>2. n + Prune!Weight(p) \in 0..(KeepPerRoot + 1)
          BY <3>1, <1>3, WeightIs, Amounts DEF expand
        <4>3. QED
          BY <4>1, <4>2
      <3>2. QED
        BY <1>2, <1>4, <3>1 DEF PruneTypes, pushed
    <2>3. retained' \subseteq Revs
      BY <1>2, <1>3, <1>4 DEF PruneTypes
    <2>4. QED
      BY <2>1, <2>2, <2>3, <1>2 DEF PruneTypes
  <1>9. MarkingCloses'
    <2>1. \A r \in Revs, k \in Nat : best[r] <= k \/ <<r, k>> \in pending => best'[r] <= k \/ <<r, k>> \in pending'
      BY <1>3, <1>4, <1>5, Z3
    <2>2. \A r \in Prune!Roots' : best'[r] <= Prune!Weight(r)' \/ <<r, Prune!Weight(r)'>> \in pending'
      BY <1>2, <1>6, <1>7, <2>1, WeightIs DEF MarkingCloses
    <2>3. ASSUME NEW e \in parents', best'[e[1]] <= KeepPerRoot
          PROVE  \/ best'[e[2]] <= best'[e[1]] + Prune!Weight(e[2])'
                 \/ <<e[2], best'[e[1]] + Prune!Weight(e[2])'>> \in pending'
      <3>1. e \in parents /\ e[1] \in Revs /\ e[2] \in Revs /\ e = <<e[1], e[2]>>
        BY <2>3, <1>2 DEF PruneTypes
      <3>2. CASE e[1] = x /\ better
        <4>1. expand /\ best'[e[1]] = n
          BY <3>2, <2>3, <1>5 DEF expand
        <4>2. e[2] \in Prune!ParentsOf(x)
          BY <3>1, <3>2 DEF Prune!ParentsOf
        <4>3. <<e[2], n + Prune!Weight(e[2])>> \in pending'
          BY <4>1, <4>2, <1>4 DEF pushed
        <4>4. QED
          BY <4>1, <4>3, <1>6
      <3>3. CASE ~(e[1] = x /\ better)
        <4>1. best'[e[1]] = best[e[1]] /\ best[e[1]] + Prune!Weight(e[2]) \in Nat
          BY <3>1, <3>3, <1>5, WeightIs
        <4>2. best[e[2]] <= best[e[1]] + Prune!Weight(e[2]) \/ <<e[2], best[e[1]] + Prune!Weight(e[2])>> \in pending
          BY <4>1, <2>3, <3>1, <1>2 DEF MarkingCloses
        <4>3. QED
          BY <4>1, <4>2, <2>1, <3>1, <1>6
      <3>4. QED
        BY <3>2, <3>3
    <2>4. retained' = {r \in Revs : best'[r] <= KeepPerRoot}
      <3>1. retained = {r \in Revs : best[r] <= KeepPerRoot}
        BY <1>2 DEF MarkingCloses
      <3>2. \A r \in Revs : best'[r] <= KeepPerRoot <=> best[r] <= KeepPerRoot \/ (expand /\ r = x)
        BY <1>3, <1>5, Amounts DEF better, expand
      <3>3. QED
        BY <3>1, <3>2, <1>3, <1>4
    <2>5. QED
      BY <2>2, <2>3, <2>4 DEF MarkingCloses
  <1>10. CountsPaths'
    <2> SUFFICES ASSUME NEW G \in [Revs -> Nat], LowerBound(G)'
                 PROVE  /\ \A i \in pending' : G[i[1]] <= i[2]
                        /\ \A r \in Revs : G[r] <= best'[r]
      BY DEF CountsPaths
    <2>1. LowerBound(G)
      <3>1. Prune!Unseen' = Prune!Unseen
        BY DEF Prune!Unseen
      <3>2. QED
        BY <1>2, <1>6, <1>7, <3>1 DEF LowerBound
    <2>2. (\A i \in pending : G[i[1]] <= i[2]) /\ (\A r \in Revs : G[r] <= best[r])
      BY <2>1, <1>2 DEF CountsPaths
    <2>3. G[x] <= n
      BY <2>2, <1>1 DEF x, n
    <2>4. ASSUME NEW p \in Prune!ParentsOf(x) PROVE G[p] <= n + Prune!Weight(p)
      <3>1. p \in Revs /\ <<x, p>> \in parents
        BY <2>4 DEF Prune!ParentsOf
      <3>2. G[p] <= G[x] + Prune!Weight(p)
        BY <3>1, <2>1 DEF LowerBound
      <3>3. QED
        BY <3>1, <3>2, <2>3, <1>3, WeightIs
    <2>5. \A i \in pushed : G[i[1]] <= i[2]
      BY <2>4 DEF pushed
    <2>6. QED
      BY <2>2, <2>3, <2>5, <1>3, <1>4, <1>5
  <1>11. QED
    BY <1>2, <1>8, <1>9, <1>10 DEF PInv

LEMMA StartSweepKeepsPInv == ASSUME PInv, Prune!StartSweep PROVE PInv'
  <1> USE DEF Prune!graph
  <1>1. /\ PruneTypes /\ MarkingCloses /\ alive = Revs /\ pending = {}
        /\ UNCHANGED <<tier, anchors, expired, alive, pending, best, retained>>
        /\ remaining' = Prune!Candidates /\ parents' = Prune!CutBoundary(Prune!Candidates) /\ phase' = "sweep"
    BY DEF PInv, Prune!StartSweep
  <1>2. Prune!Roots \subseteq Revs /\ Prune!Roots' = Prune!Roots
    BY <1>1 DEF Prune!Roots, PruneTypes
  <1>3. Prune!Roots \subseteq retained
    <2>1. ASSUME NEW r \in Prune!Roots PROVE best[r] <= KeepPerRoot
      <3>1. best[r] <= Prune!Weight(r)
        BY <1>1 DEF MarkingCloses
      <3>2. Prune!Weight(r) <= KeepPerRoot
        BY WeightIs, Amounts
      <3>3. best[r] \in Nat
        BY <1>1, <1>2, Amounts DEF PruneTypes
      <3>4. QED
        BY <3>1, <3>2, <3>3, WeightIs, Amounts
    <2>2. QED
      BY <2>1, <1>1, <1>2 DEF MarkingCloses
  <1>4. PruneTypes'
    <2>1. best' \in [Revs -> 0..Prune!Unseen']
      BY <1>1 DEF PruneTypes, Prune!Unseen
    <2>2. remaining' \subseteq Revs
      BY <1>1 DEF Prune!Candidates
    <2>3. parents' \subseteq Revs \X Revs /\ \A e \in parents' : e[2] < e[1]
      BY <1>1 DEF PruneTypes, Prune!CutBoundary
    <2>4. QED
      BY <1>1, <2>1, <2>2, <2>3 DEF PruneTypes
  <1>5. SweepSafe'
    <2>1. retained' \cup Prune!Roots' \subseteq alive'
      BY <1>1, <1>2 DEF PruneTypes
    <2>2. \A r \in remaining' : r \notin retained' /\ r \notin Prune!Roots' /\ r \in expired'
      BY <1>1, <1>2, <1>3 DEF Prune!Candidates
    <2>3. \A e \in parents' : e[2] \in remaining' => e[1] \in remaining'
      BY <1>1 DEF Prune!CutBoundary
    <2>4. QED
      BY <2>1, <2>2, <2>3 DEF SweepSafe
  <1>6. \A e \in parents' : e[1] \in alive' /\ e[2] \in alive'
    BY <1>1, <1>4 DEF PruneTypes
  <1>7. QED
    BY <1>1, <1>4, <1>5, <1>6 DEF PInv

LEMMA DeleteKeepsPInv == ASSUME PInv, Prune!DeleteNext PROVE PInv'
  <1> USE DEF Prune!graph
  <1>1. PICK r \in remaining :
          /\ Prune!Ready(r)
          /\ IF Prune!Unprotected(r)
             THEN /\ alive' = alive \ {r}
                  /\ parents' = {e \in parents : e[1] # r}
                  /\ remaining' = remaining \ {r}
                  /\ UNCHANGED phase
             ELSE /\ phase' = "conflict"
                  /\ UNCHANGED <<alive, parents, remaining>>
    BY DEF Prune!DeleteNext
  <1>2. /\ PruneTypes /\ SweepSafe /\ phase = "sweep"
        /\ UNCHANGED <<tier, anchors, expired, pending, best, retained>>
        /\ \A e \in parents : e[1] \in alive /\ e[2] \in alive
    BY DEF PInv, Prune!DeleteNext
  <1>3. Prune!Roots' = Prune!Roots /\ Prune!Unseen' = Prune!Unseen
    BY <1>2 DEF Prune!Roots, Prune!Unseen
  <1>4. r \in Revs /\ r \notin retained /\ r \notin Prune!Roots /\ r \in expired
    BY <1>1, <1>2 DEF PruneTypes, SweepSafe
  <1>5. \A e \in parents : e[2] # r
    <2>1. ASSUME NEW e \in parents, e[2] = r PROVE FALSE
      <3>1. e = <<e[1], r>> /\ e[1] \in remaining
        BY <2>1, <1>1, <1>2 DEF PruneTypes, SweepSafe
      <3>2. QED
        BY <3>1, <2>1, <1>1 DEF Prune!Ready
    <2>2. QED
      BY <2>1
  <1>6. Prune!Unprotected(r)
    BY <1>2, <1>4, <1>5 DEF Prune!Unprotected, Prune!Roots, PruneTypes
  <1>7. /\ alive' = alive \ {r} /\ parents' = {e \in parents : e[1] # r}
        /\ remaining' = remaining \ {r} /\ phase' = "sweep"
    BY <1>1, <1>2, <1>6
  <1>8. PruneTypes'
    BY <1>2, <1>3, <1>7 DEF PruneTypes
  <1>9. SweepSafe'
    BY <1>2, <1>3, <1>4, <1>7 DEF SweepSafe
  <1>10. \A e \in parents' : e[1] \in alive' /\ e[2] \in alive'
    BY <1>2, <1>5, <1>7
  <1>11. QED
    BY <1>7, <1>8, <1>9, <1>10 DEF PInv

LEMMA EndKeepsPInv == ASSUME PInv, Prune!EndSweep PROVE PInv'
  <1> USE DEF Prune!graph
  <1>1. /\ PruneTypes /\ SweepSafe /\ \A r \in remaining : ~Prune!Ready(r)
        /\ phase' = IF remaining = {} THEN "done" ELSE "conflict"
        /\ UNCHANGED <<tier, anchors, expired, parents, alive, pending, best, retained, remaining>>
        /\ \A e \in parents : e[1] \in alive /\ e[2] \in alive
    BY DEF PInv, Prune!EndSweep
  <1>2. remaining = {}
    <2> SUFFICES ASSUME remaining # {} PROVE FALSE
      OBVIOUS
    <2>1. PICK m \in remaining : \A r \in remaining : r <= m
      BY <1>1, LastRevision DEF PruneTypes
    <2>2. PICK c \in remaining : <<c, m>> \in parents
      BY <1>1 DEF Prune!Ready
    <2>3. m < c /\ c <= m /\ m \in Nat /\ c \in Nat
      BY <2>1, <2>2, <1>1, RevsNumbered DEF PruneTypes
    <2>4. QED
      BY <2>3
  <1>3. Prune!Roots' = Prune!Roots /\ Prune!Unseen' = Prune!Unseen
    BY <1>1 DEF Prune!Roots, Prune!Unseen
  <1>4. PruneTypes' /\ SweepSafe'
    BY <1>1, <1>2, <1>3 DEF PruneTypes, SweepSafe
  <1>5. QED
    BY <1>1, <1>2, <1>4 DEF PInv

LEMMA NextPInv == PInv /\ [Prune!Next]_(Prune!vars) => PInv'
  <1> SUFFICES ASSUME PInv, [Prune!Next]_(Prune!vars) PROVE PInv'
    OBVIOUS
  <1>1. CASE UNCHANGED Prune!vars
    BY <1>1 DEF Prune!vars, PInv, PruneTypes, MarkingCloses, CountsPaths, LowerBound, SweepSafe,
                Prune!Roots, Prune!Weight, Prune!Unseen
  <1>2. QED
    BY <1>1, MarkKeepsPInv, StartSweepKeepsPInv, DeleteKeepsPInv, EndKeepsPInv DEF Prune!Next, Prune!Ended

-----------------------------------------------------------------------------
(* The reference definition.  The rows of Fewest exist, each follows from  *)
(* the one before, and the last is the next one too.                       *)

LEMMA FewestRows ==
    Prune!Fewest = [n \in 0..Cardinality(Revs) |->
                      Prune!FewestFrom(IF n = 0 THEN Prune!NoPath ELSE Prune!Fewest[n - 1])]
  <1> DEFINE Rows(g, k) == g = [n \in 0..k |-> Prune!FewestFrom(IF n = 0 THEN Prune!NoPath ELSE g[n - 1])]
             Unbuilt == {k \in Nat : ~\E g : Rows(g, k)}
  <1>1. Unbuilt = {}
    <2> SUFFICES ASSUME Unbuilt # {} PROVE FALSE
      OBVIOUS
    <2>1. PICK k \in Unbuilt : \A i \in Unbuilt : k <= i
      <3>1. Unbuilt \in SUBSET Nat
        OBVIOUS
      <3>2. QED
        BY <3>1, LeastNumber
    <2>2. k \in Nat /\ ~\E g : Rows(g, k)
      BY <2>1
    <2>3. CASE k = 0
      <3> DEFINE g == [n \in 0..0 |-> Prune!FewestFrom(Prune!NoPath)]
      <3>1. Rows(g, 0)
        OBVIOUS
      <3>2. QED
        BY <3>1, <2>2, <2>3
    <2>4. CASE k # 0
      <3>1. k - 1 \in Nat /\ k - 1 \notin Unbuilt
        <4> HIDE DEF Unbuilt
        <4>1. k - 1 \in Nat /\ k - 1 < k
          BY <2>2, <2>4
        <4>2. QED
          BY <4>1, <2>1, <2>2
      <3>2. PICK g : Rows(g, k - 1)
        BY <3>1
      <3> DEFINE h == [n \in 0..k |-> IF n = k THEN Prune!FewestFrom(g[k - 1]) ELSE g[n]]
      <3>3. ASSUME NEW n \in 0..k
            PROVE  h[n] = Prune!FewestFrom(IF n = 0 THEN Prune!NoPath ELSE h[n - 1])
        <4>1. CASE n = k
          <5>1. h[n] = Prune!FewestFrom(g[k - 1]) /\ h[n - 1] = g[k - 1] /\ n # 0
            BY <4>1, <2>2, <2>4
          <5>2. QED
            BY <5>1, <4>1
        <4>2. CASE n # k
          <5>1. n \in 0..(k - 1) /\ h[n] = g[n] /\ (n # 0 => h[n - 1] = g[n - 1])
            BY <4>2, <2>2, <3>3
          <5>2. g[n] = Prune!FewestFrom(IF n = 0 THEN Prune!NoPath ELSE g[n - 1])
            BY <5>1, <3>2
          <5>3. QED
            BY <5>1, <5>2
        <4>3. QED
          BY <4>1, <4>2
      <3>4. Rows(h, k)
        BY <3>3
      <3>5. QED
        BY <3>4, <2>2
    <2>5. QED
      BY <2>3, <2>4
  <1>2. \E g : Rows(g, Cardinality(Revs))
    BY <1>1, Amounts
  <1>3. Prune!Cardinality(Revs) = Cardinality(Revs)
    BY DEF Prune!Cardinality, Cardinality, Prune!IsFiniteSet, IsFiniteSet
  <1>4. QED
    BY <1>2, <1>3, Zenon DEF Prune!Fewest

(* One row from another: its values and what they rest on.                 *)
LEMMA FewestFromIs ==
    ASSUME PruneTypes, NEW s \in [Revs -> Nat], NEW r \in Revs
    PROVE  LET v == Prune!FewestFrom(s)[r]
           IN  /\ v \in Nat /\ v <= Prune!Unseen
               /\ r \in Prune!Roots => v <= Prune!Weight(r)
               /\ \A c \in Revs : <<c, r>> \in parents => v <= s[c] + Prune!Weight(r)
               /\ \/ v = Prune!Unseen
                  \/ r \in Prune!Roots /\ v = Prune!Weight(r)
                  \/ \E c \in Revs : <<c, r>> \in parents /\ v = s[c] + Prune!Weight(r)
  <1> DEFINE asRoot == IF r \in Prune!Roots THEN {Prune!Weight(r)} ELSE {}
             viaChild == {s[c] + Prune!Weight(r) : c \in {x \in Revs : <<x, r>> \in parents}}
             All == asRoot \cup viaChild \cup {Prune!Unseen}
             v == Prune!FewestFrom(s)[r]
  <1>1. v = Prune!Min(All)
    BY DEF Prune!FewestFrom
  <1>2. All \in SUBSET Nat /\ All # {}
    <2>1. asRoot \subseteq Nat /\ Prune!Unseen \in Nat
      BY WeightIs, Amounts
    <2>2. \A c \in Revs : s[c] + Prune!Weight(r) \in Nat
      <3>1. Prune!Weight(r) \in Nat
        BY WeightIs
      <3>2. QED
        BY <3>1
    <2>3. viaChild \subseteq Nat
      BY <2>2
    <2>4. QED
      BY <2>1, <2>3
  <1>3. \E x \in All : \A y \in All : x <= y
    BY <1>2, LeastNumber
  <1>4. v \in All /\ \A y \in All : v <= y
    BY <1>1, <1>3, Zenon DEF Prune!Min
  <1> HIDE DEF v
  <1>5. v \in Nat /\ v <= Prune!Unseen
    BY <1>2, <1>4
  <1>6. r \in Prune!Roots => v <= Prune!Weight(r)
    BY <1>4
  <1>7. \A c \in Revs : <<c, r>> \in parents => v <= s[c] + Prune!Weight(r)
    BY <1>4
  <1>8. \/ v = Prune!Unseen
        \/ r \in Prune!Roots /\ v = Prune!Weight(r)
        \/ \E c \in Revs : <<c, r>> \in parents /\ v = s[c] + Prune!Weight(r)
    BY <1>4
  <1>9. QED
    BY <1>5, <1>6, <1>7, <1>8 DEF v

LEMMA FewestFromDepends ==
    ASSUME NEW s, NEW t, NEW r \in Revs, \A c \in Revs : <<c, r>> \in parents => s[c] = t[c]
    PROVE  Prune!FewestFrom(s)[r] = Prune!FewestFrom(t)[r]
  <1>1. {s[c] + Prune!Weight(r) : c \in {x \in Revs : <<x, r>> \in parents}}
          = {t[c] + Prune!Weight(r) : c \in {x \in Revs : <<x, r>> \in parents}}
    OBVIOUS
  <1>2. QED
    BY <1>1 DEF Prune!FewestFrom

(* Row n of Fewest, and the row it is made from.                           *)
Row(n) == Prune!Fewest[n]
Before(n) == IF n = 0 THEN Prune!NoPath ELSE Row(n - 1)

LEMMA RowIs == \A n \in 0..Cardinality(Revs) : Row(n) = Prune!FewestFrom(Before(n))
  BY FewestRows, Zenon DEF Row, Before

LEMMA RowTyped == PruneTypes => \A n \in 0..Cardinality(Revs) : Row(n) \in [Revs -> Nat] /\ Before(n) \in [Revs -> Nat]
  <1> SUFFICES ASSUME PruneTypes PROVE \A n \in 0..Cardinality(Revs) : Row(n) \in [Revs -> Nat] /\ Before(n) \in [Revs -> Nat]
    OBVIOUS
  <1> DEFINE Bad == {n \in 0..Cardinality(Revs) : Row(n) \notin [Revs -> Nat]}
  <1>1. \A n \in 0..Cardinality(Revs) : (n # 0 => n - 1 \in (0..Cardinality(Revs)) \ Bad) => Before(n) \in [Revs -> Nat]
    BY Amounts DEF Before, Prune!NoPath
  <1>2. \A s \in [Revs -> Nat] : Prune!FewestFrom(s) \in [Revs -> Nat]
    <2>1. ASSUME NEW s \in [Revs -> Nat] PROVE Prune!FewestFrom(s) \in [Revs -> Nat]
      <3>1. \A r \in Revs : Prune!FewestFrom(s)[r] \in Nat
        BY FewestFromIs
      <3>2. \E f : Prune!FewestFrom(s) = [r \in Revs |-> f[r]]
        <4> DEFINE f == [r \in Revs |-> Prune!FewestFrom(s)[r]]
        <4>1. Prune!FewestFrom(s) = [r \in Revs |-> f[r]]
          BY DEF Prune!FewestFrom
        <4>2. QED
          BY <4>1
      <3>3. QED
        BY <3>1, <3>2
    <2>2. QED
      BY <2>1
  <1>3. Bad = {}
    <2> SUFFICES ASSUME Bad # {} PROVE FALSE
      OBVIOUS
    <2>1. PICK n \in Bad : \A m \in Bad : n <= m
      <3>1. Bad \in SUBSET Nat
        BY Amounts
      <3>2. QED
        BY <3>1, LeastNumber
    <2>2. n # 0 => n - 1 \in (0..Cardinality(Revs)) \ Bad
      BY <2>1, Amounts
    <2>3. Before(n) \in [Revs -> Nat]
      BY <2>1, <2>2, <1>1
    <2>4. QED
      BY <2>1, <2>3, <1>2, RowIs
  <1>4. \A n \in 0..Cardinality(Revs) : n # 0 => n - 1 \in (0..Cardinality(Revs)) \ Bad
    BY <1>3, Amounts
  <1>5. QED
    BY <1>1, <1>3, <1>4

(* From a revision with less than n later ones on, more edges find nothing *)
(* that n do not.                                                          *)
LEMMA RowsSettle ==
    ASSUME PruneTypes
    PROVE  \A n \in 0..Cardinality(Revs) : \A r \in Revs :
               Cardinality(Later(r)) < n => Row(n)[r] = Before(n)[r]
  <1> DEFINE Bad == {n \in 0..Cardinality(Revs) : \E r \in Revs :
                        Cardinality(Later(r)) < n /\ Row(n)[r] # Before(n)[r]}
  <1>1. Bad = {}
    <2> SUFFICES ASSUME Bad # {} PROVE FALSE
      OBVIOUS
    <2>1. PICK n \in Bad : \A m \in Bad : n <= m
      <3>1. Bad \in SUBSET Nat
        BY Amounts
      <3>2. QED
        BY <3>1, LeastNumber
    <2>2. n \in 0..Cardinality(Revs) /\ n \in Nat
      BY <2>1, Amounts
    <2>3. PICK r \in Revs : Cardinality(Later(r)) < n /\ Row(n)[r] # Before(n)[r]
      BY <2>1
    <2>4. Cardinality(Later(r)) \in Nat /\ n # 0
      BY <2>2, <2>3, LaterShrinks
    <2>5. n - 1 \in 0..Cardinality(Revs) /\ n - 1 \notin Bad /\ n - 1 \in Nat
      <3>1. n - 1 \in Nat /\ n - 1 < n
        BY <2>2, <2>4
      <3>2. n - 1 \in 0..Cardinality(Revs)
        BY <3>1, <2>2, Amounts
      <3> HIDE DEF Bad
      <3>3. QED
        BY <3>1, <3>2, <2>1, <2>2
    <2>6. Row(n) = Prune!FewestFrom(Row(n - 1)) /\ Before(n) = Row(n - 1)
      BY <2>2, <2>4, RowIs DEF Before
    <2>7. Row(n - 1) = Prune!FewestFrom(Before(n - 1))
      BY <2>5, RowIs
    <2>8. ASSUME NEW c \in Revs, <<c, r>> \in parents PROVE Row(n - 1)[c] = Before(n - 1)[c]
      <3>1. r < c
        BY <2>8 DEF PruneTypes
      <3>2. Cardinality(Later(c)) < Cardinality(Later(r)) /\ Cardinality(Later(c)) \in Nat
        BY <3>1, LaterShrinks
      <3>3. Cardinality(Later(c)) < n - 1
        BY <3>2, <2>2, <2>3, <2>4
      <3>4. QED
        BY <3>3, <2>5
    <2>9. Row(n)[r] = Row(n - 1)[r]
      <3>1. Prune!FewestFrom(Row(n - 1))[r] = Prune!FewestFrom(Before(n - 1))[r]
        BY <2>8, FewestFromDepends
      <3>2. QED
        BY <3>1, <2>6, <2>7
    <2>10. QED
      BY <2>3, <2>6, <2>9
  <1>2. QED
    BY <1>1

(* The last row of Fewest is a lower bound of what the worklist counts.    *)
LEMMA LastRowIsLowerBound == PruneTypes => LowerBound(Row(Cardinality(Revs)))
  <1> SUFFICES ASSUME PruneTypes PROVE LowerBound(Row(Cardinality(Revs)))
    OBVIOUS
  <1> DEFINE N == Cardinality(Revs)
             F == Row(N)
             s == Before(N)
  <1>1. N \in 0..N /\ N \in Nat
    BY Amounts
  <1>2. s \in [Revs -> Nat] /\ F = Prune!FewestFrom(s)
    BY <1>1, RowTyped, RowIs
  <1> HIDE DEF F, s, N
  <1>3. \A r \in Revs : /\ F[r] <= Prune!Unseen
                        /\ r \in Prune!Roots => F[r] <= Prune!Weight(r)
                        /\ \A c \in Revs : <<c, r>> \in parents => F[r] <= s[c] + Prune!Weight(r)
    BY <1>2, FewestFromIs
  <1>4. ASSUME NEW e \in parents PROVE F[e[2]] <= F[e[1]] + Prune!Weight(e[2])
    <2>1. e[1] \in Revs /\ e[2] \in Revs /\ <<e[1], e[2]>> \in parents
      BY <1>4 DEF PruneTypes
    <2>2. F[e[1]] = s[e[1]]
      <3>1. Cardinality(Later(e[1])) < N
        BY <2>1, LaterShrinks DEF N
      <3>2. QED
        BY <3>1, <2>1, <1>1, RowsSettle DEF F, s, N
    <2>3. QED
      BY <2>1, <2>2, <1>3
  <1>5. Prune!Roots \subseteq Revs
    BY DEF PruneTypes, Prune!Roots
  <1>6. LowerBound(F)
    BY <1>3, <1>4, <1>5 DEF LowerBound
  <1>7. QED
    BY <1>6 DEF F, N

(* When the worklist is empty it has found every path within the policy.   *)
LEMMA MarkingFindsPaths ==
    ASSUME PruneTypes, MarkingCloses, pending = {}
    PROVE  \A n \in 0..Cardinality(Revs) : \A r \in Revs :
               Row(n)[r] <= KeepPerRoot => best[r] <= Row(n)[r]
  <1> DEFINE Bad == {n \in 0..Cardinality(Revs) : \E r \in Revs :
                        Row(n)[r] <= KeepPerRoot /\ ~(best[r] <= Row(n)[r])}
  <1>1. Bad = {}
    <2> SUFFICES ASSUME Bad # {} PROVE FALSE
      OBVIOUS
    <2>1. PICK n \in Bad : \A m \in Bad : n <= m
      <3>1. Bad \in SUBSET Nat
        BY Amounts
      <3>2. QED
        BY <3>1, LeastNumber
    <2>2. n \in 0..Cardinality(Revs) /\ n \in Nat
      BY <2>1, Amounts
    <2>3. PICK r \in Revs : Row(n)[r] <= KeepPerRoot /\ ~(best[r] <= Row(n)[r])
      BY <2>1
    <2> DEFINE s == Before(n)
               v == Row(n)[r]
    <2>4. s \in [Revs -> Nat] /\ Row(n) = Prune!FewestFrom(s) /\ best \in [Revs -> Nat]
      BY <2>2, RowTyped, RowIs, Amounts DEF PruneTypes
    <2>5. /\ v \in Nat /\ v <= KeepPerRoot
          /\ \/ v = Prune!Unseen
             \/ r \in Prune!Roots /\ v = Prune!Weight(r)
             \/ \E c \in Revs : <<c, r>> \in parents /\ v = s[c] + Prune!Weight(r)
      BY <2>3, <2>4, FewestFromIs
    <2>6. ASSUME NEW c \in Revs, <<c, r>> \in parents, v = s[c] + Prune!Weight(r) PROVE FALSE
      <3>1. s[c] \in Nat /\ s[c] <= KeepPerRoot /\ Prune!Weight(r) \in Nat
        BY <2>4, <2>5, <2>6, WeightIs, Amounts
      <3>2. CASE n = 0
        <4>1. s[c] = Prune!Unseen
          BY <3>2 DEF Before, Prune!NoPath
        <4>2. QED
          BY <4>1, <3>1, Amounts
      <3>3. CASE n # 0
        <4>1. n - 1 \in 0..Cardinality(Revs) /\ n - 1 \in Nat /\ n - 1 < n
          BY <3>3, <2>2, Amounts
        <4>2. n - 1 \notin Bad
          <5> HIDE DEF Bad
          <5>1. QED
            BY <4>1, <2>1, <2>2
        <4>3. s[c] = Row(n - 1)[c]
          BY <3>3 DEF Before
        <4>4. best[c] <= s[c]
          BY <4>1, <4>2, <4>3, <3>1
        <4>5. best[c] <= KeepPerRoot /\ best[r] <= best[c] + Prune!Weight(r)
          <5>1. best[c] <= KeepPerRoot
            BY <4>4, <3>1, <2>4, Amounts
          <5>2. QED
            BY <5>1, <2>6 DEF MarkingCloses
        <4>6. best[r] <= v
          BY <4>4, <4>5, <3>1, <2>4, <2>6
        <4>7. QED
          BY <4>6, <2>3
      <3>4. QED
        BY <3>2, <3>3
    <2>7. ~(r \in Prune!Roots /\ v = Prune!Weight(r))
      BY <2>3 DEF MarkingCloses
    <2>8. v # Prune!Unseen
      BY <2>5, Amounts
    <2>9. QED
      BY <2>5, <2>6, <2>7, <2>8
  <1>2. QED
    BY <1>1

(* RetentionPrune, for any finite history, any order of the worklist and   *)
(* any number to keep: what is retained is exactly what the policy names,  *)
(* no edge dangles while candidates are deleted, and pruning never aborts. *)
THEOREM PruneHolds == Prune!Spec => []PruneInvariant
  <1>1. PInv => Prune!TypeOK
    BY DEF PInv, PruneTypes, Prune!TypeOK
  <1>2. PInv => Prune!RetainedAsSpecified
    <2> SUFFICES ASSUME PInv, phase = "mark", pending = {}
                 PROVE  retained = {r \in Revs : Row(Cardinality(Revs))[r] <= KeepPerRoot}
      <3>1. Prune!Cardinality(Revs) = Cardinality(Revs)
        BY DEF Prune!Cardinality, Cardinality, Prune!IsFiniteSet, IsFiniteSet
      <3>2. QED
        BY <3>1, Zenon DEF Prune!RetainedAsSpecified, Row
    <2>1. PruneTypes /\ MarkingCloses /\ CountsPaths
      BY DEF PInv
    <2> DEFINE F == Row(Cardinality(Revs))
    <2>2. Cardinality(Revs) \in 0..Cardinality(Revs)
      BY Amounts
    <2>3. F \in [Revs -> Nat] /\ best \in [Revs -> Nat]
      BY <2>1, <2>2, RowTyped, Amounts DEF PruneTypes
    <2>4. \A r \in Revs : F[r] <= best[r]
      BY <2>1, <2>3, LastRowIsLowerBound DEF CountsPaths
    <2>5. \A r \in Revs : F[r] <= KeepPerRoot => best[r] <= F[r]
      BY <2>1, <2>2, MarkingFindsPaths
    <2>6. \A r \in Revs : F[r] <= KeepPerRoot <=> best[r] <= KeepPerRoot
      BY <2>3, <2>4, <2>5, Amounts
    <2>7. retained = {r \in Revs : best[r] <= KeepPerRoot}
      BY <2>1 DEF MarkingCloses
    <2>8. QED
      BY <2>6, <2>7
  <1>3. PInv => Prune!GraphIntact
    BY DEF PInv, SweepSafe, Prune!GraphIntact
  <1>4. PInv => Prune!NeverConflicts
    BY DEF PInv, PruneTypes, Prune!NeverConflicts
  <1>5. PInv => PruneInvariant
    BY <1>1, <1>2, <1>3, <1>4 DEF PruneInvariant
  <1>6. QED
    BY <1>5, PruneStarts, NextPInv, PTL DEF Prune!Spec
=============================================================================
