-------------------------- MODULE Ce4AuditTracker --------------------------
(***************************************************************************)
(* POST /docs/{id}/context-audit (routes/docs.py): the in-process tracker  *)
(* that an apply must find a whole query, bundle, proposal, apply sequence *)
(* in, and its eviction.  Recording runs under a lock.  A key stands for   *)
(* tenant, document, equivalence key and bundle hash.  Payload checks      *)
(* answered with 422 come before any state.                                *)
(***************************************************************************)
EXTENDS Integers, FiniteSets

CONSTANTS
    Keys,
    Hashes,       \* sourceBundleHash values
    None,
    MaxEntries,   \* _CE4_TRACKER_MAX_ENTRIES
    EvictEvery,   \* 256 in the code
    TTL,          \* _CE4_TRACKER_TTL_SECONDS
    MaxEvents     \* bound on the events recorded

VARIABLES
    tracker,    \* _ce4_audit_event_tracker: [Keys -> entry \cup {NoEntry}]
    counter,    \* _ce4_eviction_counter
    clock,      \* time.time(), one tick per event
    recorded,   \* history: operations ever recorded per key
    proposed,   \* history: source of the newest proposal per key
    last        \* history: the last request and its answer

trackerVars == <<tracker, counter, clock, recorded, proposed, last>>

Operations == {"query", "bundle", "proposal", "apply"}
Entry == [seen: SUBSET Operations, source: Hashes \cup {None}, touched: Int]
NoEntry == [seen |-> {}, source |-> None, touched |-> -1]
Event == [key: Keys, op: Operations, source: Hashes \cup {None}]
Answers == {"accepted", "equivalence_mismatch", "missing_event"}

Tracked(t) == {k \in Keys : t[k] # NoEntry}

Init ==
    /\ tracker = [k \in Keys |-> NoEntry]
    /\ counter = 0 /\ clock = 0
    /\ recorded = [k \in Keys |-> {}]
    /\ proposed = [k \in Keys |-> None]
    /\ last = [event |-> None, answer |-> "accepted"]

----------------------------------------------------------------------------
(* setdefault *)
WithEntry(k) ==
    IF tracker[k] # NoEntry THEN tracker
    ELSE [tracker EXCEPT ![k] = [seen |-> {}, source |-> None, touched |-> clock]]

Newer(t, k) == {l \in Tracked(t) : t[l].touched > t[k].touched}

(* Mutant of Evict: only entries past their time go. *)
EvictStale(t) == [k \in Keys |-> IF clock - t[k].touched > TTL THEN NoEntry ELSE t[k]]

(* _evict_stale_ce4_tracker_entries: what is past its time, then the       *)
(* oldest until the cap is met.                                            *)
Evict(t) ==
    LET live == [k \in Keys |-> IF clock - t[k].touched > TTL THEN NoEntry ELSE t[k]]
    IN  [k \in Keys |-> IF Cardinality(Newer(live, k)) >= MaxEntries THEN NoEntry ELSE live[k]]

(* Mutant of NewSource: every event brings its source. *)
NewSourceAlways(old, op, source) == source

NewSource(old, op, source) == IF op = "proposal" THEN source ELSE old

(* Mutant of Missing: the proposal is taken for granted. *)
MissingButProposal(seen) == {"query", "bundle", "apply"} \ seen

Missing(seen) == Operations \ seen

Answer(op, source, expected, seen) ==
    IF op # "apply" THEN "accepted"
    ELSE IF expected # None /\ expected # source THEN "equivalence_mismatch"
    ELSE IF Missing(seen) # {} THEN "missing_event"
    ELSE "accepted"

(* _record_ce4_event_and_validate_completeness, under the lock.  The entry *)
(* fetched before the eviction is updated whether or not it is still in    *)
(* the dictionary.                                                         *)
Record(k, op, source) ==
    LET fetched == WithEntry(k)
        kept == IF counter % EvictEvery = 0 THEN Evict(fetched) ELSE fetched
        state == [seen |-> fetched[k].seen \cup {op},
                  source |-> NewSource(fetched[k].source, op, source),
                  touched |-> clock]
    IN
    /\ counter < MaxEvents
    /\ tracker' = IF kept[k] = NoEntry THEN kept ELSE [kept EXCEPT ![k] = state]
    /\ counter' = counter + 1
    /\ clock' = clock + 1
    /\ recorded' = [recorded EXCEPT ![k] = @ \cup {op}]
    /\ proposed' = [proposed EXCEPT ![k] = NewSource(@, op, source)]
    /\ last' = [event |-> [key |-> k, op |-> op, source |-> source],
                answer |-> Answer(op, source, state.source, state.seen)]

(* proposal and apply carry a source hash, the others do not matter. *)
Receive ==
    \E k \in Keys, op \in Operations, source \in Hashes \cup {None} :
        /\ op \in {"proposal", "apply"} <=> source # None
        /\ Record(k, op, source)

(* Time passes beyond the TTL without an event. *)
LongPause ==
    /\ counter < MaxEvents /\ clock <= counter
    /\ clock' = clock + TTL + 1
    /\ UNCHANGED <<tracker, counter, recorded, proposed, last>>

(* reset_ce4_audit_event_tracker.  A process restart also puts the counter *)
(* back to 0, which is an empty tracker at the start of a sweep interval:  *)
(* one of the states this leads to.                                        *)
Restart ==
    /\ Tracked(tracker) # {}
    /\ tracker' = [k \in Keys |-> NoEntry]
    /\ UNCHANGED <<counter, clock, recorded, proposed, last>>

Ended ==
    /\ counter = MaxEvents
    /\ UNCHANGED trackerVars

Next ==
    \/ Receive
    \/ LongPause
    \/ Restart
    \/ Ended

Spec == Init /\ [][Next]_trackerVars

----------------------------------------------------------------------------
(* Types; an entry remembers a source hash exactly when it has seen a      *)
(* proposal.                                                               *)
TypeOK ==
    /\ tracker \in [Keys -> Entry]
    /\ \A k \in Keys : tracker[k].source # None <=> "proposal" \in tracker[k].seen
    /\ counter \in Nat /\ clock \in Nat
    /\ recorded \in [Keys -> SUBSET Operations]
    /\ proposed \in [Keys -> Hashes \cup {None}]
    /\ last.answer \in Answers

(* "The LRU cap bounds memory even under sustained load": between two      *)
(* sweeps the tracker exceeds the cap by less than the sweep interval.     *)
TrackerBounded == Cardinality(Tracked(tracker)) <= MaxEntries + EvictEvery - 1

(* The completeness check is sound whatever was evicted in between, and    *)
(* across restarts: an apply that is accepted follows all four operations  *)
(* on its key, and carries the source of its newest proposal.              *)
ApplyComplete ==
    (last.event # None /\ last.event.op = "apply" /\ last.answer = "accepted") =>
        /\ recorded[last.event.key] = Operations
        /\ proposed[last.event.key] = last.event.source
=============================================================================
