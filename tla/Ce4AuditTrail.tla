--------------------------- MODULE Ce4AuditTrail ---------------------------
(***************************************************************************)
(* What post_context_audit hands to the audit dispatcher once the tracker  *)
(* has accepted an event.  The hand-over happens after the tracker's lock  *)
(* is released, so the events of two requests may overtake one another;    *)
(* the dispatcher suppresses an event whose dedup key it delivered within  *)
(* its window (AuditDispatcher has the dispatcher in full).                *)
(***************************************************************************)
EXTENDS Ce4AuditTracker

CONSTANT MaxInFlight   \* bound on the requests between tracker and dispatcher

VARIABLES
    accepted,   \* events answered, not yet handed over
    recent,     \* dedup keys delivered within the window
    sink        \* operations and keys of the events delivered

vars == <<trackerVars, accepted, recent, sink>>

TrailInit ==
    /\ Init
    /\ accepted = {} /\ recent = {} /\ sink = {}

(* The request up to the hand-over. *)
Accept ==
    /\ Cardinality(accepted) < MaxInFlight
    /\ Receive
    /\ accepted' = IF last'.answer = "accepted" THEN accepted \cup {last'.event} ELSE accepted
    /\ UNCHANGED <<recent, sink>>

(* Mutant of DedupKey: the operation is left out. *)
DedupKeyOfBundle(e) == <<e.key>>

(* dedup_key: operation and key, without the source hash. *)
DedupKey(e) == <<e.op, e.key>>

(* dispatcher.emit *)
Emit(e) ==
    /\ e \in accepted
    /\ accepted' = accepted \ {e}
    /\ IF DedupKey(e) \in recent
       THEN UNCHANGED <<recent, sink>>
       ELSE /\ recent' = recent \cup {DedupKey(e)}
            /\ sink' = sink \cup {<<e.op, e.key>>}
    /\ UNCHANGED trackerVars

(* The dedup window of a delivered event ends. *)
WindowEnds(d) ==
    /\ d \in recent
    /\ recent' = recent \ {d}
    /\ UNCHANGED <<trackerVars, accepted, sink>>

TrailNext ==
    \/ Accept
    \/ (LongPause \/ Restart) /\ UNCHANGED <<accepted, recent, sink>>
    \/ \E e \in accepted : Emit(e)
    \/ \E d \in recent : WindowEnds(d)
    \/ Ended /\ UNCHANGED <<accepted, recent, sink>>

TrailSpec == TrailInit /\ [][TrailNext]_vars

----------------------------------------------------------------------------
(* Once nothing is left to hand over, every operation recorded on a key is *)
(* in the audit sink, whatever was suppressed or overtaken (an apply may   *)
(* have been recorded and refused).                                        *)
RecordedIsAudited ==
    accepted = {} =>
        \A k \in Keys : \A op \in recorded[k] \ {"apply"} :
            <<op, k>> \in sink
=============================================================================
