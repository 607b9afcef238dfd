--------------------------- MODULE AuditDispatcher ---------------------------
(***************************************************************************)
(* The fail-open audit dispatcher (audit.py, class AuditDispatcher) when   *)
(* export is enabled: request threads emit events, failed sends wait in a  *)
(* bounded queue that the next emit flushes, and repeats of one logical    *)
(* operation are suppressed by key.  The object has no lock: threads       *)
(* interleave at every send and between list(queue) and queue.clear().     *)
(***************************************************************************)
EXTENDS Naturals, Sequences, FiniteSets

CONSTANTS
    Threads,        \* request threads
    Keys,           \* dedup keys
    QueueSize,      \* audit_queue_size
    MaxEvents,      \* bound: emit calls per behaviour
    WindowExpires,  \* TRUE: the dedup window may run out
    None            \* no dedup key

VARIABLES
    queue,       \* _queue: events waiting for a flush, oldest first
    queuedKeys,  \* _queued_dedup_keys
    recent,      \* _recent_emit_keys still within the window
    emitted,     \* key of each event, by emit call
    deliveries,  \* how often transport.send(event) returned, for each event
    evicted,     \* events the bounded queue dropped
    suppressed,  \* events answered as duplicate or as already pending
    pc,          \* where each thread is in emit()
    mine,        \* the event each thread is emitting
    batch,       \* `pending` in _flush_queue
    overlapped   \* history: two emits have run at the same time

vars == <<queue, queuedKeys, recent, emitted, deliveries, evicted, suppressed, pc, mine, batch, overlapped>>
shared == <<queue, queuedKeys, recent>>
history == <<emitted, deliveries, evicted, suppressed>>
own == <<mine, overlapped>>

Events == 1..Len(emitted)
KeyOf(e) == emitted[e]

Init ==
    /\ queue = <<>> /\ queuedKeys = {} /\ recent = {}
    /\ emitted = <<>>
    /\ deliveries = [e \in 1..MaxEvents |-> 0]
    /\ evicted = {} /\ suppressed = {}
    /\ pc = [t \in Threads |-> "idle"]
    /\ mine = [t \in Threads |-> 0]
    /\ batch = [t \in Threads |-> <<>>]
    /\ overlapped = FALSE

Goto(t, label) == pc' = [pc EXCEPT ![t] = label]

(* emit(): the three-way decision before anything is sent. *)
Emit(t, k) ==
    LET e == Len(emitted) + 1
        pending == k # None /\ k \in queuedKeys
        duplicate == k # None /\ ~pending /\ k \in recent
    IN
    /\ pc[t] = "idle" /\ Len(emitted) < MaxEvents
    /\ emitted' = Append(emitted, k)
    /\ mine' = [mine EXCEPT ![t] = e]
    /\ overlapped' = (overlapped \/ \E u \in Threads : pc[u] # "idle")
    /\ suppressed' = IF pending \/ duplicate THEN suppressed \cup {e} ELSE suppressed
    /\ Goto(t, IF duplicate THEN "idle"
               ELSE IF pending \/ queue # <<>> THEN "take" ELSE "send")
    /\ UNCHANGED <<shared, deliveries, evicted, batch>>

(* _flush_queue(): pending = list(self._queue) *)
TakePending(t) ==
    /\ pc[t] = "take"
    /\ batch' = [batch EXCEPT ![t] = queue]
    /\ Goto(t, "clear")
    /\ UNCHANGED <<shared, history, own>>

(* Mutant of ClearQueue: the flushed events also stay queued. *)
KeepQueue(t) ==
    /\ pc[t] = "clear"
    /\ Goto(t, "flush")
    /\ UNCHANGED <<shared, history, own, batch>>

(* self._queue.clear() *)
ClearQueue(t) ==
    /\ pc[t] = "clear"
    /\ queue' = <<>>
    /\ Goto(t, "flush")
    /\ UNCHANGED <<queuedKeys, recent, history, own, batch>>

Delivered(e) == deliveries' = [deliveries EXCEPT ![e] = @ + 1]

(* Mutant of Enqueue: an unbounded queue. *)
EnqueueUnbounded(e) ==
    /\ queue' = Append(queue, e)
    /\ queuedKeys' = IF KeyOf(e) = None THEN queuedKeys ELSE queuedKeys \cup {KeyOf(e)}
    /\ UNCHANGED evicted

(* _enqueue(): a full deque drops its oldest event and the keys set is     *)
(* realigned with what is queued; an empty deque of size 0 stays empty.    *)
Enqueue(e) ==
    LET longer == Append(queue, e)
        full == Len(queue) = QueueSize
        kept == IF full THEN Tail(longer) ELSE longer
        keys == IF KeyOf(e) = None THEN queuedKeys ELSE queuedKeys \cup {KeyOf(e)}
    IN  /\ queue' = kept
        /\ evicted' = IF full THEN evicted \cup {Head(longer)} ELSE evicted
        /\ queuedKeys' = IF full /\ kept # <<>>
                         THEN keys \cap {KeyOf(kept[i]) : i \in 1..Len(kept)} ELSE keys

(* The flush sends one queued event; a failure puts it back and ends the   *)
(* loop.                                                                   *)
SendQueued(t) ==
    /\ pc[t] = "flush" /\ batch[t] # <<>>
    /\ \/ /\ Delivered(Head(batch[t]))
          /\ queuedKeys' = queuedKeys \ {KeyOf(Head(batch[t]))}
          /\ batch' = [batch EXCEPT ![t] = Tail(@)]
          /\ UNCHANGED <<queue, evicted>>
       \/ /\ Enqueue(Head(batch[t]))
          /\ batch' = [batch EXCEPT ![t] = <<>>]
          /\ UNCHANGED deliveries
    /\ UNCHANGED <<recent, emitted, suppressed, pc, own>>

(* Mutant of EndFlush: the repeat is sent as well. *)
EndFlushAndSend(t) ==
    /\ pc[t] = "flush" /\ batch[t] = <<>>
    /\ Goto(t, "send")
    /\ UNCHANGED <<shared, history, own, batch>>

(* Flushed: a pending repeat returns, a new event is sent. *)
EndFlush(t) ==
    /\ pc[t] = "flush" /\ batch[t] = <<>>
    /\ Goto(t, IF mine[t] \in suppressed THEN "idle" ELSE "send")
    /\ UNCHANGED <<shared, history, own, batch>>

(* Mutant of Send: the key is recorded before the send, as if it succeeded.*)
SendRecordingFirst(t) ==
    /\ pc[t] = "send"
    /\ \/ /\ Delivered(mine[t])
          /\ Goto(t, "record")
          /\ UNCHANGED <<queue, queuedKeys, evicted>>
       \/ /\ Enqueue(mine[t])
          /\ Goto(t, "record")
          /\ UNCHANGED deliveries
    /\ UNCHANGED <<recent, emitted, suppressed, own, batch>>

(* transport.send(event) of the thread's own event. *)
Send(t) ==
    /\ pc[t] = "send"
    /\ \/ /\ Delivered(mine[t])
          /\ Goto(t, "record")
          /\ UNCHANGED <<queue, queuedKeys, evicted>>
       \/ /\ Enqueue(mine[t])
          /\ Goto(t, "idle")
          /\ UNCHANGED deliveries
    /\ UNCHANGED <<recent, emitted, suppressed, own, batch>>

(* _record_emitted_key: only after a successful send. *)
Record(t) ==
    /\ pc[t] = "record"
    /\ recent' = IF KeyOf(mine[t]) = None THEN recent ELSE recent \cup {KeyOf(mine[t])}
    /\ Goto(t, "idle")
    /\ UNCHANGED <<queue, queuedKeys, history, own, batch>>

(* The window of a recorded key runs out, or the LRU bound drops it. *)
Expire(k) ==
    /\ WindowExpires
    /\ k \in recent
    /\ recent' = recent \ {k}
    /\ UNCHANGED <<queue, queuedKeys, history, pc, own, batch>>

Step(t) ==
    \/ \E k \in Keys \cup {None} : Emit(t, k)
    \/ TakePending(t)
    \/ ClearQueue(t)
    \/ SendQueued(t)
    \/ EndFlush(t)
    \/ Send(t)
    \/ Record(t)

Next == (\E t \in Threads : Step(t)) \/ (\E k \in Keys : Expire(k))

Spec == Init /\ [][Next]_vars

----------------------------------------------------------------------------
(* Properties. *)

Queued == {queue[i] : i \in 1..Len(queue)}
Batched(t) == {batch[t][i] : i \in 1..Len(batch[t])}

(* Events some thread still has in its hands. *)
InFlight ==
    UNION {Batched(t) \cup (IF pc[t] \in {"take", "clear", "flush", "send"} THEN {mine[t]} ELSE {})
             : t \in Threads}

(* Types; the deque never holds more than audit_queue_size events, also    *)
(* when several threads enqueue.                                           *)
TypeOK ==
    /\ queue \in Seq(Nat) /\ Len(queue) <= QueueSize
    /\ queuedKeys \subseteq Keys /\ recent \subseteq Keys
    /\ emitted \in Seq(Keys \cup {None})
    /\ deliveries \in [1..MaxEvents -> Nat]
    /\ evicted \subseteq Events /\ suppressed \subseteq Events
    /\ pc \in [Threads -> {"idle", "take", "clear", "flush", "send", "record"}]

(* A key counts as recently emitted only if the sink really received an    *)
(* event with it: a repeat is never suppressed as duplicate in place of an *)
(* event that did not arrive, whichever threads raced.                     *)
DuplicateMeansDelivered ==
    \A k \in recent : \E e \in Events : KeyOf(e) = k /\ deliveries[e] > 0

(* As long as no two emits overlap, the send of an event succeeds at most  *)
(* once, although it may be queued and flushed several times.  (Without a  *)
(* lock, two flushers can take the same list.)                             *)
DeliveredOnce == ~overlapped => \A e \in Events : deliveries[e] <= 1

(* An event answered as duplicate or as pending is never sent itself.      *)
SuppressedNotSent == \A e \in suppressed : deliveries[e] = 0

(* Class docstring: failed events wait in the queue for the next flush and *)
(* only the oldest is dropped, when the queue is full.                     *)
LostOnlyByOverflow ==
    \A e \in Events :
        deliveries[e] > 0 \/ e \in Queued \cup evicted \cup suppressed \cup InFlight
=============================================================================
