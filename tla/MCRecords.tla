----------------------------- MODULE MCRecords -----------------------------
(* Three components that share nothing, each explored on its own: the      *)
(* inquiry bundle API (three clients of two principals), the audit         *)
(* dispatcher, and the exchange with an outside agent.                     *)
EXTENDS InquiryBundles, TLC

CONSTANTS c1, c2, c3, j1, alice, bob, a1, a2, k1, k2,
          Threads, Keys, QueueSize, MaxEvents,
          DocIds, Cards, LedgerLimit, ResolvedLimit, MaxSteps

ASSUME BoundsAssumption == {QueueSize, MaxEvents, MaxSteps, ResolvedLimit} \subseteq Nat

ASSUME LedgerAssumption == LedgerLimit \in Nat \ {0}

VARIABLES
    explored,   \* the component this behaviour is about
    queue, queuedKeys, recent, emitted, deliveries, evicted, suppressed, pc, mine, batch, overlapped,
    doc, past, stored, scope, readOnly, ledger, tasks, sheets, reviews, calls, proposed, decided,
    steps, seen, strays

dispatcherVars == <<queue, queuedKeys, recent, emitted, deliveries, evicted, suppressed,
                    pc, mine, batch, overlapped>>

Dispatcher == INSTANCE AuditDispatcher WITH WindowExpires <- TRUE

agentVars == <<doc, past, stored, scope, readOnly, ledger, tasks, sheets, reviews, calls,
               proposed, decided, steps, seen, strays>>

(* A title for an island with card c1 and a patch of that card. *)
Agent == INSTANCE AgentExchange
            WITH detours <- strays,
                 Proposals <- {"p1", "p2"},
                 KindOf <- [p \in {"p1", "p2"} |-> IF p = "p1" THEN "title" ELSE "patch"],
                 CardOf <- [p \in {"p1", "p2"} |-> "c1"]

Owners == [c \in Clients |-> IF c = c3 THEN bob ELSE alice]

Symmetry == Permutations({c1, c2}) \cup Permutations(Threads) \cup Permutations(Keys)

RecordsInit ==
    /\ explored \in {"bundles", "dispatcher", "agent"}
    /\ Init /\ Dispatcher!Init /\ Agent!Init
    /\ explored # "agent" => scope = Agent!NoScope /\ sheets = {} /\ doc.id = (CHOOSE d \in DocIds : TRUE)

RecordsNext ==
    /\ UNCHANGED explored
    /\ \/ explored = "bundles" /\ Next /\ UNCHANGED <<dispatcherVars, agentVars>>
       \/ explored = "dispatcher" /\ Dispatcher!Next /\ UNCHANGED <<serverVars, agentVars>>
       \/ explored = "agent" /\ Agent!Next /\ UNCHANGED <<serverVars, dispatcherVars>>

RecordsSpec ==
    RecordsInit /\ [][RecordsNext]_<<explored, serverVars, dispatcherVars, agentVars>>

(* The dispatcher's queue is bounded by audit_queue_size; emit() reports a *)
(* duplicate only of an event that was delivered; without overlapping      *)
(* emits no event is sent twice; a suppressed event is never sent.         *)
DispatcherInvariant ==
    /\ Dispatcher!TypeOK
    /\ Dispatcher!DuplicateMeansDelivered
    /\ Dispatcher!DeliveredOnce
    /\ Dispatcher!SuppressedNotSent

(* A review is shown as decided only if the server decided so; open        *)
(* reviews are open there too and are never dropped; a proposal is worked  *)
(* in once, answers a sheet of this browser, and sheets show what was      *)
(* confirmed.  The exceptions are the detours AgentExchange names.         *)
AgentInvariant == Agent!TypeOK /\ Agent!AgentInvariant
=============================================================================
