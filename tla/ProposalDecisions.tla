------------------------- MODULE ProposalDecisions -------------------------
(***************************************************************************)
(* Human decisions and system holds on AI proposals                        *)
(* (proposal_decision_repository.py and its routes in routes/ai.py).  No   *)
(* state row means "proposed".  A request reads the idempotency key, then  *)
(* the state row FOR UPDATE, then writes and commits; it is rolled back    *)
(* and tried once more when a unique key refuses it.  The checks against   *)
(* the immutable proposal row (origin, bundle hash) read nothing that can  *)
(* change and are left out; a system hold follows a provider failure.      *)
(***************************************************************************)
EXTENDS Naturals, FiniteSets, FiniteSetsExt

CONSTANTS
    Requests,    \* request threads, each used once
    Proposals,
    Keys,        \* idempotency keys
    None

ASSUME NoneAssumption == None \notin Requests \cup Proposals \cup Keys

VARIABLES
    registered,   \* proposals with a row
    state,        \* ai_proposal_decision_states
    events,       \* ai_proposal_decision_events
    holds,        \* history: system holds recorded, per proposal
    req,          \* the requests
    lockRows      \* SELECT ... FOR UPDATE locks rows (not on SQLite)

vars == <<registered, state, events, holds, req, lockRows>>

Decisions == {"accepted", "rejected", "held"}
Terminal == {"accepted", "rejected"}
Proposed == [status |-> "proposed", version |-> 0]
State == [status: Decisions, version: Nat \ {0}]
Content == [key: Keys, proposal: Proposals, decision: Decisions]
Answers == {"none", "receipt", "404", "409", "held", "unchanged"}
NewRequest == [pc |-> "new", key |-> None, proposal |-> None, decision |-> "held",
               read |-> Proposed, attempt |-> 1, answer |-> "none"]

IsSystem(r) == req[r].key = None
ContentOf(r) == [key |-> req[r].key, proposal |-> req[r].proposal, decision |-> req[r].decision]

Init ==
    /\ registered = {}
    /\ state = [p \in Proposals |-> Proposed]
    /\ events = {}
    /\ holds = [p \in Proposals |-> 0]
    /\ req = [r \in Requests |-> NewRequest]
    /\ lockRows \in BOOLEAN

----------------------------------------------------------------------------
(* register_ai_proposal, register_external_agent_proposal; a repeated      *)
(* registration changes nothing.                                           *)
Register(p) ==
    /\ p \notin registered
    /\ registered' = registered \cup {p}
    /\ UNCHANGED <<state, events, holds, req, lockRows>>

Answer(r, a) == [req EXCEPT ![r].pc = "done", ![r].answer = a]

(* A reviewer decides, or resends a decision with its key. *)
Decide(r, k, p, d) ==
    /\ req[r].pc = "new"
    /\ req' = IF p \in registered
              THEN [req EXCEPT ![r] = [@ EXCEPT !.pc = "begin", !.key = k, !.proposal = p, !.decision = d]]
              ELSE [req EXCEPT ![r] = [@ EXCEPT !.pc = "done", !.key = k, !.proposal = p,
                                                !.decision = d, !.answer = "404"]]
    /\ UNCHANGED <<registered, state, events, holds, lockRows>>

(* final_judgement failed on a linked proposal; it was validated before    *)
(* the provider was called.                                                *)
SystemHold(r, p) ==
    /\ req[r].pc = "new" /\ p \in registered
    /\ req' = [req EXCEPT ![r] = [@ EXCEPT !.pc = "keyed", !.proposal = p]]
    /\ UNCHANGED <<registered, state, events, holds, lockRows>>

(* Mutant of SameContent: the key alone decides. *)
SameKeyOnly(e, r) == TRUE

(* "idempotency key was already used for another decision" otherwise. *)
SameContent(e, r) == e = ContentOf(r)

(* The SELECT for the idempotency key. *)
ReadKey(r) ==
    LET used == {e \in events : e.key = req[r].key} IN
    /\ req[r].pc = "begin"
    /\ req' = IF used = {} THEN [req EXCEPT ![r].pc = "keyed"]
              ELSE Answer(r, IF \A e \in used : SameContent(e, r) THEN "receipt" ELSE "409")
    /\ UNCHANGED <<registered, state, events, holds, lockRows>>

Locked(p) == lockRows /\ \E r \in Requests :
                req[r].pc = "read" /\ req[r].proposal = p /\ req[r].read # Proposed

(* Mutant of Refused: only a decision that was made is refused. *)
RefusedTerminalAgain(r, s) == s.status = req[r].decision

(* A terminal decision stands, and a held proposal is not held again. *)
Refused(r, s) == s.status \in Terminal \/ (s.status = "held" /\ req[r].decision = "held")

(* SELECT ... FOR UPDATE of the state row; a missing row locks nothing. *)
ReadState(r) ==
    LET s == state[req[r].proposal] IN
    /\ req[r].pc = "keyed"
    /\ s # Proposed => ~Locked(req[r].proposal)
    /\ req' = CASE s # Proposed /\ IsSystem(r) -> Answer(r, "unchanged")
                [] s # Proposed /\ ~IsSystem(r) /\ Refused(r, s) -> Answer(r, "409")
                [] OTHER -> [req EXCEPT ![r] = [@ EXCEPT !.pc = "read", !.read = s]]
    /\ UNCHANGED <<registered, state, events, holds, lockRows>>

(* Mutant of KeyRefused: two first decisions both succeed. *)
KeyRefusedNever(r) == FALSE

(* An INSERT meets a unique key: the state row's or the event's. *)
KeyRefused(r) ==
    \/ req[r].read = Proposed /\ state[req[r].proposal] # Proposed
    \/ ~IsSystem(r) /\ \E e \in events : e.key = req[r].key

(* Mutant of Changed: the UPDATE without its version condition. *)
ChangedNever(r) == FALSE

(* The UPDATE finds another version. *)
Changed(r) == req[r].read # Proposed /\ state[req[r].proposal].version # req[r].read.version

(* Mutant of RetryOrConflict: as often as it takes, from the write on. *)
RetryWrite(r) == req

(* IntegrityError: once more from the start, then 409. *)
RetryOrConflict(r) ==
    IF req[r].attempt = 2 THEN Answer(r, "409")
    ELSE [req EXCEPT ![r] = [@ EXCEPT !.pc = IF IsSystem(r) THEN "keyed" ELSE "begin",
                                      !.read = Proposed, !.attempt = 2]]

(* The writes and the commit. *)
Commit(r) ==
    LET p == req[r].proposal IN
    /\ req[r].pc = "read"
    /\ IF Changed(r)
       THEN /\ req' = Answer(r, "409")
            /\ UNCHANGED <<state, events, holds>>
       ELSE IF KeyRefused(r)
       THEN /\ req' = RetryOrConflict(r)
            /\ UNCHANGED <<state, events, holds>>
       ELSE /\ state' = [state EXCEPT ![p] =
                 [status |-> req[r].decision, version |-> req[r].read.version + 1]]
            /\ events' = IF IsSystem(r) THEN events ELSE events \cup {ContentOf(r)}
            /\ holds' = IF IsSystem(r) THEN [holds EXCEPT ![p] = @ + 1] ELSE holds
            /\ req' = Answer(r, IF IsSystem(r) THEN "held" ELSE "receipt")
    /\ UNCHANGED <<registered, lockRows>>

Ended == (\A r \in Requests : req[r].pc = "done") /\ UNCHANGED vars

Handle(r) == ReadKey(r) \/ ReadState(r) \/ Commit(r)

Next ==
    \/ \E p \in Proposals : Register(p)
    \/ \E r \in Requests :
         \/ \E k \in Keys, p \in Proposals, d \in Decisions : Decide(r, k, p, d)
         \/ \E p \in Proposals : SystemHold(r, p)
         \/ Handle(r)
    \/ Ended

Spec == Init /\ [][Next]_vars

(* A worker thread that has taken a request goes on with it. *)
FairSpec == Spec /\ \A r \in Requests : WF_vars(Handle(r))

----------------------------------------------------------------------------
(* Types; a proposal is put on hold by the system at most once, and a      *)
(* request makes at most two attempts.                                     *)
TypeOK ==
    /\ registered \subseteq Proposals /\ lockRows \in BOOLEAN
    /\ state \in [Proposals -> State \cup {Proposed}]
    /\ events \subseteq Content
    /\ holds \in [Proposals -> {0, 1}]
    /\ \A r \in Requests : req[r].attempt \in 1..2 /\ req[r].answer \in Answers

(* Every version of a proposal's state was written by exactly one recorded *)
(* decision or one system hold, and the status is the last of them: no     *)
(* race loses a decision, records one twice, or records one that did not   *)
(* take effect.                                                            *)
EventsExplainState ==
    \A p \in Proposals :
        LET of == {e \in events : e.proposal = p}
            terminal == {e \in of : e.decision \in Terminal}
        IN  /\ state[p].version = Cardinality(of) + holds[p]
            /\ Cardinality(terminal) <= 1
            /\ \A e \in terminal : state[p].status = e.decision
            /\ state[p].status \in Terminal => terminal # {}

(* A receipt stands for the one event recorded under the request's key,    *)
(* with the content the request asked for.                                 *)
ReceiptIsReal ==
    \A r \in Requests : req[r].answer = "receipt" =>
        {e \in events : e.key = req[r].key} = {ContentOf(r)}

(* "it never rewrites an accepted/rejected row": a terminal status is      *)
(* final, and a held one is only ever decided.                             *)
TerminalKept ==
    [][\A p \in Proposals :
         /\ state[p].status \in Terminal => state'[p] = state[p]
         /\ state[p].status = "held" => state'[p].status \in Terminal \cup {"held"}]_vars

(* Every request is answered: locks are released and one retry suffices.   *)
EveryRequestAnswered == \A r \in Requests : (req[r].pc # "new") ~> (req[r].pc = "done")
=============================================================================
