---------------------- MODULE ProposalDecisionsProofs ----------------------
(***************************************************************************)
(* Proofs about ProposalDecisions for any number of requests, proposals    *)
(* and idempotency keys, with and without row locks, and about             *)
(* WorkspaceReports for any cards, islands and relations.                  *)
(***************************************************************************)
EXTENDS ProposalDecisions, WorkspaceReports, FiniteSetTheorems, WellFoundedInduction, TLAPS

Request == [pc : {"new", "begin", "keyed", "read", "done"}, key : Keys \cup {None},
            proposal : Proposals \cup {None}, decision : Decisions, read : State \cup {Proposed},
            attempt : 1..2, answer : Answers]

Types ==
    /\ registered \subseteq Proposals /\ lockRows \in BOOLEAN
    /\ state \in [Proposals -> State \cup {Proposed}]
    /\ events \subseteq Content /\ IsFiniteSet(events)
    /\ holds \in [Proposals -> {0, 1}]
    /\ req \in [Requests -> Request]

(* What q has read is the state row, or an older version of it; only a     *)
(* held row lets it go on, and then only a reviewer who decides.           *)
ReadOnce(q) ==
    /\ q.read.version <= state[q.proposal].version
    /\ q.read.version = state[q.proposal].version => q.read = state[q.proposal]
    /\ q.read # Proposed => q.read.status = "held" /\ q.decision \in Terminal /\ q.key # None

RequestOK(q) ==
    /\ q.pc = "new" => q = NewRequest
    /\ q.pc # "new" => q.proposal \in Proposals
    /\ q.pc = "begin" => q.key \in Keys
    /\ q.key = None => q.decision = "held"
    /\ q.answer = "receipt" =>
         /\ q.pc = "done"
         /\ {e \in events : e.key = q.key} =
              {[key |-> q.key, proposal |-> q.proposal, decision |-> q.decision]}
    /\ q.pc = "read" => ReadOnce(q)

(* The unique key on the events. *)
KeysUnique == \A e, f \in events : e.key = f.key => e = f

TerminalOf(p) == {e \in events : e.proposal = p /\ e.decision \in Terminal}

(* The versions of a state row are counted, and a terminal status is       *)
(* explained by the only terminal event there is.                          *)
Explained(p) ==
    /\ state[p].version = Cardinality({e \in events : e.proposal = p}) + holds[p]
    /\ state[p].status \notin Terminal => TerminalOf(p) = {}
    /\ state[p].status \in Terminal =>
         \E e : TerminalOf(p) = {e} /\ e.decision = state[p].status

DInv ==
    /\ Types
    /\ \A r \in Requests : RequestOK(req[r])
    /\ KeysUnique
    /\ \A p \in Proposals : Explained(p)

LEMMA InitDInv == Init => DInv
  <1> SUFFICES ASSUME Init PROVE DInv
    OBVIOUS
  <1>1. Types
    BY FS_EmptySet DEF Init, Types, NewRequest, Request, Decisions, Answers, Proposed
  <1>2. \A r \in Requests : RequestOK(req[r])
    BY DEF Init, RequestOK, NewRequest
  <1>3. KeysUnique
    BY DEF Init, KeysUnique
  <1>4. ASSUME NEW p \in Proposals PROVE Explained(p)
    <2>1. {e \in events : e.proposal = p} = {} /\ TerminalOf(p) = {}
      BY DEF Init, TerminalOf
    <2>2. QED
      BY <2>1, FS_EmptySet DEF Init, Explained, Proposed, Terminal
  <1>5. QED
    BY <1>1, <1>2, <1>3, <1>4 DEF DInv

(* A step that moves one request and writes no row. *)
LEMMA RequestKeepsDInv ==
    ASSUME DInv, NEW r \in Requests, NEW q \in Request, RequestOK(q),
           req' = [req EXCEPT ![r] = q], registered' \subseteq Proposals,
           UNCHANGED <<state, events, holds, lockRows>>
    PROVE  DInv'
  <1>1. Types'
    BY DEF DInv, Types
  <1>2. \A s \in Requests : RequestOK(req[s])'
    BY DEF DInv, Types, RequestOK, ReadOnce
  <1>3. KeysUnique' /\ \A p \in Proposals : Explained(p)'
    BY DEF DInv, KeysUnique, Explained, TerminalOf
  <1>4. QED
    BY <1>1, <1>2, <1>3 DEF DInv

LEMMA DecideKeepsDInv ==
    ASSUME DInv, NEW r \in Requests, NEW k \in Keys, NEW p \in Proposals, NEW d \in Decisions,
           Decide(r, k, p, d)
    PROVE  DInv'
  <1> DEFINE taken == [req[r] EXCEPT !.pc = "begin", !.key = k, !.proposal = p, !.decision = d]
             unknown == [req[r] EXCEPT !.pc = "done", !.key = k, !.proposal = p,
                                       !.decision = d, !.answer = "404"]
  <1>1. req[r] \in Request /\ req[r].answer # "receipt"
    BY DEF DInv, Types, Decide, RequestOK
  <1>2. /\ taken \in Request /\ taken.pc = "begin" /\ taken.key = k /\ taken.proposal = p
        /\ taken.answer # "receipt"
    BY <1>1 DEF Request
  <1>3. /\ unknown \in Request /\ unknown.pc = "done" /\ unknown.key = k /\ unknown.proposal = p
        /\ unknown.answer # "receipt"
    BY <1>1 DEF Request, Answers
  <1>4. req' = [req EXCEPT ![r] = taken] \/ req' = [req EXCEPT ![r] = unknown]
    BY DEF Decide
  <1> HIDE DEF taken, unknown
  <1>5. RequestOK(taken) /\ RequestOK(unknown)
    BY <1>2, <1>3, NoneAssumption DEF RequestOK
  <1>6. QED
    BY <1>2, <1>3, <1>4, <1>5, RequestKeepsDInv DEF Decide, DInv, Types

LEMMA SystemHoldKeepsDInv ==
    ASSUME DInv, NEW r \in Requests, NEW p \in Proposals, SystemHold(r, p)
    PROVE  DInv'
  <1> DEFINE taken == [req[r] EXCEPT !.pc = "keyed", !.proposal = p]
  <1>1. req[r] \in Request /\ req[r] = NewRequest
    BY DEF DInv, Types, SystemHold, RequestOK
  <1>2. /\ taken \in Request /\ taken.pc = "keyed" /\ taken.proposal = p
        /\ taken.key = req[r].key /\ taken.decision = req[r].decision /\ taken.answer = req[r].answer
    BY <1>1 DEF Request
  <1>3. req' = [req EXCEPT ![r] = taken]
    BY DEF SystemHold
  <1> HIDE DEF taken
  <1>4. RequestOK(taken)
    BY <1>1, <1>2 DEF RequestOK, NewRequest
  <1>5. QED
    BY <1>2, <1>3, <1>4, RequestKeepsDInv DEF SystemHold, DInv, Types

(* An answer: the request is done; a receipt needs its event. *)
LEMMA AnswerKeepsDInv ==
    ASSUME DInv, NEW r \in Requests, NEW a \in Answers, req' = Answer(r, a),
           req[r].pc # "new",
           a = "receipt" => {e \in events : e.key = req[r].key} = {ContentOf(r)},
           registered' = registered, UNCHANGED <<state, events, holds, lockRows>>
    PROVE  DInv'
  <1> DEFINE q == [req[r] EXCEPT !.pc = "done", !.answer = a]
  <1>1. req[r] \in Request
    BY DEF DInv, Types
  <1>2. /\ q \in Request /\ q.pc = "done" /\ q.answer = a
        /\ q.key = req[r].key /\ q.proposal = req[r].proposal /\ q.decision = req[r].decision
    BY <1>1 DEF Request
  <1>3. req' = [req EXCEPT ![r] = q]
    BY DEF Answer
  <1> HIDE DEF q
  <1>4. RequestOK(q)
    BY <1>2 DEF RequestOK, DInv, ContentOf
  <1>5. QED
    BY <1>2, <1>3, <1>4, RequestKeepsDInv DEF DInv, Types
LEMMA ReadKeyKeepsDInv ==
    ASSUME DInv, NEW r \in Requests, ReadKey(r)
    PROVE  DInv'
  <1> DEFINE used == {e \in events : e.key = req[r].key}
             free == [req[r] EXCEPT !.pc = "keyed"]
  <1>1. req[r] \in Request /\ req[r].pc = "begin" /\ RequestOK(req[r])
    BY DEF DInv, Types, ReadKey
  <1>2. UNCHANGED <<registered, state, events, holds, lockRows>>
    BY DEF ReadKey
  <1>3. CASE used = {}
    <2>1. req' = [req EXCEPT ![r] = free]
      BY <1>3 DEF ReadKey
    <2>2. /\ free \in Request /\ free.pc = "keyed" /\ free.key = req[r].key
          /\ free.proposal = req[r].proposal /\ free.decision = req[r].decision
          /\ free.answer = req[r].answer
      BY <1>1 DEF Request
    <2> HIDE DEF free
    <2>3. RequestOK(free)
      BY <1>1, <2>2, NoneAssumption DEF RequestOK
    <2>4. QED
      BY <1>2, <2>1, <2>2, <2>3, RequestKeepsDInv DEF DInv, Types
  <1>4. CASE used # {} /\ \A e \in used : SameContent(e, r)
    <2>1. req' = Answer(r, "receipt")
      BY <1>4 DEF ReadKey
    <2>2. used = {ContentOf(r)}
      BY <1>4 DEF SameContent
    <2>3. QED
      BY <1>1, <1>2, <2>1, <2>2, AnswerKeepsDInv DEF Answers
  <1>5. CASE used # {} /\ ~\A e \in used : SameContent(e, r)
    <2>1. req' = Answer(r, "409")
      BY <1>5 DEF ReadKey
    <2>2. QED
      BY <1>1, <1>2, <2>1, AnswerKeepsDInv DEF Answers
  <1>6. QED
    BY <1>3, <1>4, <1>5

LEMMA ReadStateKeepsDInv ==
    ASSUME DInv, NEW r \in Requests, ReadState(r)
    PROVE  DInv'
  <1> DEFINE s == state[req[r].proposal]
             read == [req[r] EXCEPT !.pc = "read", !.read = s]
  <1>1. /\ req[r] \in Request /\ req[r].pc = "keyed" /\ RequestOK(req[r])
        /\ req[r].proposal \in Proposals
    BY DEF DInv, Types, ReadState, RequestOK
  <1>2. UNCHANGED <<registered, state, events, holds, lockRows>>
    BY DEF ReadState
  <1>3. CASE req' = Answer(r, "unchanged") \/ req' = Answer(r, "409")
    BY <1>1, <1>2, <1>3, AnswerKeepsDInv DEF Answers
  <1>4. CASE req' = [req EXCEPT ![r] = read] /\ (s # Proposed => ~IsSystem(r) /\ ~Refused(r, s))
    <2>1. s \in State \cup {Proposed}
      BY <1>1 DEF DInv, Types
    <2>2. /\ read \in Request /\ read.pc = "read" /\ read.key = req[r].key
          /\ read.proposal = req[r].proposal /\ read.decision = req[r].decision
          /\ read.answer = req[r].answer /\ read.read = s
      BY <1>1, <2>1 DEF Request
    <2>3. s # Proposed => s.status = "held" /\ req[r].decision \in Terminal /\ req[r].key # None
      BY <1>1, <1>4, <2>1 DEF Refused, IsSystem, State, Decisions, Terminal, Request
    <2>4. s.version \in Nat
      BY <2>1 DEF State, Proposed
    <2> HIDE DEF read
    <2>5. RequestOK(read)
      BY <1>1, <2>2, <2>3, <2>4 DEF RequestOK, ReadOnce
    <2>6. QED
      BY <1>2, <1>4, <2>2, <2>5, RequestKeepsDInv DEF DInv, Types
  <1>5. QED
    BY <1>3, <1>4 DEF ReadState

(* A write that is refused: once more from the start, or a conflict. *)
LEMMA RefusedWriteKeepsDInv ==
    ASSUME DInv, NEW r \in Requests, req[r].pc = "read",
           req' = Answer(r, "409") \/ req' = RetryOrConflict(r),
           UNCHANGED <<registered, state, events, holds, lockRows>>
    PROVE  DInv'
  <1> DEFINE first == IF IsSystem(r) THEN "keyed" ELSE "begin"
             again == [req[r] EXCEPT !.pc = first, !.read = Proposed, !.attempt = 2]
  <1>1. req[r] \in Request /\ RequestOK(req[r])
    BY DEF DInv, Types
  <1>2. CASE req' = Answer(r, "409")
    BY <1>2, AnswerKeepsDInv DEF Answers
  <1>3. CASE req' = [req EXCEPT ![r] = again]
    <2>0. first \in {"keyed", "begin"} /\ (first = "keyed" <=> IsSystem(r))
      OBVIOUS
    <2> HIDE DEF first
    <2> DEFINE back == [req[r] EXCEPT !.pc = first]
               unread == [back EXCEPT !.read = Proposed]
    <2>1. /\ back \in Request /\ back.pc = first /\ back.key = req[r].key
          /\ back.proposal = req[r].proposal /\ back.decision = req[r].decision
          /\ back.answer = req[r].answer
      BY <1>1, <2>0 DEF Request
    <2> HIDE DEF back
    <2>2. /\ unread \in Request /\ unread.pc = first /\ unread.key = req[r].key
          /\ unread.proposal = req[r].proposal /\ unread.decision = req[r].decision
          /\ unread.answer = req[r].answer
      BY <2>1 DEF Request
    <2>3. again = [unread EXCEPT !.attempt = 2]
      BY DEF back
    <2> HIDE DEF again, unread
    <2>4. /\ again \in Request /\ again.pc = first /\ again.key = req[r].key
          /\ again.proposal = req[r].proposal /\ again.decision = req[r].decision
          /\ again.answer = req[r].answer
      BY <2>2, <2>3 DEF Request
    <2>5. IsSystem(r) \/ req[r].key \in Keys
      BY <1>1 DEF IsSystem, Request
    <2>6. RequestOK(again)
      BY <1>1, <2>0, <2>4, <2>5, NoneAssumption DEF RequestOK, IsSystem
    <2>7. QED
      BY <1>3, <2>4, <2>6, RequestKeepsDInv DEF DInv, Types
  <1>4. QED
    BY <1>2, <1>3 DEF RetryOrConflict

(* A write that goes through finds the row as it was read. *)
WriteOf(r) ==
    /\ req[r].pc = "read" /\ ~Changed(r) /\ ~KeyRefused(r)
    /\ state' = [state EXCEPT ![req[r].proposal] =
           [status |-> req[r].decision, version |-> req[r].read.version + 1]]
    /\ events' = IF IsSystem(r) THEN events ELSE events \cup {ContentOf(r)}
    /\ holds' = IF IsSystem(r) THEN [holds EXCEPT ![req[r].proposal] = @ + 1] ELSE holds
    /\ req' = Answer(r, IF IsSystem(r) THEN "held" ELSE "receipt")
    /\ UNCHANGED <<registered, lockRows>>

LEMMA WriteFindsRead ==
    ASSUME DInv, NEW r \in Requests, WriteOf(r)
    PROVE  LET p == req[r].proposal IN
           /\ p \in Proposals /\ req[r] \in Request
           /\ state[p] = req[r].read
           /\ state[p].status \notin Terminal /\ TerminalOf(p) = {}
           /\ IsSystem(r) => state[p] = Proposed /\ holds[p] = 0 /\ req[r].decision = "held"
           /\ state[p] # Proposed => req[r].decision \in Terminal
           /\ \A e \in events : ~IsSystem(r) => e.key # req[r].key
           /\ ~IsSystem(r) => req[r].key \in Keys
           /\ state[p].version \in Nat
  <1> DEFINE p == req[r].proposal
  <1>1. /\ req[r] \in Request /\ RequestOK(req[r]) /\ req[r].pc = "read" /\ p \in Proposals
        /\ ReadOnce(req[r])
    BY DEF DInv, Types, RequestOK, WriteOf
  <1>2. state[p] = req[r].read
    BY <1>1 DEF WriteOf, Changed, KeyRefused, ReadOnce
  <1>3. state[p] \in State \cup {Proposed} /\ state[p].version \in Nat
    BY <1>1 DEF DInv, Types, State, Proposed
  <1>4. state[p].status \notin Terminal
    BY <1>1, <1>2 DEF ReadOnce, Proposed, Terminal
  <1>5. Explained(p)
    BY <1>1 DEF DInv
  <1>6. TerminalOf(p) = {}
    BY <1>4, <1>5 DEF Explained
  <1>7. IsSystem(r) => state[p] = Proposed /\ holds[p] = 0 /\ req[r].decision = "held"
    <2>1. SUFFICES ASSUME IsSystem(r)
                   PROVE  state[p] = Proposed /\ holds[p] = 0 /\ req[r].decision = "held"
      OBVIOUS
    <2>2. state[p] = Proposed /\ req[r].decision = "held"
      BY <1>1, <1>2, <2>1 DEF IsSystem, RequestOK, ReadOnce
    <2>3. Cardinality({e \in events : e.proposal = p}) \in Nat
      BY FS_Subset, FS_CardinalityType DEF DInv, Types
    <2>4. holds[p] \in {0, 1}
      BY <1>1 DEF DInv, Types
    <2>5. QED
      BY <1>5, <2>2, <2>3, <2>4 DEF Explained, Proposed
  <1>8. ~IsSystem(r) => req[r].key \in Keys /\ \A e \in events : e.key # req[r].key
    BY <1>1 DEF WriteOf, KeyRefused, IsSystem, Request
  <1>9. QED
    BY <1>1, <1>2, <1>3, <1>4, <1>6, <1>7, <1>8 DEF ReadOnce
LEMMA WriteKeepsDInv ==
    ASSUME DInv, NEW r \in Requests, WriteOf(r)
    PROVE  DInv'
  <1> DEFINE p == req[r].proposal
             d == req[r].decision
             of(x) == {e \in events : e.proposal = x}
             new == [status |-> d, version |-> req[r].read.version + 1]
             c == ContentOf(r)
             a == IF IsSystem(r) THEN "held" ELSE "receipt"
             q == [req[r] EXCEPT !.pc = "done", !.answer = a]
  <1>1. /\ p \in Proposals /\ req[r] \in Request
        /\ state[p] = req[r].read
        /\ state[p].status \notin Terminal /\ TerminalOf(p) = {}
        /\ IsSystem(r) => state[p] = Proposed /\ holds[p] = 0 /\ d = "held"
        /\ state[p] # Proposed => d \in Terminal
        /\ \A e \in events : ~IsSystem(r) => e.key # req[r].key
        /\ ~IsSystem(r) => req[r].key \in Keys
        /\ state[p].version \in Nat
    BY WriteFindsRead
  <1>2. /\ state' = [state EXCEPT ![p] = new]
        /\ events' = IF IsSystem(r) THEN events ELSE events \cup {c}
        /\ holds' = IF IsSystem(r) THEN [holds EXCEPT ![p] = holds[p] + 1] ELSE holds
        /\ req' = [req EXCEPT ![r] = q]
        /\ UNCHANGED <<registered, lockRows>>
    BY DEF WriteOf, Answer
  <1>3. /\ new \in State /\ new.status = d /\ new.version = state[p].version + 1
        /\ d \in Decisions
    BY <1>1 DEF State, Request
  <1>4. /\ c.key = req[r].key /\ c.proposal = p /\ c.decision = d
        /\ ~IsSystem(r) => c \in Content /\ c \notin events
    BY <1>1 DEF ContentOf, Content, Request
  <1>5. /\ a \in Answers /\ (a = "receipt" <=> ~IsSystem(r))
    BY DEF Answers
  <1>6. /\ q.pc = "done" /\ q.answer = a /\ q.key = req[r].key /\ q.proposal = p /\ q.decision = d
        /\ q \in Request
    <2> HIDE DEF a
    <2>1. QED
      BY <1>1, <1>5 DEF Request
  <1>7. c = [key |-> q.key, proposal |-> q.proposal, decision |-> q.decision]
    BY <1>6 DEF ContentOf
  <1> HIDE DEF q, a, c, new
  <1>8. Types'
    <2>1. IsFiniteSet(events')
      BY <1>2, FS_AddElement DEF DInv, Types
    <2>2. events' \subseteq Content
      BY <1>2, <1>4 DEF DInv, Types
    <2>3. holds' \in [Proposals -> {0, 1}]
      BY <1>1, <1>2 DEF DInv, Types
    <2>4. QED
      BY <1>1, <1>2, <1>3, <1>6, <2>1, <2>2, <2>3 DEF DInv, Types
  <1>9. KeysUnique'
    BY <1>1, <1>2, <1>4 DEF DInv, KeysUnique
  <1>10. ASSUME NEW s \in Requests PROVE RequestOK(req[s])'
    <2>1. CASE s = r
      <3>1. req'[s] = q
        BY <1>2, <2>1 DEF DInv, Types
      <3>2. a = "receipt" => {e \in events' : e.key = q.key} = {c}
        BY <1>1, <1>2, <1>4, <1>5, <1>6
      <3>3. q.key = None => q.decision = "held"
        BY <1>1, <1>6 DEF IsSystem
      <3>4. QED
        BY <1>1, <1>6, <1>7, <3>1, <3>2, <3>3 DEF RequestOK
    <2>2. CASE s # r
      <3>1. req'[s] = req[s] /\ RequestOK(req[s]) /\ req[s] \in Request
        BY <1>2, <2>2 DEF DInv, Types
      <3>2. ASSUME req[s].answer = "receipt"
            PROVE  {e \in events' : e.key = req[s].key} = {e \in events : e.key = req[s].key}
        <4>1. \E e \in events : e.key = req[s].key
          BY <3>1, <3>2 DEF RequestOK
        <4>2. QED
          BY <1>1, <1>2, <1>4, <4>1
      <3>3. ASSUME req[s].pc = "read"
            PROVE  ReadOnce(req[s])'
        <4>1. ReadOnce(req[s]) /\ req[s].read.version \in Nat /\ req[s].proposal \in Proposals
          BY <3>1, <3>3 DEF RequestOK, Request, State, Proposed
        <4>2. CASE req[s].proposal # p
          BY <1>2, <3>1, <4>1, <4>2 DEF ReadOnce, DInv, Types
        <4>3. CASE req[s].proposal = p
          <5>1. state'[p] = new
            BY <1>1, <1>2 DEF DInv, Types
          <5>2. QED
            BY <1>1, <1>3, <3>1, <4>1, <4>3, <5>1 DEF ReadOnce
        <4>4. QED
          BY <4>2, <4>3
      <3>4. QED
        BY <3>1, <3>2, <3>3 DEF RequestOK
    <2>3. QED
      BY <2>1, <2>2
  <1>11. ASSUME NEW x \in Proposals PROVE Explained(x)'
    <2>1. Explained(x) /\ IsFiniteSet(of(x)) /\ Cardinality(of(x)) \in Nat /\ holds[x] \in {0, 1}
      BY FS_Subset, FS_CardinalityType DEF DInv, Types
    <2> DEFINE ofAfter == {e \in events' : e.proposal = x}
    <2>2. CASE x # p
      <3>1. ofAfter = of(x) /\ TerminalOf(x)' = TerminalOf(x)
        BY <1>2, <1>4, <2>2 DEF TerminalOf
      <3>2. state'[x] = state[x] /\ holds'[x] = holds[x]
        BY <1>2, <2>2 DEF DInv, Types
      <3>3. QED
        BY <2>1, <3>1, <3>2 DEF Explained
    <2>3. CASE x = p
      <3>1. state'[x] = new
        BY <1>2, <2>3 DEF DInv, Types
      <3>2. CASE IsSystem(r)
        <4>1. ofAfter = of(x) /\ TerminalOf(x)' = TerminalOf(x)
          BY <1>2, <3>2 DEF TerminalOf
        <4>2. holds'[x] = holds[x] + 1
          BY <1>2, <2>3, <3>2 DEF DInv, Types
        <4>3. new.status \notin Terminal
          BY <1>1, <1>3, <3>2 DEF Terminal
        <4>4. new.version = Cardinality(ofAfter) + holds'[x]
          <5>1. state[x].version = Cardinality(of(x)) + holds[x]
            BY <2>1 DEF Explained
          <5> HIDE DEF of, ofAfter
          <5>2. QED
            BY <1>3, <2>1, <2>3, <4>1, <4>2, <5>1
        <4>5. TerminalOf(x)' = {}
          BY <1>1, <2>3, <4>1
        <4>6. QED
          BY <3>1, <4>3, <4>4, <4>5 DEF Explained
      <3>3. CASE ~IsSystem(r)
        <4>1. ofAfter = of(x) \cup {c} /\ c \notin of(x)
          BY <1>2, <1>4, <2>3, <3>3
        <4>2. Cardinality(ofAfter) = Cardinality(of(x)) + 1
          BY <2>1, <4>1, FS_AddElement
        <4>3. TerminalOf(x)' = IF d \in Terminal THEN {c} ELSE {}
          BY <1>1, <1>2, <1>4, <2>3, <3>3 DEF TerminalOf
        <4>4. holds'[x] = holds[x]
          BY <1>2, <3>3
        <4>5. new.version = Cardinality(ofAfter) + holds'[x]
          BY <1>3, <2>1, <2>3, <4>2, <4>4 DEF Explained
        <4>6. QED
          BY <1>3, <1>4, <3>1, <4>3, <4>5 DEF Explained
      <3>4. QED
        BY <3>2, <3>3
    <2>4. QED
      BY <2>2, <2>3
  <1>12. QED
    BY <1>8, <1>9, <1>10, <1>11 DEF DInv
LEMMA CommitKeepsDInv ==
    ASSUME DInv, NEW r \in Requests, Commit(r)
    PROVE  DInv'
  <1>1. CASE WriteOf(r)
    BY <1>1, WriteKeepsDInv
  <1>2. CASE ~WriteOf(r)
    <2>1. /\ req[r].pc = "read"
          /\ req' = Answer(r, "409") \/ req' = RetryOrConflict(r)
          /\ UNCHANGED <<registered, state, events, holds, lockRows>>
      BY <1>2 DEF Commit, WriteOf
    <2>2. QED
      BY <2>1, RefusedWriteKeepsDInv
  <1>3. QED
    BY <1>1, <1>2

LEMMA NextDInv == DInv /\ [Next]_vars => DInv'
  <1> SUFFICES ASSUME DInv, [Next]_vars PROVE DInv'
    OBVIOUS
  <1>1. CASE UNCHANGED vars \/ Ended
    BY <1>1 DEF vars, Ended, DInv, Types, RequestOK, ReadOnce, KeysUnique, Explained, TerminalOf
  <1>2. ASSUME NEW p \in Proposals, Register(p)
        PROVE  DInv'
    BY <1>2 DEF Register, DInv, Types, RequestOK, ReadOnce, KeysUnique, Explained, TerminalOf
  <1>3. ASSUME NEW r \in Requests, Handle(r)
        PROVE  DInv'
    BY <1>3, ReadKeyKeepsDInv, ReadStateKeepsDInv, CommitKeepsDInv DEF Handle
  <1>4. QED
    BY <1>1, <1>2, <1>3, DecideKeepsDInv, SystemHoldKeepsDInv DEF Next

----------------------------------------------------------------------------
(* The invariant as the runs state it. *)
LEMMA DInvExplains == DInv => EventsExplainState /\ ReceiptIsReal /\ TypeOK
  <1> SUFFICES ASSUME DInv PROVE EventsExplainState /\ ReceiptIsReal /\ TypeOK
    OBVIOUS
  <1>1. ASSUME NEW p \in Proposals
        PROVE  LET of == {e \in events : e.proposal = p}
                   terminal == {e \in of : e.decision \in Terminal}
               IN  /\ state[p].version = Cardinality(of) + holds[p]
                   /\ Cardinality(terminal) <= 1
                   /\ \A e \in terminal : state[p].status = e.decision
                   /\ state[p].status \in Terminal => terminal # {}
    <2> DEFINE of == {e \in events : e.proposal = p}
               terminal == {e \in of : e.decision \in Terminal}
    <2>1. Explained(p)
      BY DEF DInv
    <2>2. terminal = TerminalOf(p)
      BY DEF TerminalOf
    <2>3. state[p].version = Cardinality(of) + holds[p]
      BY <2>1 DEF Explained
    <2> HIDE DEF of, terminal
    <2>4. Cardinality(terminal) <= 1
      <3>1. CASE TerminalOf(p) = {}
        BY <2>2, <3>1, FS_EmptySet
      <3>2. CASE \E e : TerminalOf(p) = {e}
        BY <2>2, <3>2, FS_Singleton
      <3>3. QED
        BY <2>1, <3>1, <3>2 DEF Explained
    <2>5. /\ \A e \in terminal : state[p].status = e.decision
          /\ state[p].status \in Terminal => terminal # {}
      BY <2>1, <2>2 DEF Explained
    <2>6. QED
      BY <2>3, <2>4, <2>5 DEF of, terminal
  <1>2. EventsExplainState
    BY <1>1 DEF EventsExplainState
  <1>3. ReceiptIsReal
    BY DEF DInv, RequestOK, ReceiptIsReal, ContentOf
  <1>4. TypeOK
    BY DEF DInv, Types, TypeOK, Request
  <1>5. QED
    BY <1>2, <1>3, <1>4

(* Types for any requests, proposals and keys; in particular the system    *)
(* puts a proposal on hold at most once.                                   *)
THEOREM DecisionTypes == Spec => []TypeOK
  BY InitDInv, NextDInv, DInvExplains, PTL DEF Spec

(* No race of any number of reviewers and provider failures loses, repeats *)
(* or invents a decision: the recorded events explain every state row.     *)
THEOREM NoDecisionLost == Spec => []EventsExplainState
  BY InitDInv, NextDInv, DInvExplains, PTL DEF Spec

(* A receipt always stands for the one event under the request's key, with *)
(* the content the request asked for.                                      *)
THEOREM ReceiptsAreReal == Spec => []ReceiptIsReal
  BY InitDInv, NextDInv, DInvExplains, PTL DEF Spec

(* "it never rewrites an accepted/rejected row". *)
THEOREM TerminalStands == Spec => TerminalKept
  <1> DEFINE Kept == \A p \in Proposals :
         /\ state[p].status \in Terminal => state'[p] = state[p]
         /\ state[p].status = "held" => state'[p].status \in Terminal \cup {"held"}
  <1>1. ASSUME DInv, [Next]_vars PROVE [Kept]_vars
    <2>1. CASE UNCHANGED state
      BY <2>1
    <2>2. ASSUME NEW r \in Requests, WriteOf(r)
          PROVE  Kept
      <3>1. /\ req[r].proposal \in Proposals
            /\ state[req[r].proposal].status \notin Terminal
            /\ state[req[r].proposal] # Proposed => req[r].decision \in Terminal
        BY <1>1, <2>2, WriteFindsRead
      <3>2. /\ state \in [Proposals -> State \cup {Proposed}]
            /\ state' = [state EXCEPT ![req[r].proposal] =
                 [status |-> req[r].decision, version |-> req[r].read.version + 1]]
        BY <1>1, <2>2 DEF DInv, Types, WriteOf
      <3>3. Proposed.status # "held"
        BY DEF Proposed
      <3>4. QED
        BY <3>1, <3>2, <3>3
    <2>3. UNCHANGED state \/ \E r \in Requests : WriteOf(r)
      BY <1>1 DEF Next, Register, Decide, SystemHold, Handle, ReadKey, ReadState, Commit, WriteOf, Ended, vars
    <2>4. QED
      BY <2>1, <2>2, <2>3
  <1>2. QED
    BY <1>1, InitDInv, NextDInv, PTL DEF Spec, TerminalKept

-----------------------------------------------------------------------------
(* Workspace reports: what is inductive.  A set of reports has at most one *)
(* element, a report is a record with these fields, and a run at work is   *)
(* as true as what is shown.                                               *)
AtMostOne(S) == S = {} \/ \E r : S = {r}

IsReport(r) == r = [id |-> r.id, reviewedOnly |-> r.reviewedOnly, findings |-> r.findings, since |-> r.since]

IsVoid(v) == v = [kinds |-> v.kinds, since |-> v.since]

Told(r) ==
    /\ IsReport(r)
    /\ r.since = {} => r = Captured
    /\ (r.id # docId \/ r.reviewedOnly # reviewedOnly) => "overtaken" \in r.since

Known(v) == IsVoid(v) /\ (v.since = {} => v.kinds = VoidKinds)

IslandTypes ==
    /\ islands \subseteq Islands /\ member \in [Cards -> islands \cup {Nothing}]
    /\ summary \in [Islands -> Summaries]

ReportsInv ==
    /\ IslandTypes
    /\ AtMostOne(running) /\ AtMostOne(report)
    /\ \A r \in running : Told(r)
    /\ \A r \in report : Told(r)
    /\ \A v \in voids : Known(v)

(* What was found depends on the islands of the document only.             *)
LEMMA SameFindings ==
  ASSUME UNCHANGED structure
  PROVE  Findings' = Findings /\ VoidKinds' = VoidKinds
  <1>1. /\ islands' = islands /\ member' = member /\ titled' = titled
        /\ summary' = summary /\ edges' = edges /\ explained' = explained
    BY DEF structure
  <1>2. Derived' = Derived
    BY <1>1 DEF Derived, IslandsOf, IslandEdges
  <1>3. IslandEdges' = IslandEdges /\ LoneCards' = LoneCards
    BY <1>1 DEF IslandEdges, LoneCards
  <1>4. Disconnected' = Disconnected /\ IsolatedIslands' = IsolatedIslands /\ ConnectedPairs' = ConnectedPairs
    BY <1>1, <1>2, <1>3, Zenon DEF Disconnected, IsolatedIslands, ConnectedPairs
  <1>5. VoidKinds' = VoidKinds
    BY <1>1, <1>3, <1>4, Zenon DEF VoidKinds, HasText, Reviewed
  <1>6. Findings' = Findings
    <2>1. /\ {i \in islands : ~titled[i]}' = {i \in islands : ~titled[i]}
          /\ {i \in islands : ~HasText(i)}' = {i \in islands : ~HasText(i)}
          /\ {i \in islands : ~Reviewed(i)}' = {i \in islands : ~Reviewed(i)}
          /\ {i \in islands : Reviewed(i)}' = {i \in islands : Reviewed(i)}
      BY <1>1 DEF HasText, Reviewed
    <2>2. QED
      BY <1>1, <1>4, <2>1 DEF Findings, Finding, More
  <1>7. QED
    BY <1>5, <1>6

LEMMA SinceOne ==
  ASSUME NEW S, NEW what, AtMostOne(S)
  PROVE  AtMostOne(Since(S, what))
  <1>1. CASE S = {}
    BY <1>1 DEF Since, AtMostOne
  <1>2. CASE \E r : S = {r}
    <2>1. PICK r : S = {r}
      BY <1>2
    <2>2. Since(S, what) = {[r EXCEPT !.since = @ \cup {what}]}
      BY <2>1 DEF Since
    <2>3. QED
      BY <2>2 DEF AtMostOne
  <1>3. QED
    BY <1>1, <1>2 DEF AtMostOne

LEMMA SinceReport ==
  ASSUME NEW S, NEW what, \A r \in S : IsReport(r), NEW t \in Since(S, what)
  PROVE  \E r \in S : /\ IsReport(t) /\ t.id = r.id /\ t.reviewedOnly = r.reviewedOnly
                      /\ t.since = r.since \cup {what}
  <1>1. PICK r \in S : t = [r EXCEPT !.since = @ \cup {what}]
    BY DEF Since
  <1>2. r = [id |-> r.id, reviewedOnly |-> r.reviewedOnly, findings |-> r.findings, since |-> r.since]
    BY DEF IsReport
  <1>3. t = [id |-> r.id, reviewedOnly |-> r.reviewedOnly, findings |-> r.findings, since |-> r.since \cup {what}]
    BY <1>1, <1>2
  <1>4. QED
    BY <1>3 DEF IsReport

LEMMA SinceVoid ==
  ASSUME NEW S, NEW what, \A v \in S : IsVoid(v), NEW t \in Since(S, what)
  PROVE  IsVoid(t) /\ what \in t.since
  <1>1. PICK v \in S : t = [v EXCEPT !.since = @ \cup {what}]
    BY DEF Since
  <1>2. v = [kinds |-> v.kinds, since |-> v.since]
    BY DEF IsVoid
  <1>3. t = [kinds |-> v.kinds, since |-> v.since \cup {what}]
    BY <1>1, <1>2
  <1>4. QED
    BY <1>3 DEF IsVoid

(* An edit spoils nothing that is stored or on show: it is marked.         *)
LEMMA EditedKeeps ==
  ASSUME ReportsInv, Edited, IslandTypes'
  PROVE  ReportsInv'
  <1>1. docId' = docId /\ reviewedOnly' = reviewedOnly
    BY DEF Edited, reading
  <1>2. AtMostOne(running)' /\ AtMostOne(report)'
    <2>1. AtMostOne(running') /\ AtMostOne(report')
      BY SinceOne DEF ReportsInv, Edited
    <2>2. QED
      BY <2>1 DEF AtMostOne
  <1>3. ASSUME NEW S, \A r \in S : Told(r), NEW t \in Since(S, "edited")
        PROVE  Told(t)'
    <2>1. PICK r \in S : /\ IsReport(t) /\ t.id = r.id /\ t.reviewedOnly = r.reviewedOnly
                         /\ t.since = r.since \cup {"edited"}
      <3>1. \A r \in S : IsReport(r)
        BY <1>3 DEF Told
      <3>2. QED
        BY <1>3, <3>1, SinceReport
    <2>2. t.since # {}
      BY <2>1
    <2>3. (t.id # docId \/ t.reviewedOnly # reviewedOnly) => "overtaken" \in t.since
      BY <1>3, <2>1 DEF Told
    <2>4. QED
      BY <1>1, <2>1, <2>2, <2>3 DEF Told, IsReport
  <1>4. \A r \in running' : Told(r)'
    BY <1>3 DEF ReportsInv, Edited
  <1>5. \A r \in report' : Told(r)'
    BY <1>3 DEF ReportsInv, Edited
  <1>6. \A v \in voids' : Known(v)'
    <2> TAKE v \in voids'
    <2>1. IsVoid(v) /\ "edited" \in v.since
      <3>1. v \in Since(voids, "edited") /\ \A w \in voids : IsVoid(w)
        BY DEF Edited, ReportsInv, Known
      <3>2. QED
        BY <3>1, SinceVoid
    <2>2. QED
      BY <2>1 DEF Known, IsVoid
  <1>7. QED
    BY <1>2, <1>4, <1>5, <1>6 DEF ReportsInv

(* Another document or option leaves the islands alone.                    *)
LEMMA OvertakenKeeps ==
  ASSUME ReportsInv, Overtaken, UNCHANGED <<structure, voids>>
  PROVE  ReportsInv'
  <1>1. VoidKinds' = VoidKinds /\ IslandTypes'
    BY SameFindings DEF ReportsInv, IslandTypes, structure
  <1>2. AtMostOne(running)' /\ AtMostOne(report)'
    <2>1. AtMostOne(running') /\ AtMostOne(report')
      BY SinceOne DEF ReportsInv, Overtaken, AtMostOne
    <2>2. QED
      BY <2>1 DEF AtMostOne
  <1>3. \A t \in running' : Told(t)'
    <2> TAKE t \in running'
    <2>1. IsReport(t) /\ "overtaken" \in t.since
      <3>1. (\A r \in running : IsReport(r)) /\ t \in Since(running, "overtaken")
        BY DEF ReportsInv, Told, Overtaken
      <3>2. PICK r \in running : IsReport(t) /\ t.since = r.since \cup {"overtaken"}
        BY <3>1, SinceReport
      <3>3. QED
        BY <3>2
    <2>2. QED
      BY <2>1 DEF Told, IsReport
  <1>4. report' = {} /\ voids' = voids
    BY DEF Overtaken
  <1>5. \A v \in voids' : Known(v)'
    BY <1>1, <1>4 DEF ReportsInv, Known, IsVoid
  <1>6. QED
    BY <1>1, <1>2, <1>3, <1>4, <1>5 DEF ReportsInv

(* Nothing that reports tell of changes.                                   *)
LEMMA StillKeeps ==
  ASSUME ReportsInv, UNCHANGED <<structure, reading>>,
         NEW S, \A r \in S : Told(r)
  PROVE  IslandTypes' /\ VoidKinds' = VoidKinds /\ \A r \in S : Told(r)'
  <1>1. Findings' = Findings /\ VoidKinds' = VoidKinds /\ docId' = docId /\ reviewedOnly' = reviewedOnly
    BY SameFindings DEF reading
  <1>2. IslandTypes'
    BY DEF ReportsInv, IslandTypes, structure
  <1>3. Captured' = Captured
    BY <1>1 DEF Captured
  <1>4. QED
    BY <1>1, <1>2, <1>3 DEF Told, IsReport

LEMMA ReportsInit_Inv == ReportsInit => ReportsInv
  BY DEF ReportsInit, ReportsInv, IslandTypes, AtMostOne, Summaries

LEMMA ReportsNext_Inv == ReportsInv /\ [IslandNext \/ ReportNext]_reportVars => ReportsInv'
  <1> SUFFICES ASSUME ReportsInv, [IslandNext \/ ReportNext]_reportVars PROVE ReportsInv'
    OBVIOUS
  <1>0. IslandTypes
    BY DEF ReportsInv
  <1>1. ASSUME NEW e \in Relations, Draw(e) PROVE ReportsInv'
    <2>1. IslandTypes' /\ Edited
      BY <1>0, <1>1 DEF Draw, IslandTypes
    <2>2. QED
      BY <2>1, EditedKeeps
  <1>2. ASSUME NEW c \in Cards, NEW i \in Islands \cup {Nothing}, Move(c, i) PROVE ReportsInv'
    <2>1. IslandTypes' /\ Edited
      BY <1>0, <1>2 DEF Move, IslandTypes
    <2>2. QED
      BY <2>1, EditedKeeps
  <1>3. ASSUME NEW i \in Islands, NEW j \in Islands, Explain(i, j) PROVE ReportsInv'
    <2>1. IslandTypes' /\ Edited
      BY <1>0, <1>3 DEF Explain, IslandTypes
    <2>2. QED
      BY <2>1, EditedKeeps
  <1>4. ASSUME NEW i \in Islands, NEW s \in Summaries, Rewrite(i, s) PROVE ReportsInv'
    <2>1. IslandTypes' /\ Edited
      BY <1>0, <1>4 DEF Rewrite, IslandTypes
    <2>2. QED
      BY <2>1, EditedKeeps
  <1>5. ASSUME NEW i \in Islands, Title(i) PROVE ReportsInv'
    <2>1. IslandTypes' /\ Edited
      BY <1>0, <1>5 DEF Title, IslandTypes
    <2>2. QED
      BY <2>1, EditedKeeps
  <1>6. ASSUME NEW i \in Islands, DeleteIsland(i) PROVE ReportsInv'
    <2>1. IslandTypes' /\ Edited
      BY <1>0, <1>6 DEF DeleteIsland, IslandTypes
    <2>2. QED
      BY <2>1, EditedKeeps
  <1>7. ASSUME DetectVoids PROVE ReportsInv'
    <2>1. UNCHANGED <<structure, reading>> /\ running' = running /\ report' = report
      BY <1>7 DEF DetectVoids, reports
    <2>2. IslandTypes' /\ VoidKinds' = VoidKinds
      BY <2>1, StillKeeps, Zenon DEF ReportsInv
    <2>3. (\A r \in running : Told(r)') /\ \A r \in report : Told(r)'
      BY <2>1, StillKeeps DEF ReportsInv
    <2>4. \A v \in voids' : Known(v)'
      BY <1>7, <2>2 DEF DetectVoids, Known, IsVoid
    <2>5. QED
      BY <2>1, <2>2, <2>3, <2>4 DEF ReportsInv, AtMostOne
  <1>8. ASSUME RunDiagnostics \/ ShowDiagnostics \/ CancelDiagnostics PROVE ReportsInv'
    <2>1. UNCHANGED <<structure, reading, voids>>
      BY <1>8 DEF RunDiagnostics, ShowDiagnostics, CancelDiagnostics
    <2> DEFINE S == running \cup report \cup {Captured}
    <2>2. Told(Captured)
      BY DEF Told, IsReport, Captured
    <2>3. \A r \in S : Told(r)
      BY <2>2 DEF ReportsInv
    <2>4. IslandTypes' /\ VoidKinds' = VoidKinds /\ \A r \in S : Told(r)'
      BY <2>1, <2>3, StillKeeps
    <2>5. running' \subseteq S /\ report' \subseteq S
      BY <1>8 DEF RunDiagnostics, ShowDiagnostics, CancelDiagnostics
    <2>6. AtMostOne(running)' /\ AtMostOne(report)'
      BY <1>8 DEF RunDiagnostics, ShowDiagnostics, CancelDiagnostics, AtMostOne, ReportsInv
    <2>7. \A v \in voids' : Known(v)'
      BY <2>1, <2>4 DEF Known, IsVoid, ReportsInv
    <2>8. QED
      BY <2>4, <2>5, <2>6, <2>7 DEF ReportsInv
  <1>9. ASSUME ToggleReviewedOnly \/ OpenDocument PROVE ReportsInv'
    BY <1>9, OvertakenKeeps DEF ToggleReviewedOnly, OpenDocument
  <1>10. CASE UNCHANGED reportVars
    <2>1. /\ UNCHANGED <<structure, reading>>
          /\ voids' = voids /\ running' = running /\ report' = report
      BY <1>10 DEF reportVars, reports
    <2>2. IslandTypes' /\ VoidKinds' = VoidKinds
      BY <2>1, StillKeeps, Zenon DEF ReportsInv
    <2>3. (\A r \in running : Told(r)') /\ \A r \in report : Told(r)'
      BY <2>1, StillKeeps DEF ReportsInv
    <2>4. \A v \in voids' : Known(v)'
      BY <2>1, <2>2 DEF Known, IsVoid, ReportsInv
    <2>5. QED
      BY <2>1, <2>2, <2>3, <2>4 DEF ReportsInv, AtMostOne
  <1>11. QED
    BY <1>1, <1>2, <1>3, <1>4, <1>5, <1>6, <1>7, <1>8, <1>9, <1>10 DEF IslandNext, ReportNext

LEMMA ReportsInvHolds == ReportsSpec => []ReportsInv
  BY ReportsInit_Inv, ReportsNext_Inv, PTL DEF ReportsSpec

LEMMA AtMostOneIs == ASSUME NEW S, AtMostOne(S) PROVE Cardinality(S) <= 1
  <1>1. CASE S = {}
    BY <1>1, FS_EmptySet
  <1>2. CASE \E r : S = {r}
    BY <1>2, FS_Singleton
  <1>3. QED
    BY <1>1, <1>2 DEF AtMostOne

(* The structure of the workspace stays well-formed, and at most one run of *)
(* the diagnostics is at work and one result on show.                      *)
THEOREM ReportsTyped == ReportsSpec => []ReportsTypeOK
  <1>1. ReportsInv => ReportsTypeOK
    BY AtMostOneIs DEF ReportsInv, IslandTypes, ReportsTypeOK
  <1>2. QED
    BY <1>1, ReportsInvHolds, PTL

(* Reports on show, and stored voids, tell of what is open and of how it   *)
(* is now, unless it was edited since (handleRunOutlineDiagnostics,        *)
(* handleDetectVoids).                                                     *)
THEOREM ReportsStayCurrent == ReportsSpec => []ReportsCurrent
  <1>1. ReportsInv => ReportsCurrent
    BY DEF ReportsInv, Told, Known, ReportsCurrent
  <1>2. QED
    BY <1>1, ReportsInvHolds, PTL

(* Where the two counts of relations differ, and which relations cannot be *)
(* explained.                                                              *)
LEMMA RelationsTold == RelationsAgree
  <1>1. ASSUME NEW i \in IsolatedIslands \ Disconnected
        PROVE  \E e \in Derived : i \in {e.from, e.to}
    BY <1>1 DEF IsolatedIslands, Disconnected
  <1>2. ASSUME NEW i \in Disconnected \ IsolatedIslands
        PROVE  \E e \in IslandEdges : e.from = i /\ e.to = i
    BY <1>2 DEF IsolatedIslands, Disconnected
  <1>3. ASSUME ({{i, j} : i, j \in islands} \ {{i} : i \in islands}) \subseteq explained,
               NEW p \in ConnectedPairs \ explained, p \subseteq islands
        PROVE  Cardinality(p) = 1
    <2>1. PICK e : p = {e.from, e.to}
      BY DEF ConnectedPairs
    <2>2. CASE e.from = e.to
      <3>1. p = {e.from}
        BY <2>1, <2>2
      <3>2. QED
        BY <3>1, FS_Singleton
    <2>3. CASE e.from # e.to
      <3>1. p \in {{i, j} : i, j \in islands}
        BY <1>3, <2>1
      <3>2. p \notin {{i} : i \in islands}
        BY <2>1, <2>3
      <3>3. QED
        BY <1>3, <3>1, <3>2
    <2>4. QED
      BY <2>2, <2>3
  <1>4. QED
    BY <1>1, <1>2, <1>3 DEF RelationsAgree

(* Relations between islands are told the same way by both checks.         *)
THEOREM RelationsHold == ReportsSpec => []RelationsAgree
  BY RelationsTold, PTL

LEMMA LeastNumber == \A T \in SUBSET Nat : T # {} => \E x \in T : \A y \in T : x <= y
  <1> SUFFICES ASSUME NEW T \in SUBSET Nat, T # {} PROVE \E x \in T : \A y \in T : x <= y
    OBVIOUS
  <1>1. PICK x \in T : \A y \in T : ~(<<y, x>> \in OpToRel(<, Nat))
    BY NatLessThanWellFounded, WFMin
  <1>2. ASSUME NEW y \in T PROVE x <= y
    <2>1. ~(y < x)
      BY <1>1, Zenon DEF OpToRel
    <2>2. QED
      BY <2>1
  <1>3. QED
    BY <1>2

Ordered(s, S) ==
    /\ s \in [1..Cardinality(S) -> S]
    /\ \A x \in S : \E k \in DOMAIN s : s[k] = x
    /\ \A j, k \in DOMAIN s : j < k => s[j] < s[k]

(* The least element comes first, then the others in their order.          *)
LEMMA LeastFirst ==
  ASSUME NEW S \in SUBSET Nat, IsFiniteSet(S), NEW m \in S, \A y \in S : m <= y,
         NEW s, Ordered(s, S \ {m})
  PROVE  \E t : Ordered(t, S)
  <1> DEFINE n == Cardinality(S)
  <1>1. n \in Nat /\ n # 0 /\ Cardinality(S \ {m}) = n - 1
    BY FS_CardinalityType, FS_EmptySet, FS_RemoveElement
  <1> HIDE DEF n
  <1>2. /\ s \in [1..(n - 1) -> S \ {m}]
        /\ \A x \in S \ {m} : \E k \in 1..(n - 1) : s[k] = x
        /\ \A j, k \in 1..(n - 1) : j < k => s[j] < s[k]
    BY <1>1 DEF Ordered
  <1> DEFINE t == [k \in 1..n |-> IF k = 1 THEN m ELSE s[k - 1]]
  <1>3. t[1] = m /\ \A k \in 2..n : k - 1 \in 1..(n - 1) /\ t[k] = s[k - 1] /\ t[k] \in S /\ t[k] # m
    BY <1>1, <1>2
  <1>4. t \in [1..n -> S]
    <2>1. \A k \in 1..n : k = 1 \/ k \in 2..n
      BY <1>1
    <2>2. \A k \in 1..n : t[k] \in S
      BY <1>3, <2>1
    <2>3. QED
      BY <2>2
  <1>5. ASSUME NEW x \in S PROVE \E k \in 1..n : t[k] = x
    <2>1. CASE x = m
      BY <2>1, <1>1, <1>3
    <2>2. CASE x # m
      <3>1. PICK k \in 1..(n - 1) : s[k] = x
        BY <2>2, <1>2
      <3>2. k + 1 \in 2..n /\ k + 1 \in 1..n /\ (k + 1) - 1 = k
        BY <1>1
      <3>3. QED
        BY <3>1, <3>2, <1>3
    <2>3. QED
      BY <2>1, <2>2
  <1>6. ASSUME NEW j \in 1..n, NEW k \in 1..n, j < k PROVE t[j] < t[k]
    <2>1. k \in 2..n /\ (j = 1 \/ j \in 2..n)
      BY <1>1, <1>6
    <2>2. CASE j = 1
      <3>1. t[j] = m /\ t[k] \in S /\ t[k] # m
        BY <2>1, <2>2, <1>3
      <3>2. m <= t[k] /\ m \in Nat /\ t[k] \in Nat
        BY <3>1
      <3>3. QED
        BY <3>1, <3>2
    <2>3. CASE j \in 2..n
      <3>1. t[j] = s[j - 1] /\ t[k] = s[k - 1] /\ j - 1 \in 1..(n - 1) /\ k - 1 \in 1..(n - 1) /\ j - 1 < k - 1
        BY <2>1, <2>3, <1>3, <1>6
      <3>2. QED
        BY <3>1, <1>2
    <2>4. QED
      BY <2>1, <2>2, <2>3
  <1>7. DOMAIN t = 1..n
    OBVIOUS
  <1> HIDE DEF t
  <1>8. Ordered(t, S)
    BY <1>4, <1>5, <1>6, <1>7 DEF Ordered, n
  <1>9. QED
    BY <1>8

LEMMA InOrderIs ==
  ASSUME NEW S \in SUBSET Nat, IsFiniteSet(S)
  PROVE  Ordered(InOrder(S), S)
  <1> DEFINE Unordered == {n \in Nat : \E U \in SUBSET Nat : IsFiniteSet(U) /\ Cardinality(U) = n /\ ~\E s : Ordered(s, U)}
  <1>1. Unordered = {}
    <2> SUFFICES ASSUME Unordered # {} PROVE FALSE
      OBVIOUS
    <2>1. PICK n \in Unordered : \A k \in Unordered : n <= k
      <3>1. Unordered \in SUBSET Nat
        OBVIOUS
      <3> HIDE DEF Unordered
      <3>2. QED
        BY <3>1, LeastNumber
    <2>2. n \in Nat
      BY <2>1
    <2>3. PICK U \in SUBSET Nat : IsFiniteSet(U) /\ Cardinality(U) = n /\ ~\E s : Ordered(s, U)
      BY <2>1
    <2>4. CASE U = {}
      <3>1. Cardinality(U) = 0
        BY <2>4, FS_EmptySet
      <3>2. Ordered([k \in 1..0 |-> 0], U)
        BY <2>4, <3>1 DEF Ordered
      <3>3. QED
        BY <3>2, <2>3
    <2>5. CASE U # {}
      <3>1. PICK m \in U : \A y \in U : m <= y
        BY <2>5, LeastNumber
      <3>2. IsFiniteSet(U \ {m}) /\ Cardinality(U \ {m}) = n - 1 /\ n # 0
        BY <2>3, FS_RemoveElement, FS_EmptySet, FS_CardinalityType
      <3>3. n - 1 \in Nat /\ n - 1 \notin Unordered
        <4> HIDE DEF Unordered
        <4>1. n - 1 \in Nat /\ n - 1 < n
          BY <2>2, <3>2
        <4>2. QED
          BY <4>1, <2>1, <2>2
      <3>4. \E s : Ordered(s, U \ {m})
        BY <3>2, <3>3
      <3>5. QED
        BY <2>3, <3>1, <3>4, LeastFirst
    <2>6. QED
      BY <2>4, <2>5
  <1>2. \E s : Ordered(s, S)
    BY <1>1, FS_CardinalityType
  <1>3. \E s \in [1..Cardinality(S) -> S] :
          /\ \A x \in S : \E k \in DOMAIN s : s[k] = x
          /\ \A j, k \in DOMAIN s : j < k => s[j] < s[k]
    BY <1>2 DEF Ordered
  <1>4. QED
    BY <1>3, Zenon DEF Ordered, InOrder

(* In ascending order, nothing comes twice.                                *)
LEMMA InOrderOnce ==
  ASSUME NEW S \in SUBSET Nat, IsFiniteSet(S)
  PROVE  /\ InOrder(S) \in Seq(S) /\ Len(InOrder(S)) = Cardinality(S) /\ Cardinality(S) \in Nat
         /\ \A x \in S : \E k \in 1..Len(InOrder(S)) : InOrder(S)[k] = x
         /\ \A j, k \in 1..Len(InOrder(S)) : InOrder(S)[j] = InOrder(S)[k] => j = k
  <1> DEFINE s == InOrder(S)
             n == Cardinality(S)
  <1>1. Ordered(s, S) /\ n \in Nat
    BY InOrderIs, FS_CardinalityType
  <1> HIDE DEF s, n
  <1>2. /\ s \in [1..n -> S]
        /\ \A x \in S : \E k \in 1..n : s[k] = x
        /\ \A j, k \in 1..n : j < k => s[j] < s[k]
    BY <1>1 DEF Ordered, n
  <1>3. s \in Seq(S) /\ Len(s) = n
    BY <1>1, <1>2
  <1>4. ASSUME NEW j \in 1..n, NEW k \in 1..n, s[j] = s[k] PROVE j = k
    <2>1. s[j] \in Nat /\ s[k] \in Nat
      BY <1>2
    <2>2. ~(s[j] < s[k]) /\ ~(s[k] < s[j])
      BY <2>1, <1>4
    <2>3. ~(j < k) /\ ~(k < j)
      BY <2>2, <1>2
    <2>4. QED
      BY <2>3, <1>1
  <1>5. QED
    BY <1>1, <1>2, <1>3, <1>4 DEF s, n

Items == {"card", "island"} \X Nat

(* The cards of S, each once, and nothing else.                            *)
ListsCards(s, S) ==
    /\ s \in Seq(Items)
    /\ \A r \in 1..Len(s) : \E x \in S : s[r] = <<"card", x>>
    /\ \A x \in S : \E r \in 1..Len(s) : s[r] = <<"card", x>>
    /\ \A j, k \in 1..Len(s) : s[j] = s[k] => j = k

LEMMA CardItemsIs ==
  ASSUME NEW S \in SUBSET Nat, IsFiniteSet(S)
  PROVE  ListsCards(CardItems(S), S)
  <1> DEFINE o == InOrder(S)
             n == Cardinality(S)
  <1>1. /\ o \in Seq(S) /\ Len(o) = n /\ n \in Nat
        /\ \A x \in S : \E k \in 1..n : o[k] = x
        /\ \A j, k \in 1..n : o[j] = o[k] => j = k
    BY InOrderOnce
  <1>2. CardItems(S) = [k \in 1..n |-> <<"card", o[k]>>]
    BY DEF CardItems
  <1> HIDE DEF o, n
  <1> DEFINE s == [k \in 1..n |-> <<"card", o[k]>>]
  <1>3. \A k \in 1..n : o[k] \in S /\ s[k] = <<"card", o[k]>>
    BY <1>1
  <1>4. s \in Seq(Items) /\ Len(s) = n
    <2>1. \A k \in 1..n : s[k] \in Items
      BY <1>3 DEF Items
    <2>2. QED
      BY <1>1, <2>1
  <1> HIDE DEF s
  <1>5. \A j, k \in 1..n : s[j] = s[k] => j = k
    BY <1>1, <1>3
  <1>6. ListsCards(s, S)
    BY <1>1, <1>3, <1>4, <1>5 DEF ListsCards
  <1>7. QED
    BY <1>2, <1>6 DEF s

(* An island with the cards below it.                                      *)
Block(s, i) ==
    /\ s \in Seq(Items)
    /\ \A r \in 1..Len(s) : \/ \E x \in Members(i) : s[r] = <<"card", x>>
                            \/ r = 1 /\ Shown(i) /\ s[1] = <<"island", i>>
    /\ \A x \in Members(i) : \E r \in 1..Len(s) : s[r] = <<"card", x>>
    /\ \A j, k \in 1..Len(s) : s[j] = s[k] => j = k
    /\ Shown(i) => Len(s) >= 1 /\ s[1] = <<"island", i>>

LEMMA BlockIs ==
  ASSUME NEW i \in Islands
  PROVE  Block(IslandItems(i), i)
  <1> DEFINE c == CardItems(Members(i))
  <1>1. ListsCards(c, Members(i))
    <2>1. Members(i) \in SUBSET Cards
      BY DEF Members
    <2>2. Members(i) \in SUBSET Nat /\ IsFiniteSet(Members(i))
      BY <2>1, ReportsAssumption, FS_Subset
    <2>3. QED
      BY <2>2, CardItemsIs
  <1>2. IslandItems(i) = (IF Shown(i) THEN <<<<"island", i>>>> ELSE <<>>) \o c
    BY DEF IslandItems
  <1> HIDE DEF c
  <1>3. c \in Seq(Items) /\ Len(c) \in Nat
    BY <1>1 DEF ListsCards
  <1>4. CASE ~Shown(i)
    <2>1. IslandItems(i) = c
      BY <1>2, <1>3, <1>4
    <2>2. QED
      BY <1>1, <1>4, <2>1 DEF ListsCards, Block
  <1>5. CASE Shown(i)
    <2> DEFINE s == <<<<"island", i>>>> \o c
    <2>1. <<"island", i>> \in Items
      BY ReportsAssumption DEF Items
    <2>2. s \in Seq(Items) /\ Len(s) = 1 + Len(c)
      BY <1>3, <2>1
    <2>3. s[1] = <<"island", i>> /\ \A r \in 2..Len(s) : r - 1 \in 1..Len(c) /\ s[r] = c[r - 1]
      BY <1>3, <2>1, <2>2
    <2>4. IslandItems(i) = s
      BY <1>2, <1>5
    <2> HIDE DEF s
    <2>5. \A r \in 1..Len(s) : r = 1 \/ r \in 2..Len(s)
      BY <1>3, <2>2
    <2>6. \A r \in 2..Len(s) : \E x \in Members(i) : s[r] = <<"card", x>>
      BY <1>1, <2>3 DEF ListsCards
    <2>7. ASSUME NEW x \in Members(i) PROVE \E r \in 1..Len(s) : s[r] = <<"card", x>>
      <3>1. PICK r \in 1..Len(c) : c[r] = <<"card", x>>
        BY <1>1 DEF ListsCards
      <3>2. r + 1 \in 2..Len(s) /\ r + 1 \in 1..Len(s) /\ (r + 1) - 1 = r
        BY <1>3, <2>2
      <3>3. QED
        BY <3>1, <3>2, <2>3
    <2>8. ASSUME NEW j \in 1..Len(s), NEW k \in 1..Len(s), s[j] = s[k] PROVE j = k
      <3>1. CASE j = 1 /\ k = 1
        BY <3>1
      <3>2. CASE j = 1 /\ k \in 2..Len(s)
        <4>1. PICK x \in Members(i) : s[k] = <<"card", x>>
          BY <3>2, <2>6
        <4>2. <<"island", i>> = <<"card", x>>
          BY <4>1, <3>2, <2>3, <2>8
        <4>3. "island" = "card"
          BY <4>2
        <4>4. QED
          BY <4>3
      <3>3. CASE k = 1 /\ j \in 2..Len(s)
        <4>1. PICK x \in Members(i) : s[j] = <<"card", x>>
          BY <3>3, <2>6
        <4>2. <<"island", i>> = <<"card", x>>
          BY <4>1, <3>3, <2>3, <2>8
        <4>3. "island" = "card"
          BY <4>2
        <4>4. QED
          BY <4>3
      <3>4. CASE j \in 2..Len(s) /\ k \in 2..Len(s)
        <4>1. j - 1 \in 1..Len(c) /\ k - 1 \in 1..Len(c) /\ c[j - 1] = c[k - 1]
          BY <3>4, <2>3, <2>8
        <4>2. j - 1 = k - 1
          BY <4>1, <1>1 DEF ListsCards
        <4>3. QED
          BY <4>2
      <3>5. QED
        BY <3>1, <3>2, <3>3, <3>4, <2>5
    <2>9. Len(s) >= 1
      BY <1>3, <2>2
    <2>10. Block(s, i)
      <3>1. \A r \in 1..Len(s) : \/ \E x \in Members(i) : s[r] = <<"card", x>>
                                 \/ r = 1 /\ Shown(i) /\ s[1] = <<"island", i>>
        BY <2>3, <2>5, <2>6, <1>5
      <3>2. QED
        BY <2>2, <2>3, <2>7, <2>8, <2>9, <3>1 DEF Block
    <2>11. QED
      BY <2>4, <2>10
  <1>6. QED
    BY <1>4, <1>5

(* What Joined builds: list j of q takes the places after f[j - 1].        *)
Rows(g, q, n) == g = [k \in 0..n |-> IF k = 0 THEN <<>> ELSE g[k - 1] \o q[k]]

Laid(t, q, f) ==
    /\ f \in [0..Len(q) -> Nat]
    /\ \A j \in 1..Len(q) : \A r \in 1..Len(q[j]) : f[j - 1] + r \in 1..Len(t) /\ t[f[j - 1] + r] = q[j][r]
    /\ \A k \in 1..Len(t) : \E j \in 1..Len(q) : \E r \in 1..Len(q[j]) : k = f[j - 1] + r

LEMMA JoinedRows ==
  ASSUME NEW S, NEW q \in Seq(Seq(S))
  PROVE  \E g : Rows(g, q, Len(q)) /\ Joined(q) = g[Len(q)]
  <1> DEFINE Unbuilt == {k \in Nat : ~\E g : Rows(g, q, k)}
  <1>1. Unbuilt = {}
    <2> SUFFICES ASSUME Unbuilt # {} PROVE FALSE
      OBVIOUS
    <2>1. PICK k \in Unbuilt : \A i \in Unbuilt : k <= i
      <3>1. Unbuilt \in SUBSET Nat
        OBVIOUS
      <3>2. QED
        BY <3>1, LeastNumber
    <2>2. k \in Nat /\ ~\E g : Rows(g, q, k)
      BY <2>1
    <2>3. CASE k = 0
      <3> DEFINE g == [n \in 0..0 |-> <<>>]
      <3>1. Rows(g, q, 0)
        BY DEF Rows
      <3>2. QED
        BY <3>1, <2>2, <2>3
    <2>4. CASE k # 0
      <3>1. k - 1 \in Nat /\ k - 1 \notin Unbuilt
        <4> HIDE DEF Unbuilt
        <4>1. k - 1 \in Nat /\ k - 1 < k
          BY <2>2, <2>4
        <4>2. QED
          BY <4>1, <2>1, <2>2
      <3>2. PICK g : Rows(g, q, k - 1)
        BY <3>1
      <3> DEFINE h == [n \in 0..k |-> IF n = k THEN g[k - 1] \o q[k] ELSE g[n]]
      <3>3. ASSUME NEW n \in 0..k
            PROVE  h[n] = IF n = 0 THEN <<>> ELSE h[n - 1] \o q[n]
        <4>1. CASE n = k
          <5>1. h[n] = g[k - 1] \o q[k] /\ h[n - 1] = g[k - 1] /\ n # 0
            BY <4>1, <2>2, <2>4
          <5>2. QED
            BY <5>1, <4>1
        <4>2. CASE n # k
          <5>1. n \in 0..(k - 1) /\ h[n] = g[n] /\ (n # 0 => h[n - 1] = g[n - 1])
            BY <4>2, <2>2, <3>3
          <5>2. g[n] = IF n = 0 THEN <<>> ELSE g[n - 1] \o q[n]
            BY <5>1, <3>2 DEF Rows
          <5>3. QED
            BY <5>1, <5>2
        <4>3. QED
          BY <4>1, <4>2
      <3>4. Rows(h, q, k)
        BY <3>3 DEF Rows
      <3>5. QED
        BY <3>4, <2>2
    <2>5. QED
      BY <2>3, <2>4
  <1>2. \E g : Rows(g, q, Len(q))
    <2>1. Len(q) \in Nat
      OBVIOUS
    <2>2. QED
      BY <1>1, <2>1
  <1> DEFINE U == CHOOSE g : Rows(g, q, Len(q))
  <1>3. Rows(U, q, Len(q))
    BY <1>2
  <1>4. Joined(q) = U[Len(q)]
    BY Zenon DEF Joined, Rows
  <1> HIDE DEF U
  <1>5. QED
    BY <1>3, <1>4

LEMMA JoinedIs ==
  ASSUME NEW S, NEW q \in Seq(Seq(S))
  PROVE  Joined(q) \in Seq(S) /\ \E f : Laid(Joined(q), q, f)
  <1> DEFINE N == Len(q)
  <1>0. N \in Nat /\ \A j \in 1..N : q[j] \in Seq(S) /\ Len(q[j]) \in Nat
    OBVIOUS
  <1>1. PICK g : Rows(g, q, N) /\ Joined(q) = g[N]
    BY JoinedRows
  <1> HIDE DEF N
  <1>2. g[0] = <<>> /\ \A n \in 1..N : n - 1 \in 0..N /\ g[n] = g[n - 1] \o q[n]
    <2>1. \A n \in 0..N : g[n] = IF n = 0 THEN <<>> ELSE g[n - 1] \o q[n]
      BY <1>1 DEF Rows
    <2>2. 0 \in 0..N /\ \A n \in 1..N : n \in 0..N /\ n # 0 /\ n - 1 \in 0..N
      BY <1>0
    <2>3. QED
      BY <2>1, <2>2
  <1> DEFINE Upto(n) ==
        /\ g[n] \in Seq(S)
        /\ \A j \in 1..n : \A r \in 1..Len(q[j]) :
              /\ Len(g[j - 1]) \in Nat /\ Len(g[j - 1]) + r \in 1..Len(g[n])
              /\ g[n][Len(g[j - 1]) + r] = q[j][r]
        /\ \A k \in 1..Len(g[n]) : \E j \in 1..n : \E r \in 1..Len(q[j]) : k = Len(g[j - 1]) + r
      Wrong == {n \in 0..N : ~Upto(n)}
  <1>3. Upto(0)
    <2>1. g[0] \in Seq(S) /\ Len(g[0]) = 0
      BY <1>2
    <2>2. QED
      BY <2>1
  <1>4. ASSUME NEW n \in 1..N, Upto(n - 1) PROVE Upto(n)
    <2> DEFINE a == g[n - 1]
               b == q[n]
               t == g[n]
    <2>1. n \in Nat /\ n - 1 \in Nat /\ a \in Seq(S) /\ b \in Seq(S) /\ t = a \o b
      <3>1. n \in Nat /\ n - 1 \in Nat
        BY <1>0
      <3>2. g[n - 1] \in Seq(S)
        BY <1>4
      <3>3. q[n] \in Seq(S) /\ g[n] = g[n - 1] \o q[n]
        BY <1>0, <1>2
      <3>4. QED
        BY <3>1, <3>2, <3>3
    <2>2. t \in Seq(S) /\ Len(t) = Len(a) + Len(b) /\ Len(a) \in Nat /\ Len(b) \in Nat
      BY <2>1
    <2>3. (\A k \in 1..Len(a) : t[k] = a[k]) /\ \A r \in 1..Len(b) : t[Len(a) + r] = b[r]
      <3> HIDE DEF a, b, t
      <3>1. QED
        BY <2>1, <2>2
    <2>4. /\ \A j \in 1..(n - 1) : \A r \in 1..Len(q[j]) :
              /\ Len(g[j - 1]) \in Nat /\ Len(g[j - 1]) + r \in 1..Len(a)
              /\ a[Len(g[j - 1]) + r] = q[j][r]
          /\ \A k \in 1..Len(a) : \E j \in 1..(n - 1) : \E r \in 1..Len(q[j]) : k = Len(g[j - 1]) + r
      BY <1>4
    <2> HIDE DEF a, b, t
    <2>5. ASSUME NEW j \in 1..n, NEW r \in 1..Len(q[j])
          PROVE  /\ Len(g[j - 1]) \in Nat /\ Len(g[j - 1]) + r \in 1..Len(t)
                 /\ t[Len(g[j - 1]) + r] = q[j][r]
      <3>1. CASE j = n
        <4>1. g[j - 1] = a /\ q[j] = b /\ r \in 1..Len(b)
          BY <3>1 DEF a, b
        <4>2. Len(a) + r \in 1..Len(t)
          BY <4>1, <2>2
        <4>3. QED
          BY <4>1, <4>2, <2>2, <2>3
      <3>2. CASE j # n
        <4>1. j \in 1..(n - 1)
          BY <3>2, <2>1
        <4>2. /\ Len(g[j - 1]) \in Nat /\ Len(g[j - 1]) + r \in 1..Len(a)
              /\ a[Len(g[j - 1]) + r] = q[j][r]
          BY <4>1, <2>4
        <4>3. Len(g[j - 1]) + r \in 1..Len(t)
          BY <4>2, <2>2
        <4>4. QED
          BY <4>2, <4>3, <2>3
      <3>3. QED
        BY <3>1, <3>2
    <2>6. ASSUME NEW k \in 1..Len(t)
          PROVE  \E j \in 1..n : \E r \in 1..Len(q[j]) : k = Len(g[j - 1]) + r
      <3>1. CASE k \in 1..Len(a)
        <4>1. PICK j \in 1..(n - 1) : \E r \in 1..Len(q[j]) : k = Len(g[j - 1]) + r
          BY <3>1, <2>4
        <4>2. j \in 1..n
          BY <2>1
        <4>3. QED
          BY <4>1, <4>2
      <3>2. CASE k \notin 1..Len(a)
        <4>1. k - Len(a) \in 1..Len(b) /\ k = Len(a) + (k - Len(a))
          BY <3>2, <2>2
        <4>2. n \in 1..n /\ Len(q[n]) = Len(b) /\ Len(g[n - 1]) = Len(a)
          BY <2>1 DEF a, b
        <4>3. QED
          BY <4>1, <4>2
      <3>3. QED
        BY <3>1, <3>2
    <2>7. QED
      BY <2>2, <2>5, <2>6 DEF t
  <1> HIDE DEF Upto
  <1>5. Wrong = {}
    <2> SUFFICES ASSUME Wrong # {} PROVE FALSE
      OBVIOUS
    <2>1. PICK n \in Wrong : \A k \in Wrong : n <= k
      <3>1. Wrong \in SUBSET Nat
        BY <1>0
      <3>2. QED
        BY <3>1, LeastNumber
    <2>2. n \in 1..N
      BY <1>3, <1>0, <2>1
    <2>3. n - 1 \in 0..N /\ n - 1 < n /\ n - 1 \in Int /\ n \in Int
      BY <2>2, <1>0
    <2>4. n - 1 \notin Wrong
      <3> HIDE DEF Wrong
      <3>1. QED
        BY <2>1, <2>3
    <2>5. Upto(n - 1)
      BY <2>3, <2>4
    <2>6. QED
      BY <2>1, <2>2, <2>5, <1>4
  <1>6. \A n \in 0..N : Upto(n)
    BY <1>5
  <1> DEFINE f == [n \in 0..N |-> Len(g[n])]
  <1>7. g[N] \in Seq(S) /\ \A n \in 0..N : Len(g[n]) \in Nat
    BY <1>0, <1>6 DEF Upto
  <1>8. f \in [0..N -> Nat] /\ \A j \in 1..N : f[j - 1] = Len(g[j - 1])
    BY <1>0, <1>7
  <1>9. Laid(g[N], q, f)
    <2>1. Upto(N)
      BY <1>0, <1>6
    <2> HIDE DEF f
    <2>2. /\ \A j \in 1..N : \A r \in 1..Len(q[j]) : f[j - 1] + r \in 1..Len(g[N]) /\ g[N][f[j - 1] + r] = q[j][r]
          /\ \A k \in 1..Len(g[N]) : \E j \in 1..N : \E r \in 1..Len(q[j]) : k = f[j - 1] + r
      BY <2>1, <1>8 DEF Upto
    <2>3. QED
      BY <2>2, <1>8 DEF Laid, N
  <1>10. QED
    BY <1>1, <1>7, <1>9

Settled == {i \in islands : Members(i) # {}}

(* The outline: the blocks of the islands, then the cards of none.         *)
Outline(list, p, f, a) ==
    /\ list \in Seq(Items) /\ a \in Nat /\ Len(p) \in Nat
    /\ \A j \in 1..Len(p) : p[j] \in Settled
    /\ \A i \in Settled : \E j \in 1..Len(p) : p[j] = i
    /\ \A j, k \in 1..Len(p) : p[j] = p[k] => j = k
    /\ f \in [0..Len(p) -> Nat]
    /\ \A j \in 1..Len(p) : \A r \in 1..Len(IslandItems(p[j])) :
          f[j - 1] + r \in 1..a /\ f[j - 1] + r \in 1..Len(list) /\ list[f[j - 1] + r] = IslandItems(p[j])[r]
    /\ \A k \in 1..a : \E j \in 1..Len(p) : \E r \in 1..Len(IslandItems(p[j])) : k = f[j - 1] + r
    /\ \A r \in 1..Len(CardItems(LoneCards)) :
          a + r \in 1..Len(list) /\ list[a + r] = CardItems(LoneCards)[r]
    /\ \A k \in 1..Len(list) : k \in 1..a \/ \E r \in 1..Len(CardItems(LoneCards)) : k = a + r

LEMMA ReadingIs ==
  ASSUME IslandTypes
  PROVE  \E p, f, a : Outline(ReadingList, p, f, a)
  <1> DEFINE p == Placed
             q == [k \in 1..Len(p) |-> IslandItems(p[k])]
             lone == CardItems(LoneCards)
  <1>1. Settled \in SUBSET Nat /\ IsFiniteSet(Settled) /\ Settled \subseteq Islands
    <2>1. Settled \subseteq islands /\ islands \subseteq Islands
      BY DEF Settled, IslandTypes
    <2>2. QED
      BY <2>1, ReportsAssumption, FS_Subset
  <1>2. /\ p \in Seq(Settled)
        /\ \A i \in Settled : \E j \in 1..Len(p) : p[j] = i
        /\ \A j, k \in 1..Len(p) : p[j] = p[k] => j = k
    BY <1>1, InOrderOnce DEF Placed, Settled
  <1>3. lone \in Seq(Items)
    <2>1. LoneCards \in SUBSET Cards
      BY DEF LoneCards
    <2>2. LoneCards \in SUBSET Nat /\ IsFiniteSet(LoneCards)
      BY <2>1, ReportsAssumption, FS_Subset
    <2>3. QED
      BY <2>2, CardItemsIs DEF ListsCards
  <1>4. ReadingList = Joined(q) \o lone
    BY DEF ReadingList
  <1> HIDE DEF p
  <1>5. Len(p) \in Nat /\ \A j \in 1..Len(p) : p[j] \in Settled /\ IslandItems(p[j]) \in Seq(Items)
    <2>1. Len(p) \in Nat /\ \A j \in 1..Len(p) : p[j] \in Settled
      BY <1>2
    <2>2. QED
      BY <2>1, <1>1, BlockIs DEF Block
  <1>6. q \in Seq(Seq(Items)) /\ Len(q) = Len(p) /\ \A j \in 1..Len(p) : q[j] = IslandItems(p[j])
    BY <1>5
  <1> HIDE DEF q, lone
  <1> DEFINE t == Joined(q)
  <1>7. t \in Seq(Items)
    BY <1>6, JoinedIs
  <1>8. PICK f : Laid(t, q, f)
    BY <1>6, JoinedIs
  <1> DEFINE a == Len(t)
             list == t \o lone
  <1>9. /\ list \in Seq(Items) /\ a \in Nat /\ Len(lone) \in Nat /\ Len(list) = a + Len(lone)
        /\ \A k \in 1..a : k \in 1..Len(list) /\ list[k] = t[k]
        /\ \A r \in 1..Len(lone) : a + r \in 1..Len(list) /\ list[a + r] = lone[r]
    <2> HIDE DEF t
    <2>1. list \in Seq(Items) /\ a \in Nat /\ Len(lone) \in Nat /\ Len(list) = a + Len(lone)
      BY <1>3, <1>7
    <2>2. (\A k \in 1..a : list[k] = t[k]) /\ \A r \in 1..Len(lone) : list[a + r] = lone[r]
      BY <1>3, <1>7
    <2>3. QED
      BY <2>1, <2>2
  <1> HIDE DEF t, a, list
  <1>10. /\ f \in [0..Len(p) -> Nat]
         /\ \A j \in 1..Len(p) : \A r \in 1..Len(q[j]) : f[j - 1] + r \in 1..a /\ t[f[j - 1] + r] = q[j][r]
         /\ \A k \in 1..a : \E j \in 1..Len(p) : \E r \in 1..Len(q[j]) : k = f[j - 1] + r
    BY <1>6, <1>8 DEF Laid, a
  <1>11. \A j \in 1..Len(p) : \A r \in 1..Len(IslandItems(p[j])) :
           f[j - 1] + r \in 1..a /\ f[j - 1] + r \in 1..Len(list) /\ list[f[j - 1] + r] = IslandItems(p[j])[r]
    <2> TAKE j \in 1..Len(p)
    <2>1. q[j] = IslandItems(p[j])
      BY <1>6
    <2> TAKE r \in 1..Len(IslandItems(p[j]))
    <2>2. f[j - 1] + r \in 1..a /\ t[f[j - 1] + r] = q[j][r]
      BY <2>1, <1>10
    <2>3. QED
      BY <2>1, <2>2, <1>9
  <1>12. \A k \in 1..a : \E j \in 1..Len(p) : \E r \in 1..Len(IslandItems(p[j])) : k = f[j - 1] + r
    <2> TAKE k \in 1..a
    <2>1. PICK j \in 1..Len(p) : \E r \in 1..Len(q[j]) : k = f[j - 1] + r
      BY <1>10
    <2>2. QED
      BY <2>1, <1>6
  <1>13. \A k \in 1..Len(list) : k \in 1..a \/ \E r \in 1..Len(lone) : k = a + r
    <2> TAKE k \in 1..Len(list)
    <2>1. CASE k <= a
      BY <2>1, <1>9
    <2>2. CASE ~(k <= a)
      <3>1. k - a \in 1..Len(lone) /\ k = a + (k - a)
        BY <2>2, <1>9
      <3>2. QED
        BY <3>1
    <2>3. QED
      BY <2>1, <2>2
  <1>14. Outline(list, p, f, a)
    BY <1>2, <1>5, <1>9, <1>10, <1>11, <1>12, <1>13 DEF Outline, lone
  <1>15. QED
    BY <1>4, <1>14 DEF t, list

(* What stands at a place of the outline.                                  *)
LEMMA AtPlace ==
  ASSUME IslandTypes, NEW list, NEW p, NEW f, NEW a, Outline(list, p, f, a), NEW k \in 1..Len(list)
  PROVE  \/ \E j \in 1..Len(p) : \E r \in 1..Len(IslandItems(p[j])) :
               k = f[j - 1] + r /\ list[k] = IslandItems(p[j])[r]
         \/ \E r \in 1..Len(CardItems(LoneCards)) :
               k = a + r /\ list[k] = CardItems(LoneCards)[r]
  <1>1. CASE k \in 1..a
    <2>1. PICK j \in 1..Len(p) : \E r \in 1..Len(IslandItems(p[j])) : k = f[j - 1] + r
      BY <1>1 DEF Outline
    <2>2. PICK r \in 1..Len(IslandItems(p[j])) : k = f[j - 1] + r
      BY <2>1
    <2>3. list[f[j - 1] + r] = IslandItems(p[j])[r]
      BY DEF Outline
    <2>4. QED
      BY <2>2, <2>3
  <1>2. CASE k \notin 1..a
    <2>1. PICK r \in 1..Len(CardItems(LoneCards)) : k = a + r
      BY <1>2 DEF Outline
    <2>2. list[a + r] = CardItems(LoneCards)[r]
      BY DEF Outline
    <2>3. QED
      BY <2>1, <2>2
  <1>3. QED
    BY <1>1, <1>2

LEMMA SettledBlocks ==
  ASSUME IslandTypes, NEW list, NEW p, NEW f, NEW a, Outline(list, p, f, a), NEW j \in 1..Len(p)
  PROVE  p[j] \in Settled /\ p[j] \in islands /\ Block(IslandItems(p[j]), p[j])
  <1>1. p[j] \in Settled
    BY DEF Outline
  <1>2. p[j] \in islands /\ p[j] \in Islands
    BY <1>1 DEF Settled, IslandTypes
  <1>3. QED
    BY <1>1, <1>2, BlockIs

LEMMA LoneItems == ListsCards(CardItems(LoneCards), LoneCards)
  <1>1. LoneCards \in SUBSET Cards
    BY DEF LoneCards
  <1>2. LoneCards \in SUBSET Nat /\ IsFiniteSet(LoneCards)
    BY <1>1, ReportsAssumption, FS_Subset
  <1>3. QED
    BY <1>2, CardItemsIs

(* A heading is that of an island that is shown.                           *)
LEMMA HeadingsShown ==
  ASSUME IslandTypes, NEW list, NEW p, NEW f, NEW a, Outline(list, p, f, a),
         NEW k \in 1..Len(list), list[k][1] = "island"
  PROVE  \E i \in Settled : Shown(i)
  <1>1. CASE \E j \in 1..Len(p) : \E r \in 1..Len(IslandItems(p[j])) :
               k = f[j - 1] + r /\ list[k] = IslandItems(p[j])[r]
    <2>1. PICK j \in 1..Len(p) : \E r \in 1..Len(IslandItems(p[j])) : list[k] = IslandItems(p[j])[r]
      BY <1>1
    <2>2. PICK r \in 1..Len(IslandItems(p[j])) : list[k] = IslandItems(p[j])[r]
      BY <2>1
    <2>3. p[j] \in Settled /\ Block(IslandItems(p[j]), p[j])
      BY SettledBlocks
    <2>4. (\E x \in Members(p[j]) : list[k] = <<"card", x>>) \/ Shown(p[j])
      BY <2>2, <2>3 DEF Block
    <2>5. QED
      BY <2>3, <2>4
  <1>2. CASE \E r \in 1..Len(CardItems(LoneCards)) :
               k = a + r /\ list[k] = CardItems(LoneCards)[r]
    <2>1. \E x \in LoneCards : list[k] = <<"card", x>>
      BY <1>2, LoneItems DEF ListsCards
    <2>2. QED
      BY <2>1
  <1>3. QED
    BY <1>1, <1>2, AtPlace

PlacesOf(list, c) == {k \in DOMAIN list : list[k] = <<"card", c>>}

(* A card of no island has one place.                                      *)
LEMMA LonePlace ==
  ASSUME IslandTypes, NEW list, NEW p, NEW f, NEW a, Outline(list, p, f, a),
         NEW c \in Cards, member[c] = Nothing
  PROVE  \E b \in DOMAIN list : PlacesOf(list, c) = {b}
  <1> DEFINE lone == CardItems(LoneCards)
  <1>1. DOMAIN list = 1..Len(list)
    BY DEF Outline
  <1>2. PICK r \in 1..Len(lone) : lone[r] = <<"card", c>>
    BY LoneItems DEF ListsCards, LoneCards
  <1>3. a + r \in 1..Len(list) /\ list[a + r] = <<"card", c>>
    BY <1>2 DEF Outline
  <1>4. ASSUME NEW k \in 1..Len(list), list[k] = <<"card", c>> PROVE k = a + r
    <2>1. CASE \E j \in 1..Len(p) : \E s \in 1..Len(IslandItems(p[j])) :
                 k = f[j - 1] + s /\ list[k] = IslandItems(p[j])[s]
      <3>1. PICK j \in 1..Len(p) : \E s \in 1..Len(IslandItems(p[j])) : list[k] = IslandItems(p[j])[s]
        BY <2>1
      <3>2. PICK s \in 1..Len(IslandItems(p[j])) : list[k] = IslandItems(p[j])[s]
        BY <3>1
      <3>3. p[j] \in islands /\ Block(IslandItems(p[j]), p[j])
        BY SettledBlocks
      <3>4. (\E x \in Members(p[j]) : list[k] = <<"card", x>>) \/ list[k] = <<"island", p[j]>>
        BY <3>2, <3>3 DEF Block
      <3>5. c \in Members(p[j])
        BY <3>4, <1>4
      <3>6. p[j] = Nothing /\ p[j] \in Islands
        BY <3>3, <3>5 DEF Members, IslandTypes
      <3>7. QED
        BY <3>6, ReportsAssumption
    <2>2. CASE \E s \in 1..Len(lone) : k = a + s /\ list[k] = lone[s]
      <3>1. PICK s \in 1..Len(lone) : k = a + s /\ list[k] = lone[s]
        BY <2>2
      <3>2. s = r
        BY <3>1, <1>2, <1>4, LoneItems DEF ListsCards
      <3>3. QED
        BY <3>1, <3>2
    <2>3. QED
      BY <2>1, <2>2, AtPlace
  <1>5. PlacesOf(list, c) = {a + r}
    BY <1>1, <1>3, <1>4 DEF PlacesOf
  <1>6. QED
    BY <1>1, <1>3, <1>5

(* A card of an island has one place, below the heading if it is shown.    *)
LEMMA IslandPlace ==
  ASSUME IslandTypes, NEW list, NEW p, NEW f, NEW a, Outline(list, p, f, a),
         NEW c \in Cards, member[c] # Nothing
  PROVE  \E b \in DOMAIN list :
            /\ PlacesOf(list, c) = {b}
            /\ Shown(member[c]) =>
                 \E d \in 1..b : /\ d \in 1..Len(list) /\ list[d] = <<"island", member[c]>>
                                 /\ \A k \in 1..b : k > d => list[k][1] = "card"
  <1> DEFINE m == member[c]
  <1>1. DOMAIN list = 1..Len(list) /\ Len(list) \in Nat
    BY DEF Outline
  <1>2. m \in Settled /\ c \in Members(m)
    BY DEF IslandTypes, Settled, Members
  <1>3. PICK j \in 1..Len(p) : p[j] = m
    BY <1>2 DEF Outline
  <1> DEFINE u == IslandItems(m)
  <1>4. Block(u, m)
    BY <1>3, SettledBlocks
  <1>5. PICK r \in 1..Len(u) : u[r] = <<"card", c>>
    BY <1>2, <1>4 DEF Block
  <1>6. PICK e \in Nat : e = f[j - 1]
    <2>1. j - 1 \in 0..Len(p)
      BY DEF Outline
    <2>2. QED
      BY <2>1 DEF Outline
  <1>7. Len(u) \in Nat /\ \A s \in 1..Len(u) : e + s \in 1..Len(list) /\ list[e + s] = u[s]
    <2>1. \A s \in 1..Len(IslandItems(p[j])) : f[j - 1] + s \in 1..Len(list) /\ list[f[j - 1] + s] = IslandItems(p[j])[s]
      BY DEF Outline
    <2>2. IslandItems(p[j]) = u
      BY <1>3
    <2>3. Len(u) \in Nat
      BY <1>4 DEF Block
    <2> HIDE DEF u
    <2>4. QED
      BY <2>1, <2>2, <2>3, <1>6
  <1> HIDE DEF u
  <1> DEFINE b == e + r
  <1>8. b \in 1..Len(list) /\ list[b] = <<"card", c>>
    BY <1>5, <1>7
  <1>9. ASSUME NEW k \in 1..Len(list), list[k] = <<"card", c>> PROVE k = e + r
    <2>1. CASE \E i \in 1..Len(p) : \E s \in 1..Len(IslandItems(p[i])) :
                 k = f[i - 1] + s /\ list[k] = IslandItems(p[i])[s]
      <3>1. PICK i \in 1..Len(p) : \E s \in 1..Len(IslandItems(p[i])) :
                                      k = f[i - 1] + s /\ list[k] = IslandItems(p[i])[s]
        BY <2>1
      <3>2. PICK s \in 1..Len(IslandItems(p[i])) : k = f[i - 1] + s /\ list[k] = IslandItems(p[i])[s]
        BY <3>1
      <3>3. Block(IslandItems(p[i]), p[i])
        BY SettledBlocks
      <3>4. (\E x \in Members(p[i]) : list[k] = <<"card", x>>) \/ list[k] = <<"island", p[i]>>
        BY <3>2, <3>3 DEF Block
      <3>5. c \in Members(p[i])
        BY <3>4, <1>9
      <3>6. p[i] = m
        BY <3>5 DEF Members
      <3>7. i = j
        BY <3>6, <1>3 DEF Outline
      <3>8. s \in 1..Len(u) /\ u[s] = u[r]
        BY <3>2, <3>6, <1>5, <1>9 DEF u
      <3>9. s = r
        BY <3>8, <1>4, <1>5 DEF Block
      <3>10. QED
        BY <3>2, <3>7, <3>9, <1>6
    <2>2. CASE \E s \in 1..Len(CardItems(LoneCards)) :
                 k = a + s /\ list[k] = CardItems(LoneCards)[s]
      <3>1. PICK x \in LoneCards : list[k] = <<"card", x>>
        BY <2>2, LoneItems DEF ListsCards
      <3>2. x = c
        BY <3>1, <1>9
      <3>3. QED
        BY <3>1, <3>2 DEF LoneCards
    <2>3. QED
      BY <2>1, <2>2, AtPlace
  <1>10. PlacesOf(list, c) = {b}
    BY <1>1, <1>8, <1>9 DEF PlacesOf
  <1>11. ASSUME Shown(m)
         PROVE  \E d \in 1..b : /\ d \in 1..Len(list) /\ list[d] = <<"island", m>>
                                /\ \A k \in 1..b : k > d => list[k][1] = "card"
    <2> DEFINE d == e + 1
    <2>1. 1 \in 1..Len(u) /\ u[1] = <<"island", m>>
      BY <1>4, <1>5, <1>7, <1>11 DEF Block
    <2>2. d \in 1..Len(list) /\ list[d] = <<"island", m>> /\ d \in 1..b
      BY <2>1, <1>5, <1>7
    <2>3. ASSUME NEW k \in 1..b, k > d PROVE list[k][1] = "card"
      <3>1. k - e \in 1..Len(u) /\ k - e # 1 /\ k = e + (k - e)
        BY <2>3, <1>5, <1>7
      <3>2. list[k] = u[k - e]
        BY <3>1, <1>7
      <3>3. \E x \in Members(m) : u[k - e] = <<"card", x>>
        BY <3>1, <1>4 DEF Block
      <3>4. QED
        BY <3>2, <3>3
    <2>4. QED
      BY <2>2, <2>3
  <1>12. QED
    BY <1>1, <1>8, <1>10, <1>11

LEMMA HeadingTold ==
  ASSUME IslandTypes, NEW list, NEW p, NEW f, NEW a, Outline(list, p, f, a), NEW c \in Cards,
         Heading(list, c) # member[c]
  PROVE  \/ member[c] # Nothing /\ ~Shown(member[c])
         \/ member[c] = Nothing /\ \E i \in islands : Members(i) # {} /\ Shown(i)
  <1>0. DOMAIN list = 1..Len(list) /\ Len(list) \in Nat
    BY DEF Outline
  <1>1. PICK b \in DOMAIN list :
            /\ PlacesOf(list, c) = {b}
            /\ member[c] # Nothing /\ Shown(member[c]) =>
                 \E d \in 1..b : /\ d \in 1..Len(list) /\ list[d] = <<"island", member[c]>>
                                 /\ \A k \in 1..b : k > d => list[k][1] = "card"
    BY LonePlace, IslandPlace
  <1> DEFINE above == {k \in 1..b : list[k][1] = "island"}
  <1>2. Heading(list, c) = IF above = {} THEN Nothing ELSE list[Max(above)][2]
    <2>1. (CHOOSE k \in 1..Len(list) : list[k] = <<"card", c>>) = b
      <3>1. \A k \in 1..Len(list) : list[k] = <<"card", c>> <=> k = b
        BY <1>0, <1>1 DEF PlacesOf
      <3>2. b \in 1..Len(list)
        BY <1>0
      <3>3. QED
        BY <3>1, <3>2
    <2> DEFINE at == CHOOSE k \in 1..Len(list) : list[k] = <<"card", c>>
    <2>2. Heading(list, c) = IF {k \in 1..at : list[k][1] = "island"} = {} THEN Nothing
                             ELSE list[Max({k \in 1..at : list[k][1] = "island"})][2]
      BY DEF Heading
    <2>3. at = b
      BY <2>1
    <2> HIDE DEF at
    <2>4. QED
      BY <2>2, <2>3
  <1>3. CASE member[c] = Nothing
    <2>1. above # {}
      BY <1>2, <1>3
    <2>2. PICK k \in 1..b : list[k][1] = "island"
      BY <2>1
    <2>3. k \in 1..Len(list)
      BY <1>0
    <2>4. \E i \in Settled : Shown(i)
      BY <2>2, <2>3, HeadingsShown
    <2>5. QED
      BY <1>3, <2>4 DEF Settled
  <1>4. CASE member[c] # Nothing /\ Shown(member[c])
    <2>1. PICK d \in 1..b : /\ d \in 1..Len(list) /\ list[d] = <<"island", member[c]>>
                            /\ \A k \in 1..b : k > d => list[k][1] = "card"
      BY <1>1, <1>4
    <2>2. d \in above /\ \A k \in above : d >= k
      <3>1. d \in above
        BY <2>1
      <3>2. ASSUME NEW k \in above PROVE d >= k
        <4>1. k \in 1..b /\ list[k][1] = "island"
          OBVIOUS
        <4>2. ~(k > d)
          BY <4>1, <2>1
        <4>3. QED
          BY <4>1, <4>2
      <3>3. QED
        BY <3>1, <3>2
    <2>3. above \subseteq Int
      OBVIOUS
    <2> HIDE DEF above
    <2>4. Max(above) = d
      <3>1. \A x \in above : (\A y \in above : x >= y) => x = d
        BY <2>2, <2>3
      <3>2. QED
        BY <2>2, <3>1 DEF Max
    <2>5. Heading(list, c) = member[c]
      BY <1>2, <2>1, <2>2, <2>4
    <2>6. QED
      BY <2>5
  <1>5. QED
    BY <1>3, <1>4

LEMMA OutlineTold == IslandTypes => OutlineTruthful
  <1> SUFFICES ASSUME IslandTypes PROVE OutlineTruthful
    OBVIOUS
  <1>1. PICK p, f, a : Outline(ReadingList, p, f, a)
    BY ReadingIs
  <1>2. ASSUME NEW c \in Cards
        PROVE  Cardinality({k \in DOMAIN ReadingList : ReadingList[k] = <<"card", c>>}) = 1
    <2>1. \E b \in DOMAIN ReadingList : PlacesOf(ReadingList, c) = {b}
      BY <1>1, LonePlace, IslandPlace
    <2>2. Cardinality(PlacesOf(ReadingList, c)) = 1
      BY <2>1, FS_Singleton
    <2>3. QED
      BY <2>2 DEF PlacesOf
  <1>3. ASSUME NEW c \in Cards, Heading(ReadingList, c) # member[c]
        PROVE  \/ member[c] # Nothing /\ ~Shown(member[c])
               \/ member[c] = Nothing /\ \E i \in islands : Members(i) # {} /\ Shown(i)
    BY <1>1, <1>3, HeadingTold
  <1>4. ASSUME NEW i \in islands \ ReviewTargets, ~Reviewed(i) PROVE summary[i] = "unset"
    BY <1>4 DEF ReviewTargets, Reviewed, IslandTypes, Summaries
  <1>5. QED
    BY <1>2, <1>3, <1>4, Zenon DEF OutlineTruthful

(* The outline lists every card once, under its island if that has a       *)
(* heading, and what is not offered for review has text (buildReadingList).*)
THEOREM OutlineHolds == ReportsSpec => []OutlineTruthful
  <1>1. ReportsInv => OutlineTruthful
    BY OutlineTold DEF ReportsInv
  <1>2. QED
    BY <1>1, ReportsInvHolds, PTL

(* Everything the workspace reports about its islands.                     *)
THEOREM ReportsHold == ReportsSpec => []ReportsInvariant
  BY ReportsTyped, RelationsHold, OutlineHolds, ReportsStayCurrent, PTL DEF ReportsInvariant
=============================================================================
