---------------------------- MODULE RecordsProofs ----------------------------
(***************************************************************************)
(* Proofs about the inquiry records for any number of clients, journeys    *)
(* and writes.  InquiryBundles: the accepted payloads of a journey form    *)
(* one chain.  InquiryPanel: the panel only ever sends what InquiryBundles *)
(* expects, and without detours it never overwrites what it has not seen.  *)
(* AuditDispatcher, as MCRecords runs it beside them: events of threads    *)
(* that do not overlap are sent once, suppressed ones never.               *)
(* AgentExchange, likewise: what the review list says was decided, what is *)
(* open stays listed, what is worked in was decided and is answered for.   *)
(* InquiryJourney, as MCInquiryPanel runs it: the bundle on screen can be  *)
(* written and read again and tells where its cards come from.             *)
(***************************************************************************)
EXTENDS MCInquiryPanel, MCRecords, Sequences, FiniteSetTheorems, WellFoundedInduction, TLAPS

-----------------------------------------------------------------------------
(* InquiryBundles.                                                         *)


(* A request under way names a journey, and carries a payload when it      *)
(* writes.                                                                 *)
RequestOK ==
    \A c \in Clients : req[c].pc # "idle" =>
        /\ req[c].journey \in Journeys
        /\ req[c].kind \in {"create", "update"} => req[c].write # 0

(* No accepted payload is newer than the row it belongs to. *)
LogBounded ==
    \A e \in log :
        /\ e.life <= life[e.journey]
        /\ (e.life = life[e.journey] /\ rows[e.journey] # NoRow) =>
              e.revision <= rows[e.journey].revision

(* The inductive invariant: one winner per revision is preserved only      *)
(* because nothing in the log exceeds the row, and the ETag of a GET is    *)
(* right only because the row is in the log.                               *)
IInv ==
    /\ TypeOK
    /\ RequestOK
    /\ LogBounded
    /\ OneWinnerPerRevision
    /\ DeletionsAudited
    /\ ETagNamesWrite

LEMMA InitIInv == Init => IInv
<1> SUFFICES ASSUME Init PROVE IInv
  OBVIOUS
<1>1. TypeOK
  BY DEF Init, TypeOK, Idle, Request, Kinds, NoRow
<1>2. RequestOK
  BY DEF Init, RequestOK, Idle
<1>3. LogBounded /\ OneWinnerPerRevision /\ DeletionsAudited
  BY DEF Init, LogBounded, OneWinnerPerRevision, DeletionsAudited
<1>4. ETagNamesWrite
  BY DEF Init, ETagNamesWrite, Idle
<1> QED
  BY <1>1, <1>2, <1>3, <1>4 DEF IInv

(* Sending and finishing touch nothing but the client's own request. *)
LEMMA SendKeepsIInv ==
  ASSUME IInv, NEW c \in Clients, NEW kind \in Kinds, NEW j \in Journeys, NEW n \in Nat,
         Send(c, kind, j, n)
  PROVE  IInv'
<1> USE DEF IInv
<1>1. /\ req' = [req EXCEPT ![c] =
                  [pc |-> "sent", kind |-> kind, journey |-> j, expected |-> n,
                   write |-> (IF kind \in {"create", "update"} THEN writes + 1 ELSE 0),
                   status |-> 0, etag |-> 0]]
      /\ writes' \in Nat
      /\ UNCHANGED <<rows, audit, life, log>>
  BY DEF Send, Idle, TypeOK
<1>2. TypeOK'
  BY <1>1 DEF TypeOK, Request
<1>3. RequestOK'
  BY <1>1 DEF TypeOK, RequestOK
<1>4. LogBounded' /\ OneWinnerPerRevision' /\ DeletionsAudited'
  BY <1>1 DEF LogBounded, OneWinnerPerRevision, DeletionsAudited
<1>5. ETagNamesWrite'
  BY <1>1 DEF TypeOK, ETagNamesWrite
<1> QED
  BY <1>2, <1>3, <1>4, <1>5

LEMMA FinishKeepsIInv ==
  ASSUME IInv, NEW c \in Clients, Finish(c)
  PROVE  IInv'
<1> USE DEF IInv
<1>1. TypeOK'
  BY DEF Finish, TypeOK, Idle, Request, Kinds
<1>2. RequestOK'
  BY DEF Finish, TypeOK, RequestOK, Idle
<1>3. LogBounded' /\ OneWinnerPerRevision' /\ DeletionsAudited'
  BY DEF Finish, LogBounded, OneWinnerPerRevision, DeletionsAudited
<1>4. ETagNamesWrite'
  BY DEF Finish, TypeOK, ETagNamesWrite, Idle
<1> QED
  BY <1>1, <1>2, <1>3, <1>4

(* What a request may become when it is only read for or refused. *)
LEMMA AnswerKeepsIInv ==
  ASSUME IInv, NEW c \in Clients, req[c].pc # "idle",
         NEW r \in Request, req' = [req EXCEPT ![c] = r],
         r.journey = req[c].journey, r.kind = req[c].kind,
         r.write = req[c].write \/ (r.write # 0 /\ r.kind = "get"),
         r.etag # 0 => \E e \in log : e.journey = r.journey /\ e.revision = r.etag /\ e.write = r.write,
         UNCHANGED <<rows, audit, writes, life, log>>
  PROVE  IInv'
<1> USE DEF IInv
<1>1. TypeOK'
  BY DEF TypeOK
<1>2. RequestOK'
  BY DEF TypeOK, RequestOK
<1>3. LogBounded' /\ OneWinnerPerRevision' /\ DeletionsAudited'
  BY DEF LogBounded, OneWinnerPerRevision, DeletionsAudited
<1>4. ETagNamesWrite'
  BY DEF TypeOK, ETagNamesWrite
<1> QED
  BY <1>1, <1>2, <1>3, <1>4

LEMMA ReadKeepsIInv ==
  ASSUME IInv, NEW c \in Clients, Read(c)
  PROVE  IInv'
<1> DEFINE r == req[c]
           row == rows[r.journey]
           same == [r EXCEPT !.pc = "checked"]
           answer(s) == Response(r, s, 0, r.write)
           found == Response(r, 200, row.revision, row.write)
<1>1. r \in Request /\ r.pc # "idle" /\ r.journey \in Journeys /\ row \in Row \cup {NoRow}
  BY DEF IInv, TypeOK, RequestOK, Read
<1>2. UNCHANGED <<rows, audit, writes, life, log>>
  BY DEF Read
<1>3. CASE \E s \in {403, 404, 409} : req' = [req EXCEPT ![c] = answer(s)]
  <2>1. PICK s \in {403, 404, 409} : req' = [req EXCEPT ![c] = answer(s)]
    BY <1>3
  <2>2. /\ answer(s) \in Request
        /\ answer(s).journey = r.journey /\ answer(s).kind = r.kind
        /\ answer(s).write = r.write /\ answer(s).etag = 0
    BY <1>1 DEF Request, Response
  <2> HIDE DEF answer
  <2> QED
    BY <1>1, <1>2, <2>1, <2>2, AnswerKeepsIInv
<1>4. CASE req' = [req EXCEPT ![c] = found] /\ r.kind = "get" /\ row # NoRow
  <2>1. row \in Row
    BY <1>1, <1>4
  <2>2. row.revision \in Nat /\ row.write \in Nat
    BY <2>1 DEF Row
  <2>3. /\ found \in Request
        /\ found.journey = r.journey /\ found.kind = "get"
        /\ found.write = row.write /\ found.etag = row.revision
    BY <1>1, <1>4, <2>2 DEF Request, Response
  <2>4. \E e \in log : e.journey = r.journey /\ e.revision = row.revision /\ e.write = row.write
    BY <1>1, <1>4 DEF IInv, OneWinnerPerRevision
  <2>5. row.write # 0
    BY <2>1 DEF Row
  <2> HIDE DEF found
  <2> QED
    BY <1>1, <1>2, <1>4, <2>3, <2>4, <2>5, AnswerKeepsIInv
<1>5. CASE req' = [req EXCEPT ![c] = same]
  <2>1. same \in Request
    BY <1>1 DEF Request
  <2>2. /\ same.journey = r.journey /\ same.kind = r.kind
        /\ same.write = r.write /\ same.etag = r.etag
    BY <1>1 DEF Request
  <2>3. r.etag # 0 =>
          \E e \in log : e.journey = r.journey /\ e.revision = r.etag /\ e.write = r.write
    BY DEF IInv, ETagNamesWrite
  <2> HIDE DEF same
  <2> QED
    BY <1>1, <1>2, <1>5, <2>1, <2>2, <2>3, AnswerKeepsIInv
<1>6. \/ \E s \in {403, 404, 409} : req' = [req EXCEPT ![c] = answer(s)]
      \/ req' = [req EXCEPT ![c] = found] /\ r.kind = "get" /\ row # NoRow
      \/ req' = [req EXCEPT ![c] = same]
  <2> HIDE DEF row
  <2> QED
    BY DEF Read, Answered, Response, row
<1> QED
  BY <1>3, <1>4, <1>5, <1>6

(* An accepted creation starts a new chain. *)
LEMMA InsertKeepsIInv ==
  ASSUME IInv, NEW c \in Clients, Insert(c)
  PROVE  IInv'
<1> DEFINE r == req[c]
           j == r.journey
           created == [journey |-> j, life |-> life[j] + 1, revision |-> 1,
                       write |-> r.write, over |-> 0]
           row == [revision |-> 1, write |-> r.write, createdBy |-> Owner[c]]
<1>1. r \in Request /\ r.pc # "idle" /\ j \in Journeys /\ r.write \in Nat \ {0}
  BY DEF IInv, TypeOK, RequestOK, Insert, Request
<1>2. CASE rows[j] # NoRow
  <2>1. req' = [req EXCEPT ![c] = Response(r, 500, 0, r.write)]
    BY <1>2 DEF Insert, Answered
  <2>2. UNCHANGED <<rows, audit, writes, life, log>>
    BY <1>2 DEF Insert
  <2>3. /\ Response(r, 500, 0, r.write) \in Request
        /\ Response(r, 500, 0, r.write).journey = r.journey
        /\ Response(r, 500, 0, r.write).kind = r.kind
        /\ Response(r, 500, 0, r.write).write = r.write
        /\ Response(r, 500, 0, r.write).etag = 0
    BY <1>1 DEF Request, Response
  <2> QED
    BY <1>1, <2>1, <2>2, <2>3, AnswerKeepsIInv
<1>3. CASE rows[j] = NoRow
  <2>1. /\ rows' = [rows EXCEPT ![j] = row]
        /\ life' = [life EXCEPT ![j] = life[j] + 1]
        /\ log' = log \cup {created}
        /\ req' = [req EXCEPT ![c] = Response(r, 201, 1, r.write)]
        /\ UNCHANGED <<audit, writes>>
    BY <1>3 DEF Insert, Accept, Answered
  <2>2. /\ Response(r, 201, 1, r.write) \in Request
        /\ Response(r, 201, 1, r.write).journey = r.journey
        /\ Response(r, 201, 1, r.write).kind = r.kind
        /\ Response(r, 201, 1, r.write).write = r.write
        /\ Response(r, 201, 1, r.write).etag = 1
    BY <1>1 DEF Request, Response
  <2>3. row \in Row /\ row # NoRow /\ row.revision = 1 /\ row.write = r.write
    BY <1>1 DEF Row, NoRow
  <2>4. /\ created \in Entry /\ created.journey = j /\ created.life = life[j] + 1
        /\ created.revision = 1 /\ created.write = r.write
    BY <1>1 DEF Entry, IInv, TypeOK
  <2> HIDE DEF row, created
  <2>5. TypeOK'
    BY <1>1, <2>1, <2>2, <2>3, <2>4 DEF IInv, TypeOK
  <2>6. RequestOK'
    BY <1>1, <2>1, <2>2 DEF IInv, TypeOK, RequestOK
  <2>7. \A e \in log : e \in Entry /\ e.journey \in Journeys /\ e.life \in Nat /\ e.revision \in Nat
                      /\ e.life <= life[e.journey]
    BY DEF IInv, TypeOK, LogBounded, Entry
  <2>8. LogBounded'
    BY <1>1, <2>1, <2>3, <2>4, <2>7 DEF IInv, TypeOK, LogBounded
  <2>9. OneWinnerPerRevision'
    <3>1. \A e \in log : e.journey = j => e.life # life[j] + 1
      BY <2>7 DEF IInv, TypeOK
    <3>2. \A e, f \in log' :
            (e.journey = f.journey /\ e.life = f.life /\ e.revision = f.revision) => e = f
      BY <2>1, <2>4, <3>1 DEF IInv, OneWinnerPerRevision
    <3>3. \A e \in log' : e.revision > 1 =>
            \E f \in log' : /\ f.journey = e.journey /\ f.life = e.life
                            /\ f.revision = e.revision - 1 /\ f.write = e.over
      BY <2>1, <2>4 DEF IInv, OneWinnerPerRevision
    <3>4. \A k \in Journeys : rows'[k] # NoRow =>
            \E e \in log' : /\ e.journey = k /\ e.life = life'[k]
                            /\ e.revision = rows'[k].revision /\ e.write = rows'[k].write
      BY <1>1, <2>1, <2>3, <2>4 DEF IInv, TypeOK, OneWinnerPerRevision
    <3> QED
      BY <3>2, <3>3, <3>4 DEF OneWinnerPerRevision
  <2>10. DeletionsAudited'
    BY <1>1, <1>3, <2>1, <2>3 DEF IInv, TypeOK, DeletionsAudited
  <2>11. ETagNamesWrite'
    BY <1>1, <2>1, <2>2, <2>4 DEF IInv, TypeOK, ETagNamesWrite
  <2> QED
    BY <2>5, <2>6, <2>8, <2>9, <2>10, <2>11 DEF IInv
<1> QED
  BY <1>2, <1>3

(* An accepted update extends the current chain at its end. *)
LEMMA UpdateKeepsIInv ==
  ASSUME IInv, NEW c \in Clients, UpdateCas(c)
  PROVE  IInv'
<1> DEFINE r == req[c]
           j == r.journey
           n == r.expected + 1
           accepted == [journey |-> j, life |-> life[j], revision |-> n,
                        write |-> r.write, over |-> rows[j].write]
           row == [revision |-> n, write |-> r.write, createdBy |-> rows[j].createdBy]
<1>1. /\ r \in Request /\ r.pc # "idle" /\ j \in Journeys /\ r.write \in Nat \ {0}
      /\ r.expected \in Nat
  BY DEF IInv, TypeOK, RequestOK, UpdateCas, Request
<1>2. CASE ~Matches(c)
  <2>1. req' = [req EXCEPT ![c] = Response(r, 409, 0, r.write)]
    BY <1>2 DEF UpdateCas, Answered
  <2>2. UNCHANGED <<rows, audit, writes, life, log>>
    BY <1>2 DEF UpdateCas
  <2>3. /\ Response(r, 409, 0, r.write) \in Request
        /\ Response(r, 409, 0, r.write).journey = r.journey
        /\ Response(r, 409, 0, r.write).kind = r.kind
        /\ Response(r, 409, 0, r.write).write = r.write
        /\ Response(r, 409, 0, r.write).etag = 0
    BY <1>1 DEF Request, Response
  <2> QED
    BY <1>1, <2>1, <2>2, <2>3, AnswerKeepsIInv
<1>3. CASE Matches(c)
  <2>1. /\ rows' = [rows EXCEPT ![j] = row]
        /\ log' = log \cup {accepted}
        /\ req' = [req EXCEPT ![c] = Response(r, 204, n, r.write)]
        /\ UNCHANGED <<audit, writes, life>>
    BY <1>3 DEF UpdateCas, Accept, Answered, NewETag
  <2>2. /\ Response(r, 204, n, r.write) \in Request
        /\ Response(r, 204, n, r.write).journey = r.journey
        /\ Response(r, 204, n, r.write).kind = r.kind
        /\ Response(r, 204, n, r.write).write = r.write
        /\ Response(r, 204, n, r.write).etag = n
    BY <1>1 DEF Request, Response
  <2>3. rows[j] # NoRow /\ rows[j] \in Row /\ rows[j].revision = r.expected
    BY <1>1, <1>3 DEF Matches, IInv, TypeOK
  <2>4. row \in Row /\ row # NoRow /\ row.revision = n /\ row.write = r.write
    BY <1>1, <2>3 DEF Row, NoRow
  <2>5. /\ accepted \in Entry /\ accepted.journey = j /\ accepted.life = life[j]
        /\ accepted.revision = n /\ accepted.write = r.write /\ accepted.over = rows[j].write
    BY <1>1, <2>3 DEF Entry, Row, IInv, TypeOK
  <2> HIDE DEF row, accepted
  <2>6. TypeOK'
    BY <1>1, <2>1, <2>2, <2>4, <2>5 DEF IInv, TypeOK
  <2>7. RequestOK'
    BY <1>1, <2>1, <2>2 DEF IInv, TypeOK, RequestOK
  <2>8. \A e \in log : /\ e \in Entry /\ e.journey \in Journeys /\ e.life \in Nat
                      /\ e.revision \in Nat /\ e.life <= life[e.journey]
    BY DEF IInv, TypeOK, LogBounded, Entry
  <2>9. \A e \in log : (e.journey = j /\ e.life = life[j]) => e.revision <= r.expected
    BY <2>3 DEF IInv, LogBounded
  <2>10. LogBounded'
    BY <1>1, <2>1, <2>4, <2>5, <2>8, <2>9 DEF IInv, TypeOK, LogBounded
  <2>11. OneWinnerPerRevision'
    <3>1. \A e, f \in log' :
            (e.journey = f.journey /\ e.life = f.life /\ e.revision = f.revision) => e = f
      BY <1>1, <2>1, <2>5, <2>8, <2>9 DEF IInv, OneWinnerPerRevision
    <3>2. \E f \in log : /\ f.journey = j /\ f.life = life[j]
                        /\ f.revision = n - 1 /\ f.write = rows[j].write
      BY <1>1, <2>3 DEF IInv, OneWinnerPerRevision
    <3>3. \A e \in log' : e.revision > 1 =>
            \E f \in log' : /\ f.journey = e.journey /\ f.life = e.life
                            /\ f.revision = e.revision - 1 /\ f.write = e.over
      BY <2>1, <2>5, <3>2 DEF IInv, OneWinnerPerRevision
    <3>4. \A k \in Journeys : rows'[k] # NoRow =>
            \E e \in log' : /\ e.journey = k /\ e.life = life'[k]
                            /\ e.revision = rows'[k].revision /\ e.write = rows'[k].write
      BY <1>1, <2>1, <2>4, <2>5 DEF IInv, TypeOK, OneWinnerPerRevision
    <3> QED
      BY <3>1, <3>3, <3>4 DEF OneWinnerPerRevision
  <2>12. DeletionsAudited'
    BY <1>1, <2>1, <2>3, <2>4 DEF IInv, TypeOK, DeletionsAudited
  <2>13. ETagNamesWrite'
    BY <1>1, <2>1, <2>2, <2>5 DEF IInv, TypeOK, ETagNamesWrite
  <2> QED
    BY <2>6, <2>7, <2>10, <2>11, <2>12, <2>13 DEF IInv
<1> QED
  BY <1>2, <1>3

(* A deletion ends a chain; its event pays for the row. *)
LEMMA DeleteKeepsIInv ==
  ASSUME IInv, NEW c \in Clients, DeleteCas(c)
  PROVE  IInv'
<1> DEFINE r == req[c]
           j == r.journey
           answer(s) == Response(r, s, 0, r.write)
<1>1. /\ r \in Request /\ r.pc # "idle" /\ j \in Journeys
  BY DEF IInv, TypeOK, RequestOK, DeleteCas
<1>2. \A s \in {204, 409} :
        /\ answer(s) \in Request /\ answer(s).journey = r.journey /\ answer(s).kind = r.kind
        /\ answer(s).write = r.write /\ answer(s).etag = 0
  BY <1>1 DEF Request, Response
<1>3. CASE ~Matches(c)
  <2>1. req' = [req EXCEPT ![c] = answer(409)] /\ UNCHANGED <<rows, audit, writes, life, log>>
    BY <1>3 DEF DeleteCas, Answered
  <2>2. PICK a : a = answer(409)
    OBVIOUS
  <2>3. /\ a \in Request /\ a.journey = req[c].journey /\ a.kind = req[c].kind
        /\ a.write = req[c].write /\ a.etag = 0
    BY <1>2, <2>2
  <2>4. req' = [req EXCEPT ![c] = a]
    BY <2>1, <2>2
  <2> HIDE DEF answer, r, j
  <2>5. req[c].pc # "idle"
    BY <1>1 DEF r
  <2> QED
    BY <2>1, <2>3, <2>4, <2>5, AnswerKeepsIInv
<1>4. CASE Matches(c)
  <2>1. /\ rows' = [rows EXCEPT ![j] = NoRow]
        /\ audit' = [audit EXCEPT ![j] = audit[j] + 1]
        /\ req' = [req EXCEPT ![c] = answer(204)]
        /\ UNCHANGED <<writes, life, log>>
    BY <1>4 DEF DeleteCas, Answered
  <2>2. rows[j] # NoRow
    BY <1>4 DEF Matches
  <2> HIDE DEF answer
  <2>3. TypeOK'
    BY <1>1, <1>2, <2>1 DEF IInv, TypeOK
  <2>4. RequestOK'
    BY <1>1, <1>2, <2>1 DEF IInv, TypeOK, RequestOK
  <2>5. LogBounded' /\ OneWinnerPerRevision'
    BY <1>1, <2>1 DEF IInv, TypeOK, LogBounded, OneWinnerPerRevision
  <2>6. DeletionsAudited'
    BY <1>1, <2>1, <2>2 DEF IInv, TypeOK, DeletionsAudited
  <2>7. ETagNamesWrite'
    BY <1>1, <1>2, <2>1 DEF IInv, TypeOK, ETagNamesWrite
  <2> QED
    BY <2>3, <2>4, <2>5, <2>6, <2>7 DEF IInv
<1> QED
  BY <1>3, <1>4

LEMMA NextIInv == IInv /\ [Next]_serverVars => IInv'
<1> SUFFICES ASSUME IInv, [Next]_serverVars PROVE IInv'
  OBVIOUS
<1>1. CASE UNCHANGED serverVars
  BY <1>1 DEF serverVars, IInv, TypeOK, RequestOK, LogBounded, OneWinnerPerRevision,
              DeletionsAudited, ETagNamesWrite
<1>2. CASE Next
  <2>1. PICK c \in Clients :
          \/ \E kind \in Kinds, j \in Journeys, n \in 0..MaxWrites : Send(c, kind, j, n)
          \/ Handle(c)
          \/ Finish(c)
    BY <1>2 DEF Next
  <2>2. CASE \E kind \in Kinds, j \in Journeys, n \in 0..MaxWrites : Send(c, kind, j, n)
    <3>1. PICK kind \in Kinds, j \in Journeys, n \in 0..MaxWrites : Send(c, kind, j, n)
      BY <2>2
    <3>2. n \in Nat
      BY MaxWritesAssumption
    <3> QED
      BY <3>1, <3>2, SendKeepsIInv
  <2>3. CASE Handle(c)
    BY <2>3, ReadKeepsIInv, InsertKeepsIInv, UpdateKeepsIInv, DeleteKeepsIInv DEF Handle
  <2>4. CASE Finish(c)
    BY <2>4, FinishKeepsIInv
  <2> QED
    BY <2>1, <2>2, <2>3, <2>4
<1> QED
  BY <1>1, <1>2

(* Every reachable state has the types, for any clients and journeys. *)
THEOREM TypeCorrect == Spec => []TypeOK
<1>1. IInv => TypeOK
  BY DEF IInv
<1> QED
  BY <1>1, InitIInv, NextIInv, PTL DEF Spec

(* However the requests of any number of clients interleave, the accepted  *)
(* payloads of a journey form one chain and the row is its end.            *)
THEOREM BundleChain == Spec => []OneWinnerPerRevision
<1>1. IInv => OneWinnerPerRevision
  BY DEF IInv
<1> QED
  BY <1>1, InitIInv, NextIInv, PTL DEF Spec

(* Deleted journeys and deletion events correspond one to one. *)
THEOREM EveryDeletionAudited == Spec => []DeletionsAudited
<1>1. IInv => DeletionsAudited
  BY DEF IInv
<1> QED
  BY <1>1, InitIInv, NextIInv, PTL DEF Spec

(* An ETag the server hands out names the payload it hands it out for. *)
THEOREM ETagIsOfPayload == Spec => []ETagNamesWrite
<1>1. IInv => ETagNamesWrite
  BY DEF IInv
<1> QED
  BY <1>1, InitIInv, NextIInv, PTL DEF Spec

(* Both: a revision of a journey names one write, whoever asks.            *)
THEOREM RevisionsHold == Spec => []RevisionsNameWrites
  BY BundleChain, ETagIsOfPayload, PTL DEF RevisionsNameWrites

-----------------------------------------------------------------------------
(* InquiryPanel.                                                           *)


PanelTypeOK ==
    /\ bundle \in [Clients -> [journey: Journeys \cup {None}, basis: Nat]]
    /\ etag \in [Clients -> Nat]
    /\ etagFor \in [Clients -> [journey: Journeys \cup {None}, write: Nat]]
    /\ derived \in [1..MaxWrites -> Nat]
    /\ detours \subseteq Detours
    /\ \A c \in Clients : bundle[c] # NoBundle => bundle[c].journey \in Journeys

(* A payload is at least as many writes old as its revision says: a panel  *)
(* names a revision only after it has seen it.                             *)
WritesCountRevisions ==
    /\ writes <= MaxWrites
    /\ \A e \in log : e.revision <= e.write /\ e.write <= writes
    /\ \A c \in Clients :
         /\ req[c].pc # "idle" => req[c].write <= writes
         /\ (req[c].pc # "idle" /\ req[c].kind = "update") => req[c].expected < req[c].write

(* The revision a panel holds was given for an accepted payload. *)
ETagSeen ==
    \A c \in Clients : etag[c] # 0 =>
        \E e \in log : /\ e.journey = etagFor[c].journey
                       /\ e.revision = etag[c] /\ e.write = etagFor[c].write

(* Nothing was deleted: a journey has one life. *)
OneLife ==
    /\ \A c \in Clients : req[c].kind # "delete"
    /\ \A j \in Journeys : audit[j] = 0
    /\ \A e \in log : e.life = 1

(* The bundle of a panel is the one its revision was given for, and an     *)
(* update on its way was derived from it.                                  *)
BundleOfETag ==
    \A c \in Clients :
        /\ etag[c] # 0 => /\ bundle[c].journey = etagFor[c].journey
                          /\ bundle[c].basis = etagFor[c].write
        /\ req[c].pc # "idle" => bundle[c] # NoBundle /\ bundle[c].journey = req[c].journey
        /\ (req[c].pc # "idle" /\ req[c].kind = "update") =>
               /\ etag[c] # 0
               /\ req[c].expected = etag[c]
               /\ derived[req[c].write] = etagFor[c].write

OnTrack == detours = {} => OneLife /\ BundleOfETag /\ NoStaleOverwrite

PanelInv == IInv /\ PanelTypeOK /\ WritesCountRevisions /\ ETagSeen /\ OnTrack

LEMMA InitPanelInv == PanelInit => PanelInv
  <1> SUFFICES ASSUME PanelInit PROVE PanelInv
    OBVIOUS
  <1>1. IInv
    BY InitIInv DEF PanelInit
  <1>2. PanelTypeOK
    BY DEF PanelInit, PanelTypeOK, NoBundle, NoETag, Detours
  <1>3. WritesCountRevisions /\ ETagSeen
    BY MaxWritesAssumption DEF PanelInit, Init, WritesCountRevisions, ETagSeen, Idle
  <1>4. OnTrack
    BY DEF PanelInit, Init, OnTrack, OneLife, BundleOfETag, NoStaleOverwrite, Idle
  <1>5. QED
    BY <1>1, <1>2, <1>3, <1>4 DEF PanelInv

(* A revision a panel holds, or is answered, is bounded by the writes. *)
LEMMA ETagBound ==
    ASSUME PanelInv, NEW c \in Clients
    PROVE  /\ etag[c] # 0 => etagFor[c].journey \in Journeys /\ etag[c] <= writes
           /\ etag[c] \in 0..MaxWrites
           /\ req[c].etag # 0 => req[c].journey \in Journeys /\ req[c].etag <= writes
  <1> USE DEF PanelInv, PanelTypeOK, WritesCountRevisions, IInv, TypeOK
  <1>1. \A e \in log : e.journey \in Journeys /\ e.revision <= writes
    BY DEF Entry
  <1>2. etag[c] # 0 => etagFor[c].journey \in Journeys /\ etag[c] <= writes
    BY <1>1 DEF ETagSeen
  <1>3. req[c].etag # 0 => req[c].journey \in Journeys /\ req[c].etag <= writes
    BY <1>1 DEF ETagNamesWrite
  <1>4. etag[c] \in 0..MaxWrites
    BY <1>2, MaxWritesAssumption
  <1>5. QED
    BY <1>2, <1>3, <1>4

(* What a panel sends. *)
Sending(c) ==
    \/ Send(c, Precondition(c), bundle[c].journey, etag[c]) /\ bundle[c] # NoBundle
    \/ Send(c, "get", bundle[c].journey, 0) /\ bundle[c] # NoBundle
    \/ Send(c, "delete", etagFor[c].journey, etag[c]) /\ etag[c] # 0

LEMMA SendingIsServed ==
    ASSUME PanelInv, NEW c \in Clients, Sending(c)
    PROVE  \E kind \in Kinds, j \in Journeys, n \in 0..MaxWrites :
              /\ (n = 0) <=> (kind \in {"get", "create"})
              /\ Send(c, kind, j, n)
  <1>1. etag[c] \in 0..MaxWrites /\ (etag[c] # 0 => etagFor[c].journey \in Journeys)
    BY ETagBound
  <1>2. bundle[c] # NoBundle => bundle[c].journey \in Journeys
    BY DEF PanelInv, PanelTypeOK
  <1>3. CASE Send(c, Precondition(c), bundle[c].journey, etag[c]) /\ bundle[c] # NoBundle
    <2>1. Precondition(c) \in Kinds /\ (etag[c] = 0 <=> Precondition(c) \in {"get", "create"})
      BY DEF Precondition, Kinds
    <2>2. QED
      BY <1>1, <1>2, <1>3, <2>1
  <1>4. CASE Send(c, "get", bundle[c].journey, 0) /\ bundle[c] # NoBundle
    <2>1. "get" \in Kinds /\ 0 \in 0..MaxWrites
      BY MaxWritesAssumption DEF Kinds
    <2>2. QED
      BY <1>2, <1>4, <2>1
  <1>5. CASE Send(c, "delete", etagFor[c].journey, etag[c]) /\ etag[c] # 0
    <2>1. "delete" \in Kinds /\ "delete" \notin {"get", "create"}
      BY DEF Kinds
    <2>2. QED
      BY <1>1, <1>5, <2>1
  <1>6. QED
    BY <1>3, <1>4, <1>5 DEF Sending

(* Every step of a panel is a step of the server's clients, or unseen. *)
LEMMA PanelStepServed ==
    ASSUME PanelInv, [PanelNext]_vars
    PROVE  [Next]_serverVars
  <1>1. CASE UNCHANGED vars
    BY <1>1 DEF vars
  <1>2. ASSUME NEW c \in Clients,
               \/ \E j \in Journeys : Start(c, j)
               \/ \E e \in log : Import(c, e)
               \/ DropBundle(c) \/ Unmount(c)
        PROVE  UNCHANGED serverVars
    BY <1>2 DEF Start, Import, DropBundle, ChangeBundle, Unmount
  <1>3. ASSUME NEW c \in Clients, Save(c) \/ Load(c) \/ Delete(c)
        PROVE  Next
    <2>1. Sending(c)
      BY <1>3 DEF Save, Load, Delete, Sending
    <2>2. QED
      BY <2>1, SendingIsServed DEF Next
  <1>4. ASSUME NEW c \in Clients,
               \/ Saved(c) \/ Loaded(c) \/ LoadRefused(c) \/ Failed(c)
               \/ Handle(c)
        PROVE  Next
    BY <1>4 DEF Saved, Loaded, LoadRefused, Failed, Next
  <1>5. QED
    BY <1>1, <1>2, <1>3, <1>4 DEF PanelNext
----------------------------------------------------------------------------
(* Before or after a refused, deleted or reused bundle, the invariant says *)
(* nothing about the bundles: what a detour has to keep.                   *)
LEMMA DetourLeavesTrack ==
    ASSUME NEW d, Detour(d)
    PROVE  OnTrack'
  BY DEF Detour, OnTrack

(* A panel that holds no revision may change its bundle freely. *)
LEMMA ChangeKeepsPanelInv ==
    ASSUME PanelInv, NEW c \in Clients, NEW b \in [journey: Journeys \cup {None}, basis: Nat],
           b # NoBundle => b.journey \in Journeys,
           ChangeBundle(c, b), IInv'
    PROVE  PanelInv'
  <1> USE DEF PanelInv, PanelTypeOK
  <1>1. /\ bundle' = [bundle EXCEPT ![c] = b]
        /\ UNCHANGED <<rows, audit, req, writes, life, log, etag, etagFor, derived>>
    BY DEF ChangeBundle, serverVars
  <1>2. PanelTypeOK'
    BY <1>1 DEF ChangeBundle, Detour, Detours
  <1>3. WritesCountRevisions' /\ ETagSeen'
    BY <1>1 DEF WritesCountRevisions, ETagSeen
  <1>4. OnTrack'
    <2>1. CASE etag[c] = 0 /\ req[c].pc = "idle" /\ UNCHANGED detours
      BY <1>1, <2>1 DEF OnTrack, OneLife, BundleOfETag, NoStaleOverwrite
    <2>2. CASE Detour("reuse")
      BY <2>2, DetourLeavesTrack
    <2>3. QED
      BY <2>1, <2>2 DEF ChangeBundle
  <1>5. QED
    BY <1>2, <1>3, <1>4

LEMMA UnmountKeepsPanelInv ==
    ASSUME PanelInv, NEW c \in Clients, Unmount(c), IInv'
    PROVE  PanelInv'
  <1> USE DEF PanelInv, PanelTypeOK
  <1>1. /\ bundle' = [bundle EXCEPT ![c] = NoBundle]
        /\ etag' = [etag EXCEPT ![c] = 0]
        /\ etagFor' = [etagFor EXCEPT ![c] = NoETag]
        /\ req[c].pc = "idle"
        /\ UNCHANGED <<rows, audit, req, writes, life, log, derived, detours>>
    BY DEF Unmount, serverVars
  <1>2. PanelTypeOK'
    BY <1>1 DEF NoBundle, NoETag
  <1>3. WritesCountRevisions' /\ ETagSeen'
    BY <1>1 DEF WritesCountRevisions, ETagSeen
  <1>4. OnTrack'
    BY <1>1 DEF OnTrack, OneLife, BundleOfETag, NoStaleOverwrite
  <1>5. QED
    BY <1>2, <1>3, <1>4

(* A save notes what its payload was derived from. *)
LEMMA SaveKeepsPanelInv ==
    ASSUME PanelInv, NEW c \in Clients, Save(c), IInv'
    PROVE  PanelInv'
  <1> USE DEF PanelInv
  <1> DEFINE kind == Precondition(c)
             n == writes + 1
             sent == [pc |-> "sent", kind |-> kind, journey |-> bundle[c].journey,
                      expected |-> etag[c], write |-> n, status |-> 0, etag |-> 0]
  <1>1. /\ kind \in {"create", "update"} /\ (kind = "update" <=> etag[c] # 0)
        /\ req[c].pc = "idle" /\ bundle[c] # NoBundle
        /\ writes \in Nat /\ writes' = n /\ n <= MaxWrites
        /\ req' = [req EXCEPT ![c] = sent]
        /\ derived' = [derived EXCEPT ![n] = bundle[c].basis]
        /\ UNCHANGED <<rows, audit, life, log, bundle, etag, etagFor, detours>>
    BY DEF Save, Send, Precondition, IInv, TypeOK
  <1>2. /\ sent.pc = "sent" /\ sent.kind = kind /\ sent.journey = bundle[c].journey
        /\ sent.expected = etag[c] /\ sent.write = n
    OBVIOUS
  <1> HIDE DEF sent, kind
  <1>3. etag[c] \in Nat /\ (etag[c] # 0 => etag[c] <= writes)
    BY ETagBound DEF PanelTypeOK
  <1>4. /\ req \in [Clients -> Request] /\ \A d \in Clients : req[d].write \in Nat
        /\ \A e \in log : e.write \in Nat \ {0}
    BY DEF IInv, TypeOK, Request, Entry
  <1>5. n \in 1..MaxWrites
    BY <1>1, MaxWritesAssumption
  <1>6. PanelTypeOK'
    BY <1>1, <1>5 DEF PanelTypeOK
  <1>7. WritesCountRevisions'
    <2>1. \A e \in log' : e.revision <= e.write /\ e.write <= writes'
      BY <1>1, <1>4 DEF WritesCountRevisions
    <2>2. ASSUME NEW d \in Clients
          PROVE  /\ req'[d].pc # "idle" => req'[d].write <= writes'
                 /\ (req'[d].pc # "idle" /\ req'[d].kind = "update") => req'[d].expected < req'[d].write
      <3>1. CASE d = c
        BY <1>1, <1>2, <1>3, <1>4, <3>1
      <3>2. CASE d # c
        BY <1>1, <1>4, <3>2 DEF WritesCountRevisions
      <3>3. QED
        BY <3>1, <3>2
    <2>3. QED
      BY <1>1, <2>1, <2>2 DEF WritesCountRevisions
  <1>8. ETagSeen'
    BY <1>1 DEF ETagSeen
  <1>9. ASSUME detours' = {}
        PROVE  OneLife' /\ BundleOfETag' /\ NoStaleOverwrite'
    <2>1. OneLife /\ BundleOfETag /\ NoStaleOverwrite /\ detours = {}
      BY <1>1, <1>9 DEF OnTrack
    <2>2. OneLife'
      BY <1>1, <1>2, <1>4, <2>1 DEF OneLife
    <2>3. BundleOfETag'
      <3>1. ASSUME NEW d \in Clients, d # c, req[d].pc # "idle", req[d].kind = "update"
            PROVE  derived'[req[d].write] = derived[req[d].write]
        <4>1. req[d].write <= writes /\ req[d].write # n
          BY <1>1, <1>4, <3>1 DEF WritesCountRevisions
        <4>2. QED
          BY <1>1, <4>1, <1>5 DEF PanelTypeOK
      <3>2. derived'[n] = bundle[c].basis
        BY <1>1, <1>5 DEF PanelTypeOK
      <3>3. QED
        BY <1>1, <1>2, <1>4, <2>1, <3>1, <3>2 DEF BundleOfETag
    <2>4. NoStaleOverwrite'
      <3>1. \A e \in log : e.write # n
        BY <1>1, <1>4 DEF WritesCountRevisions
      <3>2. QED
        BY <1>1, <2>1, <3>1 DEF NoStaleOverwrite, PanelTypeOK
    <2>5. QED
      BY <2>2, <2>3, <2>4
  <1>10. QED
    BY <1>6, <1>7, <1>8, <1>9 DEF OnTrack

(* A load or a deletion carries no payload; a deletion is a detour. *)
LEMMA AskKeepsPanelInv ==
    ASSUME PanelInv, NEW c \in Clients, Load(c) \/ Delete(c), IInv'
    PROVE  PanelInv'
  <1> USE DEF PanelInv
  <1>1. /\ req[c].pc = "idle"
        /\ req'= [req EXCEPT ![c] = req'[c]]
        /\ req'[c].kind \in {"get", "delete"} /\ req'[c].write = 0
        /\ UNCHANGED <<rows, audit, writes, life, log, bundle, etag, etagFor, derived>>
    BY DEF Load, Delete, Send, panelVars, IInv, TypeOK
  <1>2. req \in [Clients -> Request] /\ writes \in Nat
    BY DEF IInv, TypeOK
  <1>3. PanelTypeOK'
    BY <1>1 DEF PanelTypeOK, Load, Delete, Detour, Detours, panelVars
  <1>4. WritesCountRevisions' /\ ETagSeen'
    BY <1>1, <1>2 DEF WritesCountRevisions, ETagSeen
  <1>5. OnTrack'
    <2>1. CASE Load(c)
      <3>1. /\ req'[c].kind = "get" /\ req'[c].journey = bundle[c].journey
            /\ bundle[c] # NoBundle /\ UNCHANGED detours
        BY <1>2, <2>1 DEF Load, Send, panelVars
      <3>2. QED
        BY <1>1, <1>2, <3>1 DEF OnTrack, OneLife, BundleOfETag, NoStaleOverwrite
    <2>2. CASE Delete(c)
      BY <2>2, DetourLeavesTrack DEF Delete
    <2>3. QED
      BY <2>1, <2>2
  <1>6. QED
    BY <1>3, <1>4, <1>5
(* The panel takes over what an answer names. *)
LEMMA AnswerKeepsPanelInv ==
    ASSUME PanelInv, NEW c \in Clients, Saved(c) \/ Loaded(c) \/ LoadRefused(c) \/ Failed(c), IInv'
    PROVE  PanelInv'
  <1> USE DEF PanelInv
  <1>1. /\ req[c].pc # "idle" /\ req' = [req EXCEPT ![c] = Idle]
        /\ UNCHANGED <<rows, audit, writes, life, log, derived>>
    BY DEF Saved, Loaded, LoadRefused, Failed, Finish, panelVars
  <1>2. /\ req[c] \in Request /\ req[c].journey \in Journeys
        /\ req[c].etag \in Nat /\ req[c].write \in Nat
        /\ req \in [Clients -> Request]
    BY <1>1 DEF IInv, TypeOK, RequestOK, Request
  <1>3. Idle.pc = "idle" /\ Idle.kind = "get" /\ Idle.write = 0
    BY DEF Idle
  <1>4. WritesCountRevisions'
    BY <1>1, <1>2, <1>3 DEF WritesCountRevisions
  <1>5. CASE Failed(c)
    <2>1. UNCHANGED <<bundle, etag, etagFor, derived, detours>>
      BY <1>5 DEF Failed, panelVars
    <2>2. PanelTypeOK' /\ ETagSeen'
      BY <1>1, <2>1 DEF PanelTypeOK, ETagSeen
    <2>3. OnTrack'
      BY <1>1, <1>2, <1>3, <2>1 DEF OnTrack, OneLife, BundleOfETag, NoStaleOverwrite
    <2>4. QED
      BY <1>4, <2>2, <2>3
  <1>6. CASE Saved(c) \/ Loaded(c) \/ LoadRefused(c)
    <2> DEFINE f == [journey |-> req[c].journey, write |-> req[c].write]
    <2>1. etag' = [etag EXCEPT ![c] = req[c].etag] /\ etagFor' = [etagFor EXCEPT ![c] = f]
      BY <1>6 DEF Saved, Loaded, LoadRefused, Remember
    <2>2. /\ f \in [journey: Journeys \cup {None}, write: Nat]
          /\ f.journey = req[c].journey /\ f.write = req[c].write
      BY <1>2
    <2> HIDE DEF f
    <2>3. ETagSeen'
      <3>1. etag \in [Clients -> Nat] /\ DOMAIN etagFor = Clients
        BY DEF PanelTypeOK
      <3>2. req[c].etag # 0 =>
              \E e \in log : e.journey = f.journey /\ e.revision = req[c].etag /\ e.write = f.write
        BY <2>2 DEF ETagNamesWrite, IInv
      <3>3. QED
        BY <1>1, <2>1, <3>1, <3>2 DEF ETagSeen
    <2>4. CASE Saved(c)
      <3>1. /\ bundle' = IF bundle[c] = NoBundle THEN bundle
                         ELSE [bundle EXCEPT ![c] = [bundle[c] EXCEPT !.basis = req[c].write]]
            /\ UNCHANGED detours
        BY <2>4 DEF Saved
      <3>2. [bundle[c] EXCEPT !.basis = req[c].write] \in [journey: Journeys \cup {None}, basis: Nat]
        BY <1>2 DEF PanelTypeOK
      <3>3. /\ [bundle[c] EXCEPT !.basis = req[c].write].journey = bundle[c].journey
            /\ [bundle[c] EXCEPT !.basis = req[c].write].basis = req[c].write
        BY DEF PanelTypeOK
      <3>4. PanelTypeOK'
        BY <1>1, <1>2, <2>1, <2>2, <3>1, <3>2, <3>3 DEF PanelTypeOK
      <3>5. OnTrack'
        <4>1. bundle[c] # NoBundle => [bundle[c] EXCEPT !.basis = req[c].write] # NoBundle
          BY <3>3, NoneAssumption DEF PanelTypeOK, NoBundle
        <4>2. QED
          BY <1>1, <1>2, <1>3, <2>1, <2>2, <3>1, <3>3, <4>1
             DEF OnTrack, OneLife, BundleOfETag, NoStaleOverwrite, PanelTypeOK
      <3>6. QED
        BY <1>4, <2>3, <3>4, <3>5
    <2>5. CASE Loaded(c)
      <3> DEFINE b == [journey |-> req[c].journey, basis |-> req[c].write]
      <3>1. bundle' = [bundle EXCEPT ![c] = b] /\ UNCHANGED detours
        BY <2>5 DEF Loaded
      <3>2. /\ b \in [journey: Journeys \cup {None}, basis: Nat]
            /\ b.journey = req[c].journey /\ b.basis = req[c].write /\ b # NoBundle
        BY <1>2, NoneAssumption DEF NoBundle
      <3> HIDE DEF b
      <3>3. PanelTypeOK'
        BY <1>1, <1>2, <2>1, <2>2, <3>1, <3>2 DEF PanelTypeOK
      <3>4. OnTrack'
        BY <1>1, <1>2, <1>3, <2>1, <2>2, <3>1, <3>2
           DEF OnTrack, OneLife, BundleOfETag, NoStaleOverwrite, PanelTypeOK
      <3>5. QED
        BY <1>4, <2>3, <3>3, <3>4
    <2>6. CASE LoadRefused(c)
      <3>1. UNCHANGED bundle /\ Detour("refused")
        BY <2>6 DEF LoadRefused
      <3>2. PanelTypeOK'
        BY <1>1, <1>2, <2>1, <2>2, <3>1 DEF PanelTypeOK, Detour, Detours
      <3>3. OnTrack'
        BY <3>1, DetourLeavesTrack
      <3>4. QED
        BY <1>4, <2>3, <3>2, <3>3
    <2>7. QED
      BY <1>6, <2>4, <2>5, <2>6
  <1>7. QED
    BY <1>5, <1>6
(* The server never changes what a request asks for. *)
LEMMA HandleAnswers ==
    ASSUME PanelInv, NEW c \in Clients, Handle(c)
    PROVE  /\ req[c].pc # "idle" /\ req[c].journey \in Journeys
           /\ req' = [req EXCEPT ![c] = req'[c]]
           /\ req'[c].pc # "idle" /\ req'[c].kind = req[c].kind
           /\ req'[c].journey = req[c].journey /\ req'[c].expected = req[c].expected
           /\ \/ req'[c].write = req[c].write
              \/ /\ req[c].kind = "get" /\ rows[req[c].journey] # NoRow
                 /\ req'[c].write = rows[req[c].journey].write
           /\ UNCHANGED writes
  <1>1. req[c].pc # "idle" /\ req[c].journey \in Journeys
    BY DEF Handle, Read, Insert, UpdateCas, DeleteCas, PanelInv, IInv, RequestOK
  <1>2. req \in [Clients -> Request] /\ req[c] \in Request
    BY DEF PanelInv, IInv, TypeOK
  <1>3. UNCHANGED writes
    BY DEF Handle, Read, Insert, UpdateCas, DeleteCas
  <1> DEFINE Kept(r) ==
        /\ r.pc # "idle" /\ r.kind = req[c].kind
        /\ r.journey = req[c].journey /\ r.expected = req[c].expected
      Named(w) ==
        \/ w = req[c].write
        \/ req[c].kind = "get" /\ rows[req[c].journey] # NoRow /\ w = rows[req[c].journey].write
  <1>4. \A s, t, w : Kept(Response(req[c], s, t, w)) /\ Response(req[c], s, t, w).write = w
    BY DEF Response
  <1>5. /\ Kept([req[c] EXCEPT !.pc = "checked"])
        /\ [req[c] EXCEPT !.pc = "checked"].write = req[c].write
    BY <1>2 DEF Request
  <1>6. req' = [req EXCEPT ![c] = req'[c]] /\ Kept(req'[c]) /\ Named(req'[c].write)
    <2> DEFINE Is(r) == req' = [req EXCEPT ![c] = r]
    <2>1. ASSUME NEW s, NEW t, NEW w, Named(w), Is(Response(req[c], s, t, w))
          PROVE  req' = [req EXCEPT ![c] = req'[c]] /\ Kept(req'[c]) /\ Named(req'[c].write)
      <3> DEFINE a == Response(req[c], s, t, w)
      <3>1. Kept(a) /\ a.write = w
        BY <1>4
      <3> HIDE DEF a, Kept, Named
      <3>2. req' = [req EXCEPT ![c] = a] /\ Named(w)
        BY <2>1 DEF a
      <3>3. req'[c] = a
        BY <1>2, <3>2
      <3>4. QED
        BY <3>1, <3>2, <3>3
    <2>2. CASE Read(c)
      <3>1. \/ \E s \in {403, 404, 409} : Is(Response(req[c], s, 0, req[c].write))
            \/ /\ req[c].kind = "get" /\ rows[req[c].journey] # NoRow
               /\ Is(Response(req[c], 200, rows[req[c].journey].revision, rows[req[c].journey].write))
            \/ Is([req[c] EXCEPT !.pc = "checked"])
        BY <2>2 DEF Read, Answered
      <3>2. CASE Is([req[c] EXCEPT !.pc = "checked"])
        <4> DEFINE a == [req[c] EXCEPT !.pc = "checked"]
        <4>1. Kept(a) /\ a.write = req[c].write
          BY <1>5
        <4> HIDE DEF a, Kept
        <4>2. req' = [req EXCEPT ![c] = a]
          BY <3>2 DEF a
        <4>3. req'[c] = a
          BY <1>2, <4>2
        <4>4. QED
          BY <4>1, <4>2, <4>3
      <3>3. QED
        <4> HIDE DEF Is, Kept
        <4>1. QED
          BY <2>1, <3>1, <3>2
    <2>3. CASE Insert(c)
      <3>1. \E s \in {201, 500}, t \in {0, 1} : Is(Response(req[c], s, t, req[c].write))
        BY <2>3 DEF Insert, Answered
      <3>2. QED
        <4> HIDE DEF Is, Kept
        <4>1. QED
          BY <2>1, <3>1
    <2>4. CASE UpdateCas(c)
      <3>1. \E s \in {204, 409}, t \in {0, NewETag(c)} : Is(Response(req[c], s, t, req[c].write))
        BY <2>4 DEF UpdateCas, Answered
      <3>2. QED
        <4> HIDE DEF Is, Kept
        <4>1. QED
          BY <2>1, <3>1
    <2>5. CASE DeleteCas(c)
      <3>1. \E s \in {204, 409} : Is(Response(req[c], s, 0, req[c].write))
        BY <2>5 DEF DeleteCas, Answered
      <3>2. QED
        <4> HIDE DEF Is, Kept
        <4>1. QED
          BY <2>1, <3>1
    <2>6. QED
      BY <2>2, <2>3, <2>4, <2>5 DEF Handle
  <1>7. QED
    BY <1>1, <1>3, <1>6

(* While nothing is accepted, only the requests move. *)
LEMMA RefusedKeepsPanelInv ==
    ASSUME PanelInv, NEW c \in Clients, Handle(c), UNCHANGED panelVars,
           log' = log, audit' = audit \/ req[c].kind = "delete", IInv'
    PROVE  PanelInv'
  <1> USE DEF PanelInv
  <1>1. /\ req[c].pc # "idle"
        /\ req' = [req EXCEPT ![c] = req'[c]]
        /\ req'[c].pc # "idle" /\ req'[c].kind = req[c].kind
        /\ req'[c].journey = req[c].journey /\ req'[c].expected = req[c].expected
        /\ req'[c].write = req[c].write \/ req[c].kind = "get"
        /\ UNCHANGED writes
    BY HandleAnswers
  <1>2. UNCHANGED <<bundle, etag, etagFor, derived, detours>>
    BY DEF panelVars
  <1>3. PanelTypeOK' /\ ETagSeen'
    BY <1>2 DEF PanelTypeOK, ETagSeen
  <1>4. DOMAIN req = Clients
    BY DEF IInv, TypeOK
  <1>5. WritesCountRevisions'
    <2>1. req'[c].write <= writes
      <3>1. CASE req'[c].write = req[c].write
        BY <1>1, <3>1 DEF WritesCountRevisions
      <3>2. CASE /\ rows[req[c].journey] # NoRow
                 /\ req'[c].write = rows[req[c].journey].write
        <4>1. \E e \in log : e.write = rows[req[c].journey].write
          BY <3>2, HandleAnswers DEF IInv, OneWinnerPerRevision
        <4>2. QED
          BY <3>2, <4>1 DEF WritesCountRevisions
      <3>3. QED
        BY <3>1, <3>2, HandleAnswers
    <2>2. ASSUME NEW d \in Clients
          PROVE  /\ req'[d].pc # "idle" => req'[d].write <= writes
                 /\ (req'[d].pc # "idle" /\ req'[d].kind = "update") => req'[d].expected < req'[d].write
      <3>1. CASE d = c
        BY <1>1, <2>1, <3>1 DEF WritesCountRevisions
      <3>2. CASE d # c
        BY <1>1, <1>4, <3>2 DEF WritesCountRevisions
      <3>3. QED
        BY <3>1, <3>2
    <2>3. QED
      BY <1>1, <2>2 DEF WritesCountRevisions
  <1>6. ASSUME detours' = {}
        PROVE  OneLife' /\ BundleOfETag' /\ NoStaleOverwrite'
    <2>1. OneLife /\ BundleOfETag /\ NoStaleOverwrite
      BY <1>2, <1>6 DEF OnTrack
    <2>2. OneLife'
      BY <1>1, <1>4, <2>1 DEF OneLife
    <2>3. BundleOfETag'
      <3>1. ASSUME NEW d \in Clients, d # c
            PROVE  req'[d] = req[d]
        BY <1>1, <1>4, <3>1
      <3>2. QED
        BY <1>1, <1>2, <2>1, <3>1 DEF BundleOfETag
    <2>4. NoStaleOverwrite'
      BY <1>2, <2>1 DEF NoStaleOverwrite
    <2>5. QED
      BY <2>2, <2>3, <2>4
  <1>7. QED
    BY <1>3, <1>5, <1>6 DEF OnTrack
(* An accepted payload: what its log entry has to satisfy. *)
LEMMA AcceptedKeepsPanelInv ==
    ASSUME PanelInv, NEW c \in Clients, Handle(c), UNCHANGED panelVars,
           NEW e, log' = log \cup {e}, audit' = audit,
           req[c].kind \in {"create", "update"},
           e.revision <= e.write, e.write = req[c].write,
           detours = {} => e.life = 1 /\ (e.revision > 1 => derived[e.write] = e.over),
           IInv'
    PROVE  PanelInv'
  <1> USE DEF PanelInv
  <1>1. /\ req[c].pc # "idle"
        /\ req' = [req EXCEPT ![c] = req'[c]]
        /\ req'[c].pc # "idle" /\ req'[c].kind = req[c].kind
        /\ req'[c].journey = req[c].journey /\ req'[c].expected = req[c].expected
        /\ req'[c].write = req[c].write
        /\ UNCHANGED writes
    BY HandleAnswers
  <1>2. UNCHANGED <<bundle, etag, etagFor, derived, detours>>
    BY DEF panelVars
  <1>3. PanelTypeOK' /\ ETagSeen'
    BY <1>2 DEF PanelTypeOK, ETagSeen
  <1>4. \A d \in Clients : d # c => req'[d] = req[d]
    BY <1>1 DEF IInv, TypeOK
  <1>5. WritesCountRevisions'
    BY <1>1, <1>4 DEF WritesCountRevisions
  <1>6. ASSUME detours' = {}
        PROVE  OneLife' /\ BundleOfETag' /\ NoStaleOverwrite'
    <2>1. OneLife /\ BundleOfETag /\ NoStaleOverwrite
      BY <1>2, <1>6 DEF OnTrack
    <2>2. OneLife'
      BY <1>1, <1>2, <1>4, <1>6, <2>1 DEF OneLife
    <2>3. BundleOfETag'
      BY <1>1, <1>2, <1>4, <2>1 DEF BundleOfETag
    <2>4. NoStaleOverwrite'
      BY <1>2, <1>6, <2>1 DEF NoStaleOverwrite
    <2>5. QED
      BY <2>2, <2>3, <2>4
  <1>7. QED
    BY <1>3, <1>5, <1>6 DEF OnTrack

LEMMA HandleKeepsPanelInv ==
    ASSUME PanelInv, NEW c \in Clients, Handle(c), UNCHANGED panelVars, IInv'
    PROVE  PanelInv'
  <1> DEFINE j == req[c].journey
             e(n, life_, over) == [journey |-> j, life |-> life_, revision |-> n,
                                   write |-> req[c].write, over |-> over]
  <1>1. req[c].pc # "idle" /\ j \in Journeys /\ req[c] \in Request
    BY HandleAnswers DEF PanelInv, IInv, TypeOK
  <1>2. CASE log' = log /\ (audit' = audit \/ req[c].kind = "delete")
    BY <1>2, RefusedKeepsPanelInv
  <1>3. CASE Insert(c) /\ rows[j] = NoRow
    <2> DEFINE f == e(1, life[j] + 1, 0)
    <2>1. log' = log \cup {f} /\ audit' = audit /\ req[c].kind = "create"
      BY <1>3 DEF Insert, Accept
    <2>2. req[c].write \in Nat /\ req[c].write # 0
      BY <1>1, <2>1 DEF PanelInv, IInv, RequestOK, Request
    <2>3. f.revision = 1 /\ f.write = req[c].write /\ f.life = life[j] + 1
      OBVIOUS
    <2>4. detours = {} => life[j] = 0
      BY <1>1, <1>3 DEF PanelInv, OnTrack, OneLife, IInv, DeletionsAudited
    <2> HIDE DEF f
    <2>5. QED
      BY <2>1, <2>2, <2>3, <2>4, AcceptedKeepsPanelInv
  <1>4. CASE UpdateCas(c) /\ Matches(c)
    <2> DEFINE n == req[c].expected + 1
               f == e(n, life[j], rows[j].write)
    <2>1. log' = log \cup {f} /\ audit' = audit /\ req[c].kind = "update"
      BY <1>4 DEF UpdateCas, Accept
    <2>2. /\ req[c].write \in Nat /\ req[c].expected \in Nat
          /\ req[c].expected < req[c].write
          /\ rows[j] # NoRow /\ rows[j].revision = req[c].expected
      BY <1>1, <1>4, <2>1 DEF PanelInv, WritesCountRevisions, Request, Matches
    <2>3. /\ f.revision = n /\ f.write = req[c].write /\ f.life = life[j]
          /\ f.over = rows[j].write
      OBVIOUS
    <2> HIDE DEF f
    <2>4. ASSUME detours = {}
          PROVE  life[j] = 1 /\ derived[req[c].write] = rows[j].write
      <3>1. OneLife /\ BundleOfETag
        BY <2>4 DEF PanelInv, OnTrack
      <3>2. life[j] = 1
        BY <1>1, <2>2, <3>1 DEF PanelInv, IInv, DeletionsAudited, OneLife, TypeOK
      <3>3. /\ etag[c] # 0 /\ req[c].expected = etag[c]
            /\ etagFor[c].journey = j /\ derived[req[c].write] = etagFor[c].write
        BY <1>1, <2>1, <3>1 DEF BundleOfETag
      <3>4. PICK g \in log : /\ g.journey = etagFor[c].journey
                             /\ g.revision = etag[c] /\ g.write = etagFor[c].write
        BY <3>3 DEF PanelInv, ETagSeen
      <3>5. PICK h \in log : /\ h.journey = j /\ h.life = life[j]
                             /\ h.revision = rows[j].revision /\ h.write = rows[j].write
        BY <1>1, <2>2 DEF PanelInv, IInv, OneWinnerPerRevision
      <3>6. g = h
        BY <2>2, <3>1, <3>2, <3>3, <3>4, <3>5 DEF OneLife, PanelInv, IInv, OneWinnerPerRevision
      <3>7. QED
        BY <3>2, <3>3, <3>4, <3>5, <3>6
    <2>5. QED
      BY <2>1, <2>2, <2>3, <2>4, AcceptedKeepsPanelInv
  <1>5. \/ log' = log /\ (audit' = audit \/ req[c].kind = "delete")
        \/ Insert(c) /\ rows[j] = NoRow
        \/ UpdateCas(c) /\ Matches(c)
    BY DEF Handle, Read, Insert, UpdateCas, DeleteCas
  <1>6. QED
    BY <1>2, <1>3, <1>4, <1>5

LEMMA NextPanelInv == PanelInv /\ [PanelNext]_vars => PanelInv'
  <1> SUFFICES ASSUME PanelInv, [PanelNext]_vars PROVE PanelInv'
    OBVIOUS
  <1>1. IInv'
    BY PanelStepServed, NextIInv DEF PanelInv
  <1>2. CASE UNCHANGED vars
    BY <1>1, <1>2 DEF vars, panelVars, serverVars, PanelInv, PanelTypeOK, WritesCountRevisions,
       ETagSeen, OnTrack, OneLife, BundleOfETag, NoStaleOverwrite
  <1>3. ASSUME NEW c \in Clients, NEW j \in Journeys, Start(c, j)
        PROVE  PanelInv'
    <2>1. [journey |-> j, basis |-> 0] \in [journey: Journeys \cup {None}, basis: Nat]
      OBVIOUS
    <2>2. QED
      BY <1>1, <1>3, <2>1, ChangeKeepsPanelInv DEF Start
  <1>4. ASSUME NEW c \in Clients, NEW e \in log, Import(c, e)
        PROVE  PanelInv'
    <2>1. e.journey \in Journeys /\ e.write \in Nat
      BY DEF PanelInv, IInv, TypeOK, Entry
    <2>2. [journey |-> e.journey, basis |-> e.write] \in [journey: Journeys \cup {None}, basis: Nat]
      BY <2>1
    <2>3. QED
      BY <1>1, <1>4, <2>1, <2>2, ChangeKeepsPanelInv DEF Import
  <1>5. ASSUME NEW c \in Clients, DropBundle(c)
        PROVE  PanelInv'
    <2>1. NoBundle \in [journey: Journeys \cup {None}, basis: Nat]
      BY DEF NoBundle
    <2>2. QED
      BY <1>1, <1>5, <2>1, ChangeKeepsPanelInv DEF DropBundle
  <1>6. QED
    BY <1>1, <1>2, <1>3, <1>4, <1>5, UnmountKeepsPanelInv, SaveKeepsPanelInv, AskKeepsPanelInv,
       AnswerKeepsPanelInv, HandleKeepsPanelInv DEF PanelNext

----------------------------------------------------------------------------
(* Every reachable state of the panels and the server has the types. *)
THEOREM PanelTypeCorrect == PanelSpec => [](TypeOK /\ PanelTypeOK)
  <1>1. PanelInv => TypeOK /\ PanelTypeOK
    BY DEF PanelInv, IInv
  <1>2. QED
    BY <1>1, InitPanelInv, NextPanelInv, PTL DEF PanelSpec

(* Whatever any number of panels go through, detours included, the server  *)
(* only sees requests it is specified for: every step is one of its steps  *)
(* or leaves it alone.  What is proved of InquiryBundles holds with them.  *)
THEOREM ServerImplemented == PanelSpec => ImplementsServer
  <1>1. PanelInit => Init
    BY DEF PanelInit
  <1>2. PanelInv /\ [PanelNext]_vars => [Next]_serverVars
    BY PanelStepServed
  <1>3. QED
    BY <1>1, <1>2, InitPanelInv, NextPanelInv, PTL DEF PanelSpec, ImplementsServer, Spec

(* With lost answers, conflicts and any interleaving of any number of      *)
(* panels, an accepted update was derived from the payload it replaces,    *)
(* as long as nobody took one of the detours.                              *)
THEOREM NothingOverwrittenUnseen == PanelSpec => []NoStaleOverwrite
  <1>1. PanelInv => NoStaleOverwrite
    BY DEF PanelInv, OnTrack, NoStaleOverwrite
  <1>2. QED
    BY <1>1, InitPanelInv, NextPanelInv, PTL DEF PanelSpec
----------------------------------------------------------------------------
(* Unless a panel with a revision changed its bundle: the bundle, the      *)
(* revision and the request on its way are of one journey.                 *)
OneJourney ==
    "reuse" \notin detours =>
        \A c \in Clients :
            /\ etag[c] # 0 => bundle[c].journey = etagFor[c].journey
            /\ req[c].pc # "idle" => bundle[c] # NoBundle /\ bundle[c].journey = req[c].journey
            /\ (req[c].pc # "idle" /\ req[c].kind = "update") => etag[c] # 0

LEMMA NextOneJourney == PanelInv /\ OneJourney /\ [PanelNext]_vars => OneJourney'
  <1> SUFFICES ASSUME PanelInv, OneJourney, [PanelNext]_vars, "reuse" \notin detours'
               PROVE  OneJourney'
    BY DEF OneJourney
  <1> USE DEF OneJourney
  <1>1. /\ req \in [Clients -> Request] /\ DOMAIN bundle = Clients
        /\ DOMAIN etag = Clients /\ DOMAIN etagFor = Clients
    BY DEF PanelInv, IInv, TypeOK, PanelTypeOK
  <1>2. CASE UNCHANGED vars
    BY <1>2 DEF vars, panelVars, serverVars
  <1>3. ASSUME NEW c \in Clients, NEW b, ChangeBundle(c, b)
        PROVE  OneJourney'
    BY <1>1, <1>3 DEF ChangeBundle, Detour, serverVars
  <1>4. ASSUME NEW c \in Clients, Unmount(c)
        PROVE  OneJourney'
    BY <1>1, <1>4 DEF Unmount, serverVars
  <1>5. ASSUME NEW c \in Clients, Save(c)
        PROVE  OneJourney'
    BY <1>1, <1>5 DEF Save, Send, Precondition
  <1>6. ASSUME NEW c \in Clients, Load(c)
        PROVE  OneJourney'
    BY <1>1, <1>6 DEF Load, Send, panelVars
  <1>7. ASSUME NEW c \in Clients, Delete(c)
        PROVE  OneJourney'
    <2>1. bundle[c].journey = etagFor[c].journey /\ etagFor[c].journey \in Journeys
      BY <1>7, ETagBound DEF Delete, Detour
    <2>2. bundle[c] # NoBundle
      BY <2>1, NoneAssumption DEF NoBundle
    <2>3. QED
      BY <1>1, <1>7, <2>1, <2>2 DEF Delete, Send, Detour
  <1>8. ASSUME NEW c \in Clients, Saved(c) \/ Loaded(c) \/ LoadRefused(c) \/ Failed(c)
        PROVE  OneJourney'
    <2>1. req[c].pc # "idle" /\ req' = [req EXCEPT ![c] = Idle] /\ Idle.pc = "idle"
      BY <1>8 DEF Saved, Loaded, LoadRefused, Failed, Finish, Idle
    <2>2. "reuse" \notin detours /\ bundle[c].journey = req[c].journey /\ bundle[c] # NoBundle
      BY <1>8, <2>1 DEF Saved, Loaded, LoadRefused, Failed, panelVars, Detour
    <2>3. CASE Failed(c)
      BY <1>1, <2>1, <2>2, <2>3 DEF Failed, panelVars
    <2>4. CASE Saved(c) \/ Loaded(c) \/ LoadRefused(c)
      <3>1. /\ etagFor' = [etagFor EXCEPT ![c] = etagFor'[c]]
            /\ etagFor'[c].journey = req[c].journey
            /\ etag' = [etag EXCEPT ![c] = req[c].etag]
        BY <1>1, <2>4 DEF Saved, Loaded, LoadRefused, Remember
      <3>2. /\ bundle' = [bundle EXCEPT ![c] = bundle'[c]]
            /\ bundle'[c].journey = req[c].journey
        BY <1>1, <2>2, <2>4 DEF Saved, Loaded, LoadRefused, PanelInv, PanelTypeOK
      <3>3. QED
        BY <1>1, <2>1, <2>2, <3>1, <3>2
    <2>5. QED
      BY <1>8, <2>3, <2>4
  <1>9. ASSUME NEW c \in Clients, Handle(c), UNCHANGED panelVars
        PROVE  OneJourney'
    <2>1. /\ req[c].pc # "idle" /\ req' = [req EXCEPT ![c] = req'[c]]
          /\ req'[c].kind = req[c].kind /\ req'[c].journey = req[c].journey
      BY <1>9, HandleAnswers
    <2>2. QED
      BY <1>1, <1>9, <2>1 DEF panelVars
  <1>10. QED
    BY <1>2, <1>3, <1>4, <1>5, <1>6, <1>7, <1>8, <1>9 DEF PanelNext, Start, Import, DropBundle

(* After refused loads, lost answers and deletions, an update still names  *)
(* a revision of its own journey.                                          *)
THEOREM UpdatesNameTheirJourney == PanelSpec => []RevisionOfThisJourney
  <1>1. PanelInit => OneJourney
    BY DEF PanelInit, Init, OneJourney, Idle
  <1>2. OneJourney => RevisionOfThisJourney
    BY DEF OneJourney, RevisionOfThisJourney
  <1>3. QED
    BY <1>1, <1>2, InitPanelInv, NextPanelInv, NextOneJourney, PTL DEF PanelSpec
-----------------------------------------------------------------------------
(* AuditDispatcher, for any threads and keys and any size of the queue.    *)

Members(s) == {s[i] : i \in 1..Len(s)}
Once(s) == \A i, j \in 1..Len(s) : s[i] = s[j] => i = j

QueueShape ==
    /\ queue \in Seq(Nat) /\ Len(queue) <= QueueSize
    /\ queuedKeys \subseteq Keys /\ recent \subseteq Keys
    /\ emitted \in Seq(Keys \cup {None}) /\ Len(emitted) <= MaxEvents
    /\ deliveries \in [1..MaxEvents -> Nat]
    /\ evicted \subseteq Dispatcher!Events /\ suppressed \subseteq Dispatcher!Events
    /\ pc \in [Threads -> {"idle", "take", "clear", "flush", "send", "record"}]
    /\ mine \in [Threads -> Nat] /\ batch \in [Threads -> Seq(Nat)]

(* What waits, is flushed or is sent was emitted.                          *)
OnlyEmitted ==
    /\ Members(queue) \subseteq Dispatcher!Events
    /\ \A t \in Threads : /\ Members(batch[t]) \subseteq Dispatcher!Events
                          /\ pc[t] # "idle" => mine[t] \in Dispatcher!Events
    /\ \A e \in 1..MaxEvents : e > Len(emitted) => deliveries[e] = 0

(* A suppressed event is nowhere, and a key is recorded after its send.    *)
Withheld ==
    /\ \A e \in suppressed : /\ deliveries[e] = 0 /\ e \notin Members(queue)
                             /\ \A t \in Threads : e \notin Members(batch[t])
    /\ \A t \in Threads : pc[t] = "send" => mine[t] \notin suppressed
    /\ \A t \in Threads : pc[t] = "record" => deliveries[mine[t]] > 0

(* What thread t holds of the events that were not delivered yet.          *)
HoldsOnce(t) ==
    /\ pc[t] \notin {"clear", "flush"} => batch[t] = <<>>
    /\ pc[t] = "clear" => batch[t] = queue
    /\ pc[t] = "flush" => /\ Once(batch[t])
                          /\ \A e \in Members(batch[t]) : deliveries[e] = 0 /\ e \notin Members(queue)
    /\ pc[t] \in {"take", "clear", "flush", "send"} =>
          mine[t] \notin Members(queue) /\ mine[t] \notin Members(batch[t]) /\ deliveries[mine[t]] = 0

(* Until two emits overlap, an event waits in one place.                   *)
OnePlace ==
    ~overlapped =>
      /\ Once(queue) /\ \A e \in Members(queue) : deliveries[e] = 0
      /\ \A e \in Dispatcher!Events : deliveries[e] <= 1
      /\ \A t, u \in Threads : pc[t] # "idle" /\ pc[u] # "idle" => t = u
      /\ \A t \in Threads : HoldsOnce(t)

DInv == QueueShape /\ OnlyEmitted /\ Withheld /\ OnePlace /\ Dispatcher!DuplicateMeansDelivered

LEMMA MembersOf ==
  /\ Members(<<>>) = {}
  /\ \A s \in Seq(Nat), e \in Nat : Members(Append(s, e)) = Members(s) \cup {e}
  /\ \A s \in Seq(Nat) : s # <<>> => /\ Tail(s) \in Seq(Nat) /\ Head(s) \in Nat
                                     /\ Members(s) = Members(Tail(s)) \cup {Head(s)}
  <1>1. Members(<<>>) = {}
    BY DEF Members
  <1>2. ASSUME NEW s \in Seq(Nat), NEW e \in Nat PROVE Members(Append(s, e)) = Members(s) \cup {e}
    <2>1. /\ Len(Append(s, e)) = Len(s) + 1 /\ Append(s, e)[Len(s) + 1] = e
          /\ \A i \in 1..Len(s) : Append(s, e)[i] = s[i]
      OBVIOUS
    <2>2. 1..(Len(s) + 1) = 1..Len(s) \cup {Len(s) + 1}
      OBVIOUS
    <2>3. QED
      BY <2>1, <2>2 DEF Members
  <1>3. ASSUME NEW s \in Seq(Nat), s # <<>>
        PROVE  Tail(s) \in Seq(Nat) /\ Head(s) \in Nat /\ Members(s) = Members(Tail(s)) \cup {Head(s)}
    <2>1. /\ Tail(s) \in Seq(Nat) /\ Head(s) \in Nat /\ Head(s) = s[1] /\ Len(s) > 0 /\ Len(s) \in Nat
          /\ Len(Tail(s)) = Len(s) - 1 /\ \A i \in 1..(Len(s) - 1) : Tail(s)[i] = s[i + 1]
      BY <1>3
    <2>2. ASSUME NEW i \in 1..Len(s) PROVE s[i] \in Members(Tail(s)) \cup {Head(s)}
      <3>1. CASE i = 1
        BY <2>1, <3>1
      <3>2. CASE i # 1
        <4>1. i - 1 \in 1..(Len(s) - 1) /\ s[i] = Tail(s)[i - 1]
          BY <2>1, <3>2
        <4>2. QED
          BY <2>1, <4>1 DEF Members
      <3>3. QED
        BY <3>1, <3>2
    <2>3. ASSUME NEW i \in 1..Len(Tail(s)) PROVE Tail(s)[i] \in Members(s)
      BY <2>1 DEF Members
    <2>4. Head(s) \in Members(s)
      BY <2>1 DEF Members
    <2>5. QED
      BY <2>1, <2>2, <2>3, <2>4 DEF Members
  <1>4. QED
    BY <1>1, <1>2, <1>3

LEMMA OnceOf ==
  /\ Once(<<>>)
  /\ \A s \in Seq(Nat), e \in Nat : Once(s) /\ e \notin Members(s) => Once(Append(s, e))
  /\ \A s \in Seq(Nat) : Once(s) /\ s # <<>> => Once(Tail(s)) /\ Head(s) \notin Members(Tail(s))
  <1>1. Once(<<>>)
    BY DEF Once
  <1>2. ASSUME NEW s \in Seq(Nat), NEW e \in Nat, Once(s), e \notin Members(s) PROVE Once(Append(s, e))
    <2>1. /\ Len(Append(s, e)) = Len(s) + 1 /\ Append(s, e)[Len(s) + 1] = e
          /\ \A i \in 1..Len(s) : Append(s, e)[i] = s[i]
      OBVIOUS
    <2>2. \A i \in 1..Len(s) : s[i] # e
      BY <1>2 DEF Members
    <2>3. \A i \in 1..(Len(s) + 1) : i \in 1..Len(s) \/ i = Len(s) + 1
      OBVIOUS
    <2>4. QED
      BY <1>2, <2>1, <2>2, <2>3 DEF Once
  <1>3. ASSUME NEW s \in Seq(Nat), Once(s), s # <<>> PROVE Once(Tail(s)) /\ Head(s) \notin Members(Tail(s))
    <2>1. /\ Head(s) = s[1] /\ Len(s) > 0 /\ Len(s) \in Nat
          /\ Len(Tail(s)) = Len(s) - 1 /\ \A i \in 1..(Len(s) - 1) : Tail(s)[i] = s[i + 1]
      BY <1>3
    <2>2. ASSUME NEW i \in 1..(Len(s) - 1), NEW j \in 1..(Len(s) - 1), Tail(s)[i] = Tail(s)[j] PROVE i = j
      <3>1. i + 1 \in 1..Len(s) /\ j + 1 \in 1..Len(s) /\ s[i + 1] = s[j + 1]
        BY <2>1, <2>2
      <3>2. i + 1 = j + 1
        BY <1>3, <3>1 DEF Once
      <3>3. QED
        BY <3>2
    <2>3. ASSUME NEW i \in 1..(Len(s) - 1), Tail(s)[i] = Head(s) PROVE FALSE
      <3>1. i + 1 \in 1..Len(s) /\ 1 \in 1..Len(s) /\ s[i + 1] = s[1]
        BY <2>1, <2>3
      <3>2. i + 1 = 1
        BY <1>3, <3>1 DEF Once
      <3>3. QED
        BY <3>2
    <2>4. QED
      BY <2>1, <2>2, <2>3 DEF Once, Members
  <1>4. QED
    BY <1>1, <1>2, <1>3

LEMMA DispatcherStarts == Dispatcher!Init => DInv
  <1> SUFFICES ASSUME Dispatcher!Init PROVE DInv
    OBVIOUS
  <1> USE DEF Dispatcher!Init
  <1>1. MaxEvents \in Nat /\ QueueSize \in Nat
    BY BoundsAssumption DEF BoundsAssumption
  <1>2. QueueShape
    BY <1>1 DEF QueueShape
  <1>3. OnlyEmitted /\ Withheld /\ OnePlace
    BY <1>1, MembersOf, OnceOf DEF OnlyEmitted, Withheld, OnePlace, HoldsOnce, Dispatcher!Events
  <1>4. Dispatcher!DuplicateMeansDelivered
    BY DEF Dispatcher!DuplicateMeansDelivered
  <1>5. QED
    BY <1>2, <1>3, <1>4 DEF DInv

(* An event put into the queue stays in it or pushes the oldest out.       *)
LEMMA EnqueueKeeps ==
  ASSUME QueueShape, NEW e \in Dispatcher!Events, Dispatcher!Enqueue(e)
  PROVE  /\ queue' \in Seq(Nat) /\ Len(queue') <= QueueSize
         /\ Members(queue) \subseteq Dispatcher!Events => evicted' \subseteq Dispatcher!Events
         /\ queuedKeys' \subseteq Keys
         /\ Members(queue') \subseteq Members(queue) \cup {e}
         /\ (Once(queue) /\ e \notin Members(queue)) => Once(queue')
  <1> DEFINE longer == Append(queue, e)
  <1>1. QueueSize \in Nat
    BY BoundsAssumption DEF BoundsAssumption
  <1>2. /\ queue \in Seq(Nat) /\ Len(queue) \in Nat /\ Len(queue) <= QueueSize /\ queuedKeys \subseteq Keys
        /\ emitted \in Seq(Keys \cup {None}) /\ evicted \subseteq Dispatcher!Events /\ e \in Nat
    BY DEF QueueShape, Dispatcher!Events
  <1>3. Dispatcher!KeyOf(e) \in Keys \cup {None}
    BY <1>2 DEF Dispatcher!KeyOf, Dispatcher!Events
  <1>4. queuedKeys' \subseteq Keys
    BY <1>2, <1>3 DEF Dispatcher!Enqueue
  <1>5. /\ longer \in Seq(Nat) /\ longer # <<>> /\ Len(longer) = Len(queue) + 1
        /\ Members(longer) = Members(queue) \cup {e}
        /\ (Once(queue) /\ e \notin Members(queue)) => Once(longer)
    BY <1>2, MembersOf, OnceOf
  <1>6. /\ Tail(longer) \in Seq(Nat) /\ Len(Tail(longer)) = Len(queue)
        /\ Members(longer) = Members(Tail(longer)) \cup {Head(longer)}
        /\ Once(longer) => Once(Tail(longer))
    <2> HIDE DEF longer
    <2>1. Len(Tail(longer)) = Len(longer) - 1
      BY <1>5
    <2>2. QED
      BY <1>2, <1>5, <2>1, MembersOf, OnceOf
  <1>7. CASE Len(queue) = QueueSize
    <2>1. queue' = Tail(longer) /\ evicted' = evicted \cup {Head(longer)}
      BY <1>7 DEF Dispatcher!Enqueue
    <2> HIDE DEF longer
    <2>2. QED
      BY <1>2, <1>4, <1>5, <1>6, <1>7, <2>1
  <1>8. CASE Len(queue) # QueueSize
    <2>1. queue' = longer /\ evicted' = evicted
      BY <1>8 DEF Dispatcher!Enqueue
    <2> HIDE DEF longer
    <2>2. QED
      BY <1>1, <1>2, <1>4, <1>5, <1>8, <2>1
  <1>9. QED
    BY <1>7, <1>8

LEMMA EmitKeepsDInv ==
  ASSUME DInv, NEW t \in Threads, NEW k \in Keys \cup {None}, Dispatcher!Emit(t, k)
  PROVE  DInv'
  <1> DEFINE e == Len(emitted) + 1
  <1>0. /\ QueueShape /\ OnlyEmitted /\ Withheld /\ OnePlace /\ Dispatcher!DuplicateMeansDelivered
        /\ emitted \in Seq(Keys \cup {None}) /\ Len(emitted) \in Nat /\ MaxEvents \in Nat
    BY BoundsAssumption DEF DInv, QueueShape, BoundsAssumption
  <1>1. /\ pc[t] = "idle" /\ Len(emitted) < MaxEvents /\ emitted' = Append(emitted, k)
        /\ mine' = [mine EXCEPT ![t] = e]
        /\ overlapped' = (overlapped \/ \E u \in Threads : pc[u] # "idle")
        /\ suppressed' \in {suppressed, suppressed \cup {e}}
        /\ \E l \in {"idle", "take", "send"} : pc' = [pc EXCEPT ![t] = l] /\ (l = "send" => suppressed' = suppressed)
        /\ UNCHANGED <<queue, queuedKeys, recent, deliveries, evicted, batch>>
    BY DEF Dispatcher!Emit, Dispatcher!Goto, Dispatcher!shared
  <1>2. PICK l \in {"idle", "take", "send"} : pc' = [pc EXCEPT ![t] = l] /\ (l = "send" => suppressed' = suppressed)
    BY <1>1
  <1>3. /\ emitted' \in Seq(Keys \cup {None}) /\ Len(emitted') = e /\ \A i \in Dispatcher!Events : emitted'[i] = emitted[i]
        /\ Dispatcher!Events' = Dispatcher!Events \cup {e} /\ e \notin Dispatcher!Events /\ e \in Nat /\ e \in 1..MaxEvents
    BY <1>0, <1>1 DEF Dispatcher!Events
  <1> HIDE DEF e
  <1>4. /\ \A u \in Threads : u # t => pc'[u] = pc[u] /\ mine'[u] = mine[u]
        /\ pc'[t] = l /\ mine'[t] = e
    BY <1>0, <1>1, <1>2 DEF QueueShape
  <1>5. QueueShape'
    BY <1>0, <1>1, <1>2, <1>3 DEF QueueShape, e
  <1>6. deliveries[e] = 0 /\ e \notin Members(queue) /\ \A u \in Threads : e \notin Members(batch[u])
    BY <1>0, <1>3 DEF OnlyEmitted, e
  <1>7. OnlyEmitted'
    <2>1. \A u \in Threads : pc'[u] # "idle" => mine'[u] \in Dispatcher!Events'
      BY <1>0, <1>3, <1>4 DEF OnlyEmitted
    <2>2. \A i \in 1..MaxEvents : i > Len(emitted') => deliveries'[i] = 0
      BY <1>0, <1>1, <1>3 DEF OnlyEmitted, e
    <2>3. QED
      BY <1>0, <1>1, <1>3, <2>1, <2>2 DEF OnlyEmitted
  <1>8. Withheld'
    <2>1. \A u \in Threads : pc'[u] = "send" => mine'[u] \notin suppressed'
      <3>1. ASSUME NEW u \in Threads, pc'[u] = "send" PROVE mine'[u] \notin suppressed'
        <4>1. CASE u = t
          BY <1>0, <1>2, <1>3, <1>4, <3>1, <4>1 DEF QueueShape
        <4>2. CASE u # t
          BY <1>0, <1>1, <1>3, <1>4, <3>1, <4>2 DEF Withheld, OnlyEmitted
        <4>3. QED
          BY <4>1, <4>2
      <3>2. QED
        BY <3>1
    <2>2. \A u \in Threads : pc'[u] = "record" => deliveries'[mine'[u]] > 0
      BY <1>0, <1>1, <1>2, <1>4 DEF Withheld
    <2>3. QED
      BY <1>0, <1>1, <1>6, <2>1, <2>2 DEF Withheld
  <1>9. OnePlace'
    <2>1. ASSUME ~overlapped' PROVE /\ Once(queue) /\ \A i \in Members(queue) : deliveries[i] = 0
                                    /\ \A i \in Dispatcher!Events' : deliveries[i] <= 1
                                    /\ \A u, v \in Threads : pc'[u] # "idle" /\ pc'[v] # "idle" => u = v
                                    /\ \A u \in Threads : HoldsOnce(u)'
      <3>1. ~overlapped /\ \A u \in Threads : pc[u] = "idle"
        BY <1>1, <2>1
      <3>2. \A u, v \in Threads : pc'[u] # "idle" /\ pc'[v] # "idle" => u = v
        BY <1>4, <3>1
      <3>3. \A i \in Dispatcher!Events' : deliveries[i] <= 1
        BY <1>0, <1>3, <1>6, <3>1 DEF OnePlace
      <3>4. \A u \in Threads : batch[u] = <<>>
        BY <1>0, <3>1 DEF OnePlace, HoldsOnce
      <3>5. \A u \in Threads : HoldsOnce(u)'
        BY <1>1, <1>4, <1>6, <3>1, <3>4 DEF HoldsOnce
      <3>6. QED
        BY <1>0, <3>1, <3>2, <3>3, <3>5 DEF OnePlace
    <2>2. QED
      BY <1>1, <2>1 DEF OnePlace
  <1>10. Dispatcher!DuplicateMeansDelivered'
    <2>1. ASSUME NEW r \in recent' PROVE \E i \in Dispatcher!Events' : emitted'[i] = r /\ deliveries'[i] > 0
      <3>1. PICK i \in Dispatcher!Events : emitted[i] = r /\ deliveries[i] > 0
        BY <1>0, <1>1, <2>1 DEF Dispatcher!DuplicateMeansDelivered, Dispatcher!KeyOf
      <3>2. QED
        BY <1>1, <1>3, <3>1
    <2>2. QED
      BY <2>1 DEF Dispatcher!DuplicateMeansDelivered, Dispatcher!KeyOf
  <1>11. QED
    BY <1>5, <1>7, <1>8, <1>9, <1>10 DEF DInv

(* Steps between the sends.                                                *)
LEMMA QuietKeepsDInv ==
  ASSUME DInv, NEW t \in Threads,
         Dispatcher!TakePending(t) \/ Dispatcher!ClearQueue(t) \/ Dispatcher!EndFlush(t)
  PROVE  DInv'
  <1>0. /\ QueueShape /\ OnlyEmitted /\ Withheld /\ OnePlace /\ Dispatcher!DuplicateMeansDelivered
    BY DEF DInv
  <1>1. UNCHANGED <<queuedKeys, recent, emitted, deliveries, evicted, suppressed, mine, overlapped>>
    BY DEF Dispatcher!TakePending, Dispatcher!ClearQueue, Dispatcher!EndFlush, Dispatcher!shared, Dispatcher!history,
           Dispatcher!own
  <1>2. pc[t] # "idle" /\ (\A u \in Threads : u # t => pc'[u] = pc[u] /\ batch'[u] = batch[u])
    BY <1>0 DEF QueueShape, Dispatcher!TakePending, Dispatcher!ClearQueue, Dispatcher!EndFlush, Dispatcher!Goto
  <1>3. \/ pc[t] = "take" /\ pc'[t] = "clear" /\ batch'[t] = queue /\ queue' = queue
        \/ pc[t] = "clear" /\ pc'[t] = "flush" /\ batch'[t] = batch[t] /\ queue' = <<>>
        \/ /\ pc[t] = "flush" /\ batch[t] = <<>> /\ batch'[t] = batch[t] /\ queue' = queue
           /\ pc'[t] \in {"idle", "send"} /\ (pc'[t] = "send" => mine[t] \notin suppressed)
    BY <1>0 DEF QueueShape, Dispatcher!TakePending, Dispatcher!ClearQueue, Dispatcher!EndFlush, Dispatcher!Goto,
                Dispatcher!shared
  <1>4. QueueShape'
    <2>1. pc' \in [Threads -> {"idle", "take", "clear", "flush", "send", "record"}]
      BY <1>0 DEF QueueShape, Dispatcher!TakePending, Dispatcher!ClearQueue, Dispatcher!EndFlush, Dispatcher!Goto
    <2>2. batch' \in [Threads -> Seq(Nat)]
      BY <1>0 DEF QueueShape, Dispatcher!TakePending, Dispatcher!ClearQueue, Dispatcher!EndFlush
    <2>3. queue' \in Seq(Nat) /\ Len(queue') <= QueueSize
      <3>1. queue' = queue \/ queue' = <<>>
        BY <1>3
      <3>2. QueueSize \in Nat /\ Len(<<>>) = 0 /\ <<>> \in Seq(Nat)
        BY BoundsAssumption DEF BoundsAssumption
      <3>3. QED
        <4>1. CASE queue' = queue
          BY <1>0, <4>1 DEF QueueShape
        <4>2. CASE queue' = <<>>
          BY <3>2, <4>2
        <4>3. QED
          BY <3>1, <4>1, <4>2
    <2>4. QED
      BY <1>0, <1>1, <2>1, <2>2, <2>3 DEF QueueShape, Dispatcher!Events
  <1>5. Members(queue') \subseteq Members(queue) /\ Members(batch'[t]) \subseteq Members(batch[t]) \cup Members(queue)
    BY <1>3, MembersOf
  <1>6. OnlyEmitted'
    BY <1>0, <1>1, <1>2, <1>5 DEF OnlyEmitted, Dispatcher!Events
  <1>7. Withheld'
    BY <1>0, <1>1, <1>2, <1>3, <1>5 DEF Withheld
  <1>8. OnePlace'
    <2>1. ASSUME ~overlapped
          PROVE  /\ Once(queue') /\ \A e \in Members(queue') : deliveries[e] = 0
                 /\ \A u, v \in Threads : pc'[u] # "idle" /\ pc'[v] # "idle" => u = v
                 /\ \A u \in Threads : HoldsOnce(u)'
      <3>1. \A u \in Threads : u # t => pc[u] = "idle" /\ pc'[u] = "idle" /\ batch[u] = <<>>
        BY <1>0, <1>2, <2>1 DEF OnePlace, HoldsOnce
      <3>2. ASSUME NEW u \in Threads, u # t PROVE HoldsOnce(u)'
        BY <1>2, <3>1, <3>2 DEF HoldsOnce
      <3>3. HoldsOnce(t)'
        BY <1>0, <1>1, <1>3, <2>1, MembersOf DEF OnePlace, HoldsOnce
      <3>4. Once(queue') /\ \A e \in Members(queue') : deliveries[e] = 0
        BY <1>0, <1>3, <1>5, <2>1, OnceOf DEF OnePlace
      <3>5. QED
        BY <1>2, <3>1, <3>2, <3>3, <3>4
    <2>2. QED
      BY <1>0, <1>1, <2>1 DEF OnePlace, Dispatcher!Events
  <1>9. Dispatcher!DuplicateMeansDelivered'
    BY <1>0, <1>1 DEF Dispatcher!DuplicateMeansDelivered, Dispatcher!Events, Dispatcher!KeyOf
  <1>10. QED
    BY <1>4, <1>6, <1>7, <1>8, <1>9 DEF DInv

(* One more delivery of an event.                                          *)
LEMMA DeliveredOnceMore ==
  ASSUME QueueShape, NEW e \in Dispatcher!Events, Dispatcher!Delivered(e)
  PROVE  /\ deliveries' \in [1..MaxEvents -> Nat] /\ deliveries'[e] = deliveries[e] + 1
         /\ \A i \in 1..MaxEvents : i # e => deliveries'[i] = deliveries[i]
         /\ e \in 1..MaxEvents /\ e \in Nat /\ e <= Len(emitted) /\ deliveries[e] \in Nat
         /\ Dispatcher!Events \subseteq 1..MaxEvents
  <1>1. MaxEvents \in Nat /\ Len(emitted) \in Nat /\ Len(emitted) <= MaxEvents
        /\ deliveries \in [1..MaxEvents -> Nat]
    BY BoundsAssumption DEF QueueShape, BoundsAssumption
  <1>2. e \in 1..MaxEvents /\ e \in Nat /\ e <= Len(emitted) /\ Dispatcher!Events \subseteq 1..MaxEvents
    BY <1>1 DEF Dispatcher!Events
  <1>3. QED
    BY <1>1, <1>2 DEF Dispatcher!Delivered

LEMMA SendKeepsDInv ==
  ASSUME DInv, NEW t \in Threads, Dispatcher!Send(t)
  PROVE  DInv'
  <1> DEFINE e == mine[t]
  <1>0. /\ QueueShape /\ OnlyEmitted /\ Withheld /\ OnePlace /\ Dispatcher!DuplicateMeansDelivered
    BY DEF DInv
  <1>1. /\ pc[t] = "send" /\ e \in Dispatcher!Events /\ e \notin suppressed
        /\ UNCHANGED <<recent, emitted, suppressed, mine, overlapped, batch>>
    BY <1>0 DEF Dispatcher!Send, Dispatcher!own, OnlyEmitted, Withheld
  <1>2. Dispatcher!Events' = Dispatcher!Events
    BY <1>1 DEF Dispatcher!Events
  <1>3. ASSUME ~overlapped
        PROVE  /\ \A u \in Threads : u # t => pc[u] = "idle" /\ batch[u] = <<>>
               /\ batch[t] = <<>> /\ e \notin Members(queue) /\ deliveries[e] = 0
    BY <1>0, <1>1, <1>3 DEF OnePlace, HoldsOnce
  <1>4. CASE Dispatcher!Delivered(e) /\ Dispatcher!Goto(t, "record") /\ UNCHANGED <<queue, queuedKeys, evicted>>
    <2>1. /\ deliveries' \in [1..MaxEvents -> Nat] /\ deliveries'[e] = deliveries[e] + 1
          /\ \A i \in 1..MaxEvents : i # e => deliveries'[i] = deliveries[i]
          /\ e \in 1..MaxEvents /\ e \in Nat /\ e <= Len(emitted) /\ deliveries[e] \in Nat
          /\ Dispatcher!Events \subseteq 1..MaxEvents
      BY <1>0, <1>1, <1>4, DeliveredOnceMore
    <2> HIDE DEF e
    <2>2. /\ pc' \in [Threads -> {"idle", "take", "clear", "flush", "send", "record"}]
          /\ pc'[t] = "record" /\ \A u \in Threads : u # t => pc'[u] = pc[u]
      BY <1>0, <1>4 DEF QueueShape, Dispatcher!Goto
    <2>3. ASSUME NEW i \in 1..MaxEvents
          PROVE  deliveries'[i] >= deliveries[i] /\ deliveries[i] \in Nat /\ deliveries'[i] \in Nat
      <3>1. deliveries[i] \in Nat /\ deliveries'[i] \in Nat
        BY <1>0, <2>1 DEF QueueShape
      <3>2. CASE i = e
        BY <2>1, <3>1, <3>2
      <3>3. CASE i # e
        BY <2>1, <3>1, <3>3
      <3>4. QED
        BY <3>1, <3>2, <3>3
    <2>4. QueueShape'
      BY <1>0, <1>1, <1>2, <1>4, <2>1, <2>2 DEF QueueShape
    <2>5. OnlyEmitted'
      <3>1. \A i \in 1..MaxEvents : i > Len(emitted) => deliveries'[i] = 0
        BY <1>0, <2>1 DEF OnlyEmitted, QueueShape
      <3>2. \A u \in Threads : pc'[u] # "idle" => mine[u] \in Dispatcher!Events
        BY <1>0, <1>1, <2>2 DEF OnlyEmitted, e
      <3>3. QED
        BY <1>0, <1>1, <1>2, <1>4, <3>1, <3>2 DEF OnlyEmitted
    <2>6. Withheld'
      <3>1. \A i \in suppressed : deliveries'[i] = 0
        BY <1>0, <1>1, <2>1 DEF Withheld, QueueShape
      <3>2. \A u \in Threads : pc'[u] = "record" => deliveries'[mine[u]] > 0
        <4>1. deliveries'[mine[t]] > 0
          BY <2>1 DEF e
        <4>2. ASSUME NEW u \in Threads, u # t, pc[u] = "record" PROVE deliveries'[mine[u]] > 0
          <5>1. mine[u] \in 1..MaxEvents /\ deliveries[mine[u]] > 0
            BY <1>0, <2>1, <4>2 DEF OnlyEmitted, Withheld
          <5>2. QED
            BY <2>3, <5>1
        <4>3. QED
          BY <2>2, <4>1, <4>2
      <3>3. QED
        BY <1>0, <1>1, <1>4, <2>2, <3>1, <3>2 DEF Withheld
    <2>7. OnePlace'
      <3>1. ASSUME ~overlapped
            PROVE  /\ \A i \in Members(queue) : deliveries'[i] = 0
                   /\ \A i \in Dispatcher!Events : deliveries'[i] <= 1
                   /\ \A u, v \in Threads : pc'[u] # "idle" /\ pc'[v] # "idle" => u = v
                   /\ \A u \in Threads : HoldsOnce(u)'
        <4>1. \A i \in Members(queue) : deliveries'[i] = 0
          BY <1>0, <1>3, <2>1, <3>1 DEF OnePlace, OnlyEmitted, e
        <4>2. \A i \in Dispatcher!Events : deliveries'[i] <= 1
          BY <1>0, <1>3, <2>1, <3>1 DEF OnePlace, e
        <4>3. \A u \in Threads : HoldsOnce(u)'
          BY <1>1, <1>3, <2>2, <3>1 DEF HoldsOnce
        <4>4. QED
          BY <1>3, <2>2, <3>1, <4>1, <4>2, <4>3
      <3>2. QED
        BY <1>0, <1>1, <1>2, <1>4, <3>1 DEF OnePlace
    <2>8. Dispatcher!DuplicateMeansDelivered'
      <3>1. ASSUME NEW k \in recent
            PROVE  \E i \in Dispatcher!Events : emitted[i] = k /\ deliveries'[i] > 0
        <4>1. PICK i \in Dispatcher!Events : emitted[i] = k /\ deliveries[i] > 0
          BY <1>0 DEF Dispatcher!DuplicateMeansDelivered, Dispatcher!KeyOf
        <4>2. deliveries'[i] > 0
          BY <2>1, <2>3, <4>1
        <4>3. QED
          BY <4>1, <4>2
      <3>2. QED
        BY <1>1, <3>1 DEF Dispatcher!DuplicateMeansDelivered, Dispatcher!KeyOf, Dispatcher!Events
    <2>9. QED
      BY <2>4, <2>5, <2>6, <2>7, <2>8 DEF DInv
  <1>5. CASE Dispatcher!Enqueue(e) /\ Dispatcher!Goto(t, "idle") /\ UNCHANGED deliveries
    <2>1. /\ queue' \in Seq(Nat) /\ Len(queue') <= QueueSize
          /\ evicted' \subseteq Dispatcher!Events /\ queuedKeys' \subseteq Keys
          /\ Members(queue') \subseteq Members(queue) \cup {e}
          /\ (Once(queue) /\ e \notin Members(queue)) => Once(queue')
      BY <1>0, <1>1, <1>5, EnqueueKeeps DEF OnlyEmitted
    <2> HIDE DEF e
    <2>2. /\ pc' \in [Threads -> {"idle", "take", "clear", "flush", "send", "record"}]
          /\ pc'[t] = "idle" /\ \A u \in Threads : u # t => pc'[u] = pc[u]
      BY <1>0, <1>5 DEF QueueShape, Dispatcher!Goto
    <2>3. QueueShape'
      BY <1>0, <1>1, <1>2, <1>5, <2>1, <2>2 DEF QueueShape
    <2>4. OnlyEmitted'
      BY <1>0, <1>1, <1>2, <1>5, <2>1, <2>2 DEF OnlyEmitted
    <2>5. Withheld'
      BY <1>0, <1>1, <1>5, <2>1, <2>2 DEF Withheld
    <2>6. OnePlace'
      <3>1. ASSUME ~overlapped
            PROVE  /\ Once(queue') /\ \A i \in Members(queue') : deliveries[i] = 0
                   /\ \A u, v \in Threads : pc'[u] # "idle" /\ pc'[v] # "idle" => u = v
                   /\ \A u \in Threads : HoldsOnce(u)'
        <4>1. Once(queue') /\ \A i \in Members(queue') : deliveries[i] = 0
          BY <1>0, <1>3, <2>1, <3>1 DEF OnePlace, e
        <4>2. \A u \in Threads : HoldsOnce(u)'
          BY <1>1, <1>3, <2>2, <3>1 DEF HoldsOnce
        <4>3. QED
          BY <1>3, <2>2, <3>1, <4>1, <4>2
      <3>2. QED
        BY <1>0, <1>1, <1>2, <1>5, <3>1 DEF OnePlace
    <2>7. Dispatcher!DuplicateMeansDelivered'
      BY <1>0, <1>1, <1>2, <1>5 DEF Dispatcher!DuplicateMeansDelivered, Dispatcher!KeyOf
    <2>8. QED
      BY <2>3, <2>4, <2>5, <2>6, <2>7 DEF DInv
  <1>6. QED
    BY <1>4, <1>5 DEF Dispatcher!Send

LEMMA SendQueuedKeepsDInv ==
  ASSUME DInv, NEW t \in Threads, Dispatcher!SendQueued(t)
  PROVE  DInv'
  <1> DEFINE e == Head(batch[t])
  <1>0. /\ QueueShape /\ OnlyEmitted /\ Withheld /\ OnePlace /\ Dispatcher!DuplicateMeansDelivered
    BY DEF DInv
  <1>1. /\ pc[t] = "flush" /\ batch[t] # <<>> /\ batch[t] \in Seq(Nat)
        /\ UNCHANGED <<recent, emitted, suppressed, pc, mine, overlapped>>
    BY <1>0 DEF Dispatcher!SendQueued, Dispatcher!own, QueueShape
  <1>2. Dispatcher!Events' = Dispatcher!Events
    BY <1>1 DEF Dispatcher!Events
  <1>3. Tail(batch[t]) \in Seq(Nat) /\ e \in Nat /\ Members(batch[t]) = Members(Tail(batch[t])) \cup {e}
    BY <1>1, MembersOf
  <1>4. e \in Dispatcher!Events /\ e \notin suppressed
    BY <1>0, <1>3 DEF OnlyEmitted, Withheld
  <1>5. ASSUME ~overlapped
        PROVE  /\ \A u \in Threads : u # t => pc[u] = "idle" /\ batch[u] = <<>>
               /\ Once(Tail(batch[t])) /\ e \notin Members(Tail(batch[t]))
               /\ \A i \in Members(batch[t]) : deliveries[i] = 0 /\ i \notin Members(queue)
               /\ mine[t] \notin Members(queue) /\ mine[t] \notin Members(batch[t]) /\ deliveries[mine[t]] = 0
    BY <1>0, <1>1, <1>5, OnceOf DEF OnePlace, HoldsOnce
  <1>6. CASE Dispatcher!Delivered(e) /\ queuedKeys' = queuedKeys \ {Dispatcher!KeyOf(e)}
             /\ batch' = [batch EXCEPT ![t] = Tail(@)] /\ UNCHANGED <<queue, evicted>>
    <2>1. /\ deliveries' \in [1..MaxEvents -> Nat] /\ deliveries'[e] = deliveries[e] + 1
          /\ \A i \in 1..MaxEvents : i # e => deliveries'[i] = deliveries[i]
          /\ e \in 1..MaxEvents /\ e \in Nat /\ e <= Len(emitted) /\ deliveries[e] \in Nat
          /\ Dispatcher!Events \subseteq 1..MaxEvents
      BY <1>0, <1>4, <1>6, DeliveredOnceMore
    <2>2. /\ batch' \in [Threads -> Seq(Nat)] /\ batch'[t] = Tail(batch[t])
          /\ \A u \in Threads : u # t => batch'[u] = batch[u]
      BY <1>0, <1>3, <1>6 DEF QueueShape
    <2> HIDE DEF e
    <2>3. ASSUME NEW i \in 1..MaxEvents
          PROVE  deliveries'[i] >= deliveries[i] /\ deliveries[i] \in Nat /\ deliveries'[i] \in Nat
      <3>1. deliveries[i] \in Nat /\ deliveries'[i] \in Nat
        BY <1>0, <2>1 DEF QueueShape
      <3>2. CASE i = e
        BY <2>1, <3>1, <3>2
      <3>3. CASE i # e
        BY <2>1, <3>1, <3>3
      <3>4. QED
        BY <3>1, <3>2, <3>3
    <2>4. \A u \in Threads : Members(batch'[u]) \subseteq Members(batch[u])
      BY <1>3, <2>2
    <2>5. QueueShape'
      BY <1>0, <1>1, <1>2, <1>6, <2>1, <2>2 DEF QueueShape
    <2>6. OnlyEmitted'
      <3>1. \A i \in 1..MaxEvents : i > Len(emitted) => deliveries'[i] = 0
        BY <1>0, <2>1 DEF OnlyEmitted, QueueShape
      <3>2. QED
        BY <1>0, <1>1, <1>2, <1>6, <2>4, <3>1 DEF OnlyEmitted
    <2>7. Withheld'
      <3>1. \A i \in suppressed : deliveries'[i] = 0
        BY <1>0, <1>4, <2>1 DEF Withheld, QueueShape
      <3>2. ASSUME NEW u \in Threads, pc[u] = "record" PROVE deliveries'[mine[u]] > 0
        <4>1. mine[u] \in 1..MaxEvents /\ deliveries[mine[u]] > 0
          BY <1>0, <2>1, <3>2 DEF OnlyEmitted, Withheld
        <4>2. QED
          BY <2>3, <4>1
      <3>3. QED
        BY <1>0, <1>1, <1>6, <2>4, <3>1, <3>2 DEF Withheld
    <2>8. OnePlace'
      <3>1. ASSUME ~overlapped
            PROVE  /\ \A i \in Members(queue) : deliveries'[i] = 0
                   /\ \A i \in Dispatcher!Events : deliveries'[i] <= 1
                   /\ \A u \in Threads : HoldsOnce(u)'
        <4>1. e \notin Members(queue) /\ deliveries[e] = 0 /\ e # mine[t]
          BY <1>3, <1>5, <3>1
        <4>2. \A i \in Members(queue) : deliveries'[i] = 0
          BY <1>0, <2>1, <3>1, <4>1 DEF OnePlace, OnlyEmitted
        <4>3. \A i \in Dispatcher!Events : deliveries'[i] <= 1
          BY <1>0, <2>1, <3>1, <4>1 DEF OnePlace
        <4>4. ASSUME NEW u \in Threads, u # t PROVE HoldsOnce(u)'
          BY <1>1, <1>5, <2>2, <3>1, <4>4 DEF HoldsOnce
        <4>5. HoldsOnce(t)'
          <5>1. Members(Tail(batch[t])) \subseteq 1..MaxEvents
            BY <1>0, <1>3, <2>1 DEF OnlyEmitted
          <5>2. \A i \in Members(Tail(batch[t])) : deliveries'[i] = 0 /\ i \notin Members(queue)
            BY <1>3, <1>5, <2>1, <3>1, <5>1
          <5>3. mine[t] \in 1..MaxEvents /\ deliveries'[mine[t]] = 0
            BY <1>0, <1>1, <1>5, <2>1, <3>1, <4>1 DEF OnlyEmitted
          <5>4. mine[t] \notin Members(queue) /\ mine[t] \notin Members(Tail(batch[t])) /\ Once(Tail(batch[t]))
            BY <1>3, <1>5, <3>1
          <5>5. QED
            BY <1>1, <1>6, <2>2, <5>2, <5>3, <5>4 DEF HoldsOnce
        <4>6. QED
          BY <4>2, <4>3, <4>4, <4>5
      <3>2. QED
        BY <1>0, <1>1, <1>2, <1>6, <3>1 DEF OnePlace
    <2>9. Dispatcher!DuplicateMeansDelivered'
      <3>1. ASSUME NEW r \in recent PROVE \E i \in Dispatcher!Events : emitted[i] = r /\ deliveries'[i] > 0
        <4>1. PICK i \in Dispatcher!Events : emitted[i] = r /\ deliveries[i] > 0
          BY <1>0, <3>1 DEF Dispatcher!DuplicateMeansDelivered, Dispatcher!KeyOf
        <4>2. QED
          BY <2>1, <2>3, <4>1
      <3>2. QED
        BY <1>1, <1>2, <3>1 DEF Dispatcher!DuplicateMeansDelivered, Dispatcher!KeyOf
    <2>10. QED
      BY <2>5, <2>6, <2>7, <2>8, <2>9 DEF DInv
  <1>7. CASE Dispatcher!Enqueue(e) /\ batch' = [batch EXCEPT ![t] = <<>>] /\ UNCHANGED deliveries
    <2>1. /\ queue' \in Seq(Nat) /\ Len(queue') <= QueueSize
          /\ evicted' \subseteq Dispatcher!Events /\ queuedKeys' \subseteq Keys
          /\ Members(queue') \subseteq Members(queue) \cup {e}
          /\ (Once(queue) /\ e \notin Members(queue)) => Once(queue')
      BY <1>0, <1>4, <1>7, EnqueueKeeps DEF OnlyEmitted
    <2>2. /\ batch' \in [Threads -> Seq(Nat)] /\ batch'[t] = <<>> /\ Members(batch'[t]) = {}
          /\ \A u \in Threads : u # t => batch'[u] = batch[u]
      BY <1>0, <1>7, MembersOf DEF QueueShape
    <2> HIDE DEF e
    <2>3. QueueShape'
      BY <1>0, <1>1, <1>2, <1>7, <2>1, <2>2 DEF QueueShape
    <2>4. OnlyEmitted'
      BY <1>0, <1>1, <1>2, <1>4, <1>7, <2>1, <2>2 DEF OnlyEmitted
    <2>5. Withheld'
      BY <1>0, <1>1, <1>4, <1>7, <2>1, <2>2 DEF Withheld
    <2>6. OnePlace'
      <3>1. ASSUME ~overlapped
            PROVE  /\ Once(queue') /\ \A i \in Members(queue') : deliveries[i] = 0
                   /\ \A u \in Threads : HoldsOnce(u)'
        <4>1. e \notin Members(queue) /\ deliveries[e] = 0 /\ e # mine[t]
          BY <1>3, <1>5, <3>1
        <4>2. Once(queue') /\ \A i \in Members(queue') : deliveries[i] = 0
          BY <1>0, <2>1, <3>1, <4>1 DEF OnePlace
        <4>3. ASSUME NEW u \in Threads, u # t PROVE HoldsOnce(u)'
          BY <1>1, <1>5, <2>2, <3>1, <4>3 DEF HoldsOnce
        <4>4. HoldsOnce(t)'
          BY <1>1, <1>5, <1>7, <2>1, <2>2, <3>1, <4>1, OnceOf DEF HoldsOnce
        <4>5. QED
          BY <4>2, <4>3, <4>4
      <3>2. QED
        BY <1>0, <1>1, <1>2, <1>7, <3>1 DEF OnePlace
    <2>7. Dispatcher!DuplicateMeansDelivered'
      BY <1>0, <1>1, <1>2, <1>7 DEF Dispatcher!DuplicateMeansDelivered, Dispatcher!KeyOf
    <2>8. QED
      BY <2>3, <2>4, <2>5, <2>6, <2>7 DEF DInv
  <1>8. QED
    BY <1>6, <1>7 DEF Dispatcher!SendQueued

LEMMA RecordKeepsDInv ==
  ASSUME DInv, NEW t \in Threads, Dispatcher!Record(t)
  PROVE  DInv'
  <1>0. /\ QueueShape /\ OnlyEmitted /\ Withheld /\ OnePlace /\ Dispatcher!DuplicateMeansDelivered
    BY DEF DInv
  <1>1. /\ pc[t] = "record" /\ mine[t] \in Dispatcher!Events /\ deliveries[mine[t]] > 0
        /\ UNCHANGED <<queue, queuedKeys, emitted, deliveries, evicted, suppressed, mine, overlapped, batch>>
        /\ recent' \subseteq recent \cup {emitted[mine[t]]} /\ (recent' # recent => emitted[mine[t]] # None)
    BY <1>0 DEF Dispatcher!Record, Dispatcher!own, Dispatcher!history, Dispatcher!KeyOf, OnlyEmitted, Withheld
  <1>2. Dispatcher!Events' = Dispatcher!Events
    BY <1>1 DEF Dispatcher!Events
  <1>3. /\ pc' \in [Threads -> {"idle", "take", "clear", "flush", "send", "record"}]
        /\ pc'[t] = "idle" /\ \A u \in Threads : u # t => pc'[u] = pc[u]
    BY <1>0 DEF QueueShape, Dispatcher!Record, Dispatcher!Goto
  <1>4. recent' \subseteq Keys
    <2>1. emitted[mine[t]] \in Keys \cup {None}
      BY <1>0, <1>1 DEF QueueShape, Dispatcher!Events
    <2>2. QED
      BY <1>0, <1>1, <2>1 DEF QueueShape
  <1>5. QueueShape'
    BY <1>0, <1>1, <1>2, <1>3, <1>4 DEF QueueShape
  <1>6. OnlyEmitted' /\ Withheld'
    BY <1>0, <1>1, <1>2, <1>3 DEF OnlyEmitted, Withheld
  <1>7. OnePlace'
    <2>1. ASSUME NEW u \in Threads, HoldsOnce(u) PROVE HoldsOnce(u)'
      BY <1>1, <1>3, <2>1 DEF HoldsOnce
    <2>2. QED
      BY <1>0, <1>1, <1>2, <1>3, <2>1 DEF OnePlace
  <1>8. Dispatcher!DuplicateMeansDelivered'
    BY <1>0, <1>1, <1>2 DEF Dispatcher!DuplicateMeansDelivered, Dispatcher!KeyOf
  <1>9. QED
    BY <1>5, <1>6, <1>7, <1>8 DEF DInv

LEMMA NextDInv == DInv /\ [Dispatcher!Next]_(Dispatcher!vars) => DInv'
  <1> SUFFICES ASSUME DInv, [Dispatcher!Next]_(Dispatcher!vars) PROVE DInv'
    OBVIOUS
  <1>1. ASSUME NEW t \in Threads, Dispatcher!Step(t) PROVE DInv'
    BY <1>1, EmitKeepsDInv, QuietKeepsDInv, SendKeepsDInv, SendQueuedKeepsDInv, RecordKeepsDInv DEF Dispatcher!Step
  <1>2. ASSUME NEW k \in Keys, Dispatcher!Expire(k) PROVE DInv'
    <2>1. /\ recent' \subseteq recent
          /\ UNCHANGED <<queue, queuedKeys, emitted, deliveries, evicted, suppressed, pc, mine, overlapped, batch>>
      BY <1>2 DEF Dispatcher!Expire, Dispatcher!history, Dispatcher!own
    <2>2. QueueShape' /\ OnlyEmitted' /\ Withheld'
      BY <2>1 DEF DInv, QueueShape, OnlyEmitted, Withheld, Dispatcher!Events
    <2>3. OnePlace' /\ Dispatcher!DuplicateMeansDelivered'
      BY <2>1 DEF DInv, OnePlace, HoldsOnce, Dispatcher!DuplicateMeansDelivered, Dispatcher!Events, Dispatcher!KeyOf
    <2>4. QED
      BY <2>2, <2>3 DEF DInv
  <1>3. CASE UNCHANGED Dispatcher!vars
    BY <1>3 DEF Dispatcher!vars, DInv, QueueShape, OnlyEmitted, Withheld, OnePlace, HoldsOnce,
                Dispatcher!DuplicateMeansDelivered, Dispatcher!Events, Dispatcher!KeyOf
  <1>4. QED
    BY <1>1, <1>2, <1>3 DEF Dispatcher!Next

(* AuditDispatcher: for any number of threads, keys and events the queue   *)
(* is bounded, a duplicate stands for an event that arrived, nothing that  *)
(* was suppressed is sent, and without overlapping emits nothing is sent   *)
(* twice.                                                                  *)
THEOREM DispatcherHolds == Dispatcher!Spec => []DispatcherInvariant
  <1>1. DInv => DispatcherInvariant
    BY DEF DInv, DispatcherInvariant, Dispatcher!TypeOK, QueueShape, OnePlace, Withheld, Dispatcher!DeliveredOnce,
           Dispatcher!SuppressedNotSent
  <1>2. QED
    BY <1>1, DispatcherStarts, NextDInv, PTL DEF Dispatcher!Spec

-----------------------------------------------------------------------------
(* AgentExchange.  What may be in its variables.                           *)

Refs == (0..MaxSteps) \X {"p1", "p2", "none"}

Option == (SUBSET Cards) \X BOOLEAN \X BOOLEAN

Sheet == [task : 0..MaxSteps, doc : DocIds, stamp : Nat, cards : SUBSET Cards,
          shown : SUBSET Cards, asked : SUBSET Option]

Document == [id : DocIds, stamp : Nat, cards : SUBSET Cards, work : Seq(Refs)]

Listed == [key : Refs, audited : BOOLEAN, doc : DocIds, bundle : Sheet,
           status : {"pending", "adopted", "rejected"}, orphaned : BOOLEAN, mismatch : BOOLEAN]

ExportCall == [op : {"export", "registered"}, task : Sheet]

ParseCall == [op : {"parse"}, n : Nat, echo : [some : BOOLEAN, of : Sheet],
              left : SUBSET {"p1", "p2"}, docId : DocIds, list : Seq(Listed)]

DecisionCall == [op : {"adopt", "reject"}, n : Nat, key : Refs, doc : Document,
                 readOnly : BOOLEAN, review : Listed]

AgentTypes ==
    /\ doc \in Document /\ past \in Seq(Document) /\ stored \in [DocIds -> Nat]
    /\ scope \in [cards : SUBSET Cards, safe : BOOLEAN, drafts : BOOLEAN,
                  confirmed : SUBSET Option]
    /\ readOnly \in BOOLEAN
    /\ tasks \subseteq Sheet /\ sheets \subseteq tasks
    /\ ledger \in Seq(Sheet) /\ Len(ledger) <= LedgerLimit
    /\ \A i \in DOMAIN ledger : ledger[i] \in sheets
    /\ reviews \in Seq(Listed)
    /\ calls \subseteq ExportCall \cup ParseCall \cup DecisionCall
    /\ proposed \subseteq [doc : DocIds, key : Refs]
    /\ decided \subseteq [doc : DocIds, key : Refs, as : {"adopt", "reject"}]
    /\ steps \in 0..MaxSteps /\ seen \subseteq Refs

Exports == {c \in calls : c.op \in {"export", "registered"}}
Parses == {c \in calls : c.op = "parse"}
Decisions == {c \in calls : c.op \in {"adopt", "reject"}}

(* A task number is given once, and a sheet shows what was asked for.      *)
Known == tasks \cup {c.task : c \in Exports}

Shows(t) ==
    \A option \in t.asked :
        \/ t.shown \subseteq Agent!Exposed(option[1], option[2], option[3])
        \/ <<"unconfirmed", Agent!Key(t.task, "none")>> \in strays

TasksApart ==
    /\ \A t \in Known : (t.task < steps \/ t.task = MaxSteps) /\ Shows(t)
    /\ \A t, u \in Known : t.task = u.task => t = u
    /\ \A c \in calls : c.op = "registered" => c.task \in tasks

(* What a response under way will list.                                    *)
Apart(list) == \A i, j \in DOMAIN list : list[i].key = list[j].key => i = j

Correlated(c) ==
    /\ c.echo.some => c.echo.of \in sheets /\ c.echo.of.doc = c.docId
    /\ \A i \in DOMAIN c.list :
         LET r == c.list[i]
         IN  /\ r.status = "pending" /\ r.audited = c.echo.some
             /\ r.bundle = c.echo.of /\ r.doc = c.docId
    /\ Apart(c.list)

(* One response after the other lists nothing twice.                       *)
Single ==
    <<"parsed twice", Agent!NoKey>> \in strays \/
        /\ Apart(reviews)
        /\ \A c, d \in Parses : c = d
        /\ \A c \in Parses : \A i \in DOMAIN c.list, j \in DOMAIN reviews :
              c.list[i].key # reviews[j].key

ReviewsAnswer ==
    /\ \A c \in Parses : Correlated(c)
    /\ \A i \in DOMAIN reviews :
         /\ reviews[i].key \in seen
         /\ reviews[i].audited => /\ reviews[i].bundle \in sheets
                                  /\ reviews[i].bundle.doc = reviews[i].doc

(* The server decides a proposal of one document, once.                    *)
DecidedOnce ==
    /\ \A x \in proposed : \E t \in tasks : x.key[1] = t.task /\ x.doc = t.doc
    /\ \A e \in decided : [doc |-> e.doc, key |-> e.key] \in proposed /\ e.key \in seen
    /\ \A e, f \in decided : e.key = f.key => e.as = f.as
    /\ \A c \in Decisions : c.key \in seen

(* What is worked into a document was decided.                             *)
Excused(k) ==
    \/ <<"asked again", k>> \in strays
    \/ <<"again", k>> \in strays
    \/ <<"stuck", k>> \in strays

IsDecided(k) == \E e \in decided : e.key = k

Founded(d) ==
    /\ \A i \in DOMAIN d.work : d.work[i] # Agent!NoKey => IsDecided(d.work[i])
    /\ \A i, j \in DOMAIN d.work :
         i # j /\ d.work[i] = d.work[j] /\ d.work[i] # Agent!NoKey => Excused(d.work[i])

WorkFounded ==
    /\ Founded(doc)
    /\ \A i \in DOMAIN past : Founded(past[i])
    /\ \A c \in Decisions :
         /\ Founded(c.doc)
         /\ c.op = "adopt" =>
              \A i \in DOMAIN c.doc.work :
                 c.doc.work[i] = c.key /\ c.key # Agent!NoKey => Excused(c.key)

(* What a review says, and what became of those that were dropped.         *)
ReviewsHold ==
    \A i \in DOMAIN reviews :
        LET k == reviews[i].key
        IN  /\ reviews[i].status = "adopted" =>
                  IsDecided(k) /\ \A e \in decided : e.key = k => e.as = "adopt"
            /\ reviews[i].status = "rejected" =>
                  IsDecided(k) /\ \A e \in decided : e.key = k => e.as = "reject"
            /\ reviews[i].status = "pending" /\ IsDecided(k) =>
                  <<"stuck", k>> \in strays \/ <<"again", k>> \in strays

Dropped ==
    \A k \in seen : (\E i \in DOMAIN reviews : reviews[i].key = k) \/ IsDecided(k)

(* The inductive invariant of AgentExchange.                               *)
AgentInv ==
    /\ AgentTypes /\ TasksApart /\ Single /\ ReviewsAnswer /\ DecidedOnce /\ WorkFounded
    /\ ReviewsHold /\ Dropped

LEMMA AgentBounds == MaxSteps \in Nat /\ ResolvedLimit \in Nat /\ LedgerLimit \in Nat /\ LedgerLimit > 0
  BY BoundsAssumption, LedgerAssumption

LEMMA AgentWords ==
  /\ Agent!NoKey = <<0, "none">> /\ Agent!NoKey \in Refs
  /\ \A n, p : Agent!Key(n, p) = <<n, p>>
  /\ \A n \in 0..MaxSteps, p \in {"p1", "p2"} : Agent!Key(n, p) \in Refs
  BY AgentBounds DEF Agent!NoKey, Agent!Key, Refs

LEMMA LeastNumber == \A T \in SUBSET Nat : T # {} => \E x \in T : \A y \in T : x <= y
  <1> SUFFICES ASSUME NEW T \in SUBSET Nat, T # {} PROVE \E x \in T : \A y \in T : x <= y
    OBVIOUS
  <1>1. PICK x \in T : \A y \in T : ~(<<y, x>> \in OpToRel(<, Nat))
    BY NatLessThanWellFounded, WFMin
  <1>2. ASSUME NEW y \in T PROVE x <= y
    <2>1. ~(y < x)
      BY <1>1, Zenon DEF OpToRel
    <2>2. QED
      BY <2>1
  <1>3. QED
    BY <1>2

(* Picked takes every element at an index asked for, once and no other.    *)
Reindexed(t, s, at, n) ==
    \E f \in [DOMAIN t -> at \cap (1..n)] :
        /\ \A i \in DOMAIN t : t[i] = s[f[i]]
        /\ \A i, j \in DOMAIN t : f[i] = f[j] => i = j
        /\ \A m \in at \cap (1..n) : \E i \in DOMAIN t : f[i] = m

LEMMA PickedRows ==
  ASSUME NEW S, NEW s \in Seq(S), NEW at
  PROVE  \E g : /\ g = [n \in 0..Len(s) |-> IF n = 0 THEN <<>>
                                            ELSE IF n \in at THEN Append(g[n - 1], s[n]) ELSE g[n - 1]]
               /\ Agent!Picked(s, at) = g[Len(s)]
  <1> DEFINE Step(n, t) == IF n \in at THEN Append(t, s[n]) ELSE t
             Rows(g, k) == g = [n \in 0..k |-> IF n = 0 THEN <<>> ELSE Step(n, g[n - 1])]
             Unbuilt == {k \in Nat : ~\E g : Rows(g, k)}
  <1> HIDE DEF Step
  <1>1. Unbuilt = {}
    <2> SUFFICES ASSUME Unbuilt # {} PROVE FALSE
      OBVIOUS
    <2>1. PICK k \in Unbuilt : \A i \in Unbuilt : k <= i
      <3>1. Unbuilt \in SUBSET Nat
        OBVIOUS
      <3>2. QED
        BY <3>1, LeastNumber
    <2>2. k \in Nat /\ ~\E g : Rows(g, k)
      BY <2>1
    <2>3. CASE k = 0
      <3> DEFINE g == [n \in 0..0 |-> <<>>]
      <3>1. Rows(g, 0)
        OBVIOUS
      <3>2. QED
        BY <3>1, <2>2, <2>3
    <2>4. CASE k # 0
      <3>1. k - 1 \in Nat /\ k - 1 \notin Unbuilt
        <4> HIDE DEF Unbuilt
        <4>1. k - 1 \in Nat /\ k - 1 < k
          BY <2>2, <2>4
        <4>2. QED
          BY <4>1, <2>1, <2>2
      <3>2. PICK g : Rows(g, k - 1)
        BY <3>1
      <3> DEFINE h == [n \in 0..k |-> IF n = k THEN Step(k, g[k - 1]) ELSE g[n]]
      <3>3. ASSUME NEW n \in 0..k
            PROVE  h[n] = IF n = 0 THEN <<>> ELSE Step(n, h[n - 1])
        <4>1. CASE n = k
          <5>1. h[n] = Step(k, g[k - 1]) /\ h[n - 1] = g[k - 1] /\ n # 0
            BY <4>1, <2>2, <2>4
          <5>2. QED
            BY <5>1, <4>1
        <4>2. CASE n # k
          <5>1. n \in 0..(k - 1) /\ h[n] = g[n] /\ (n # 0 => h[n - 1] = g[n - 1])
            BY <4>2, <2>2, <3>3
          <5>2. g[n] = IF n = 0 THEN <<>> ELSE Step(n, g[n - 1])
            BY <5>1, <3>2
          <5>3. QED
            BY <5>1, <5>2
        <4>3. QED
          BY <4>1, <4>2
      <3>4. Rows(h, k)
        BY <3>3
      <3>5. QED
        BY <3>4, <2>2
    <2>5. QED
      BY <2>3, <2>4
  <1>2. \E g : Rows(g, Len(s))
    <2>1. Len(s) \in Nat
      OBVIOUS
    <2>2. QED
      BY <1>1, <2>1
  <1> DEFINE U == CHOOSE g : Rows(g, Len(s))
  <1>3. Rows(U, Len(s))
    BY <1>2
  <1>4. Agent!Picked(s, at) = U[Len(s)]
    BY Zenon DEF Agent!Picked, Step
  <1> HIDE DEF U
  <1>5. QED
    BY <1>3, <1>4 DEF Step

LEMMA PickedIs ==
  ASSUME NEW S, NEW s \in Seq(S), NEW at \in SUBSET DOMAIN s
  PROVE  Agent!Picked(s, at) \in Seq(S) /\ Reindexed(Agent!Picked(s, at), s, at, Len(s))
  <1>1. PICK g : /\ g = [n \in 0..Len(s) |-> IF n = 0 THEN <<>>
                                            ELSE IF n \in at THEN Append(g[n - 1], s[n]) ELSE g[n - 1]]
                 /\ Agent!Picked(s, at) = g[Len(s)]
    BY PickedRows
  <1> DEFINE Good(n) == g[n] \in Seq(S) /\ Reindexed(g[n], s, at, n)
             Bad == {n \in 0..Len(s) : ~Good(n)}
  <1> HIDE DEF Good
  <1>2. Len(s) \in Nat /\ DOMAIN s = 1..Len(s) /\ \A n \in 1..Len(s) : s[n] \in S
    OBVIOUS
  <1>3. Bad = {}
    <2> SUFFICES ASSUME Bad # {} PROVE FALSE
      OBVIOUS
    <2>1. PICK k \in Bad : \A i \in Bad : k <= i
      <3>1. Bad \in SUBSET Nat
        BY <1>2
      <3>2. QED
        BY <3>1, LeastNumber
    <2>2. k \in 0..Len(s) /\ ~Good(k)
      BY <2>1
    <2>3. CASE k = 0
      <3>1. g[0] = <<>>
        BY <1>1, <1>2
      <3>2. <<>> \in [DOMAIN <<>> -> at \cap (1..0)]
        OBVIOUS
      <3>3. at \cap (1..0) = {} /\ DOMAIN <<>> = {}
        OBVIOUS
      <3>4. Reindexed(<<>>, s, at, 0)
        BY <3>2, <3>3 DEF Reindexed
      <3>5. <<>> \in Seq(S)
        OBVIOUS
      <3>6. Good(0)
        BY <3>1, <3>4, <3>5 DEF Good
      <3>7. QED
        BY <3>6, <2>2, <2>3
    <2>4. CASE k # 0
      <3>1. k - 1 \in 0..Len(s) /\ k \in 1..Len(s) /\ k - 1 \notin Bad
        <4>1. k - 1 \in 0..Len(s) /\ k - 1 < k /\ k \in Nat
          BY <2>2, <2>4, <1>2
        <4>2. QED
          BY <4>1, <2>1, <2>2, <2>4, <1>2
      <3>2. Good(k - 1)
        BY <3>1
      <3>3. g[k] = IF k \in at THEN Append(g[k - 1], s[k]) ELSE g[k - 1]
        BY <1>1, <2>2, <2>4
      <3> DEFINE t == g[k - 1]
      <3>4. t \in Seq(S) /\ Len(t) \in Nat /\ DOMAIN t = 1..Len(t)
        BY <3>2 DEF Good
      <3>5. PICK f \in [DOMAIN t -> at \cap (1..(k - 1))] :
               /\ \A i \in DOMAIN t : t[i] = s[f[i]]
               /\ \A i, j \in DOMAIN t : f[i] = f[j] => i = j
               /\ \A m \in at \cap (1..(k - 1)) : \E i \in DOMAIN t : f[i] = m
        BY <3>2 DEF Good, Reindexed
      <3>6. 1..k = 1..(k - 1) \cup {k} /\ k \notin 1..(k - 1)
        BY <3>1
      <3> HIDE DEF t
      <3>7. CASE k \in at
        <4>1. g[k] = Append(t, s[k]) /\ s[k] \in S
          BY <3>3, <3>7, <3>1, <1>2 DEF t
        <4> DEFINE u == Append(t, s[k])
                   h == [i \in 1..(Len(t) + 1) |-> IF i = Len(t) + 1 THEN k ELSE f[i]]
        <4>2. u \in Seq(S) /\ DOMAIN u = 1..(Len(t) + 1) /\ u[Len(t) + 1] = s[k]
              /\ \A i \in 1..Len(t) : u[i] = t[i]
          BY <3>4, <4>1
        <4>3. 1..(Len(t) + 1) = 1..Len(t) \cup {Len(t) + 1} /\ Len(t) + 1 \notin 1..Len(t)
          BY <3>4
        <4> HIDE DEF u
        <4>4. h \in [DOMAIN u -> at \cap (1..k)]
          BY <4>2, <4>3, <3>4, <3>5, <3>6, <3>7
        <4>5. \A i \in DOMAIN u : u[i] = s[h[i]]
          BY <4>2, <4>3, <3>4, <3>5
        <4>6. \A i \in 1..Len(t) : h[i] = f[i] /\ h[i] # k
          BY <4>3, <3>4, <3>5, <3>6
        <4>7. h[Len(t) + 1] = k
          BY <4>3
        <4> HIDE DEF h
        <4>8. \A i, j \in DOMAIN u : h[i] = h[j] => i = j
          BY <4>2, <4>3, <4>6, <4>7, <3>4, <3>5
        <4>9. ASSUME NEW m \in at \cap (1..k) PROVE \E i \in DOMAIN u : h[i] = m
          <5>1. CASE m = k
            BY <5>1, <4>2, <4>3, <4>7
          <5>2. CASE m # k
            <6>1. PICK i \in DOMAIN t : f[i] = m
              BY <5>2, <3>5, <3>6
            <6>2. QED
              BY <6>1, <4>2, <4>3, <4>6, <3>4
          <5>3. QED
            BY <5>1, <5>2
        <4>10. Reindexed(u, s, at, k)
          BY <4>4, <4>5, <4>8, <4>9 DEF Reindexed
        <4>11. QED
          BY <4>1, <4>2, <4>10, <2>2 DEF Good, u
      <3>8. CASE k \notin at
        <4>1. g[k] = t /\ at \cap (1..k) = at \cap (1..(k - 1))
          BY <3>3, <3>8, <3>6 DEF t
        <4>2. Reindexed(t, s, at, k)
          BY <3>5, <4>1 DEF Reindexed
        <4>3. QED
          BY <4>1, <4>2, <3>4, <2>2 DEF Good
      <3>9. QED
        BY <3>7, <3>8
    <2>5. QED
      BY <2>3, <2>4
  <1>4. Good(Len(s))
    BY <1>2, <1>3
  <1>5. QED
    BY <1>1, <1>4 DEF Good

(* What boundResolvedAgentImportedProposalReviews keeps, and how.          *)
LEMMA BoundedKeeps ==
  ASSUME NEW rs \in Seq(Listed)
  PROVE  /\ Agent!Bounded(rs) \in Seq(Listed)
         /\ \A n \in DOMAIN Agent!Bounded(rs) : \E i \in DOMAIN rs : Agent!Bounded(rs)[n] = rs[i]
         /\ \A i \in DOMAIN rs : rs[i].status = "pending" =>
               \E n \in DOMAIN Agent!Bounded(rs) : Agent!Bounded(rs)[n] = rs[i]
         /\ Apart(rs) => Apart(Agent!Bounded(rs))
  <1> DEFINE o == Agent!Open(rs)
             w == Agent!Newest(rs)
             p == Agent!Picked(rs, o)
             q == Agent!Picked(rs, w)
             b == Agent!Bounded(rs)
  <1>1. /\ o \in SUBSET DOMAIN rs /\ w \in SUBSET DOMAIN rs /\ o \cap w = {}
        /\ \A i \in DOMAIN rs : i \in o <=> rs[i].status = "pending"
    BY DEF Agent!Open, Agent!Newest
  <1> HIDE DEF o, w
  <1>2. p \in Seq(Listed) /\ Reindexed(p, rs, o, Len(rs)) /\ q \in Seq(Listed) /\ Reindexed(q, rs, w, Len(rs))
    BY <1>1, PickedIs
  <1>3. b = p \o q
    BY DEF Agent!Bounded, o, w
  <1> HIDE DEF p, q, b
  <1>4. DOMAIN rs = 1..Len(rs) /\ DOMAIN p = 1..Len(p) /\ DOMAIN q = 1..Len(q) /\ Len(p) \in Nat /\ Len(q) \in Nat
    BY <1>2
  <1>5. /\ b \in Seq(Listed) /\ DOMAIN b = 1..(Len(p) + Len(q))
        /\ \A i \in 1..(Len(p) + Len(q)) : b[i] = IF i <= Len(p) THEN p[i] ELSE q[i - Len(p)]
    BY <1>2, <1>3
  <1>6. PICK f \in [DOMAIN p -> o \cap (1..Len(rs))] :
           /\ \A i \in DOMAIN p : p[i] = rs[f[i]]
           /\ \A i, j \in DOMAIN p : f[i] = f[j] => i = j
           /\ \A m \in o \cap (1..Len(rs)) : \E i \in DOMAIN p : f[i] = m
    BY <1>2 DEF Reindexed
  <1>7. PICK h \in [DOMAIN q -> w \cap (1..Len(rs))] :
           /\ \A i \in DOMAIN q : q[i] = rs[h[i]]
           /\ \A i, j \in DOMAIN q : h[i] = h[j] => i = j
    BY <1>2 DEF Reindexed
  <1> DEFINE From(n) == IF n <= Len(p) THEN f[n] ELSE h[n - Len(p)]
  <1>8. ASSUME NEW n \in DOMAIN b
        PROVE  /\ From(n) \in DOMAIN rs /\ b[n] = rs[From(n)]
               /\ n <= Len(p) => n \in DOMAIN p /\ From(n) = f[n] /\ From(n) \in o
               /\ ~(n <= Len(p)) => n - Len(p) \in DOMAIN q /\ From(n) = h[n - Len(p)] /\ From(n) \in w
    <2>1. CASE n <= Len(p)
      <3>1. n \in DOMAIN p
        BY <2>1, <1>4, <1>5
      <3>2. QED
        BY <3>1, <2>1, <1>1, <1>4, <1>5, <1>6
    <2>2. CASE ~(n <= Len(p))
      <3>1. n - Len(p) \in DOMAIN q
        BY <2>2, <1>4, <1>5
      <3>2. QED
        BY <3>1, <2>2, <1>1, <1>4, <1>5, <1>7
    <2>3. QED
      BY <2>1, <2>2
  <1> HIDE DEF From
  <1>9. ASSUME NEW i \in DOMAIN b, NEW j \in DOMAIN b, From(i) = From(j) PROVE i = j
    <2>1. i <= Len(p) <=> j <= Len(p)
      BY <1>1, <1>8, <1>9
    <2>2. i \in Int /\ j \in Int /\ Len(p) \in Int
      BY <1>4, <1>5
    <2>3. CASE i <= Len(p)
      BY <2>1, <2>3, <1>6, <1>8, <1>9
    <2>4. CASE ~(i <= Len(p))
      <3>1. i - Len(p) = j - Len(p)
        BY <2>1, <2>4, <1>7, <1>8, <1>9
      <3>2. QED
        BY <3>1, <2>2
    <2>5. QED
      BY <2>3, <2>4
  <1>10. ASSUME NEW i \in DOMAIN rs, rs[i].status = "pending" PROVE \E n \in DOMAIN b : b[n] = rs[i]
    <2>1. PICK n \in DOMAIN p : f[n] = i
      BY <1>1, <1>4, <1>6, <1>10
    <2>2. n \in DOMAIN b /\ b[n] = rs[i]
      BY <2>1, <1>4, <1>5, <1>6
    <2>3. QED
      BY <2>2
  <1>11. ASSUME Apart(rs) PROVE Apart(b)
    <2> SUFFICES ASSUME NEW i \in DOMAIN b, NEW j \in DOMAIN b, b[i].key = b[j].key PROVE i = j
      BY DEF Apart
    <2>1. From(i) = From(j)
      BY <1>8, <1>11 DEF Apart
    <2>2. QED
      BY <2>1, <1>9
  <1>12. QED
    BY <1>5, <1>8, <1>10, <1>11 DEF b

LEMMA AgentStarts == Agent!Init => AgentInv
  <1> SUFFICES ASSUME Agent!Init PROVE AgentInv
    OBVIOUS
  <1>1. PICK d \in DocIds : doc = Agent!FirstDocument(d)
    BY DEF Agent!Init
  <1>2. doc = [id |-> d, stamp |-> 0, cards |-> Cards, work |-> <<>>] /\ doc \in Document
    <2>1. doc = [id |-> d, stamp |-> 0, cards |-> Cards, work |-> <<>>]
      BY <1>1 DEF Agent!Init, Agent!FirstDocument
    <2>2. QED
      BY <2>1 DEF Document
  <1>3. Agent!EarlierSheet \in Sheet /\ Agent!EarlierSheet.task = MaxSteps /\ Agent!EarlierSheet.shown = {}
    <2>1. {<<Cards, FALSE, FALSE>>} \in SUBSET Option
      <3>1. Cards \in SUBSET Cards /\ FALSE \in BOOLEAN
        OBVIOUS
      <3>2. <<Cards, FALSE, FALSE>> \in Option
        BY <3>1, Zenon DEF Option
      <3>3. QED
        BY <3>2
    <2>2. QED
      BY <1>2, <2>1, AgentBounds DEF Agent!EarlierSheet, Sheet, Document
  <1> HIDE DEF Agent!EarlierSheet
  <1>4. /\ sheets \in {{}, {Agent!EarlierSheet}} /\ tasks = sheets
        /\ \/ ledger = <<>>
           \/ ledger = <<Agent!EarlierSheet>> /\ sheets = {Agent!EarlierSheet}
    BY Zenon DEF Agent!Init
  <1>5. ledger \in Seq(Sheet) /\ Len(ledger) <= LedgerLimit /\ \A i \in DOMAIN ledger : ledger[i] \in sheets
    <2>1. CASE ledger = <<>>
      BY <2>1, AgentBounds
    <2>2. CASE ledger = <<Agent!EarlierSheet>> /\ sheets = {Agent!EarlierSheet}
      BY <2>2, <1>3, AgentBounds
    <2>3. QED
      BY <1>4, <2>1, <2>2
  <1>6. scope \in [cards : SUBSET Cards, safe : BOOLEAN, drafts : BOOLEAN, confirmed : SUBSET Option]
    <2>1. {<<Cards, FALSE, FALSE>>} \in SUBSET Option
      <3>1. Cards \in SUBSET Cards /\ FALSE \in BOOLEAN
        OBVIOUS
      <3>2. <<Cards, FALSE, FALSE>> \in Option
        BY <3>1, Zenon DEF Option
      <3>3. QED
        BY <3>2
    <2>2. scope \in {Agent!NoScope, [Agent!NoScope EXCEPT !.cards = Cards, !.confirmed = {<<Cards, FALSE, FALSE>>}]}
      BY DEF Agent!Init
    <2>3. QED
      <3>1. scope = [cards |-> {}, safe |-> FALSE, drafts |-> FALSE, confirmed |-> {}] \/
            scope = [cards |-> Cards, safe |-> FALSE, drafts |-> FALSE, confirmed |-> {<<Cards, FALSE, FALSE>>}]
        BY <2>2 DEF Agent!NoScope
      <3>2. PICK cs \in SUBSET Cards, asked \in SUBSET Option :
               scope = [cards |-> cs, safe |-> FALSE, drafts |-> FALSE, confirmed |-> asked]
        <4> DEFINE asked == {<<Cards, FALSE, FALSE>>}
        <4> HIDE DEF asked
        <4>1. {} \in SUBSET Cards /\ Cards \in SUBSET Cards /\ {} \in SUBSET Option /\ asked \in SUBSET Option
          BY <2>1 DEF asked
        <4>2. QED
          BY <3>1, <4>1 DEF asked
      <3>3. QED
        BY <3>2
  <1>7. AgentTypes
    <2>1. /\ past = <<>> /\ stored = [d2 \in DocIds |-> 0] /\ readOnly = FALSE /\ reviews = <<>>
          /\ calls = {} /\ proposed = {} /\ decided = {} /\ steps = 0 /\ seen = {}
      BY DEF Agent!Init
    <2>2. sheets \subseteq Sheet
      BY <1>3, <1>4
    <2>3. past \in Seq(Document) /\ reviews \in Seq(Listed)
      BY <2>1
    <2>4. QED
      <3>1. stored \in [DocIds -> Nat] /\ steps \in 0..MaxSteps
        BY <2>1, AgentBounds
      <3>2. QED
        BY <1>2, <1>4, <1>5, <1>6, <2>1, <2>2, <2>3, <3>1 DEF AgentTypes
  <1>8. TasksApart
    BY <1>3, <1>4 DEF TasksApart, Known, Exports, Shows, Agent!Init
  <1>9. WorkFounded
    BY <1>2 DEF WorkFounded, Founded, Decisions, Agent!Init
  <1>10. Single /\ ReviewsAnswer /\ DecidedOnce /\ ReviewsHold /\ Dropped
    BY DEF Single, Apart, Parses, ReviewsAnswer, DecidedOnce, Decisions, ReviewsHold, Dropped, Agent!Init
  <1>11. QED
    BY <1>7, <1>8, <1>9, <1>10 DEF AgentInv

-----------------------------------------------------------------------------
(* Steps of the user that no server and no review takes part in.           *)
Aside == <<ledger, tasks, sheets, reviews, calls, proposed, decided, seen, strays>>

LEMMA AsideKeeps ==
  ASSUME AgentInv, UNCHANGED Aside, steps' \in steps..MaxSteps,
         doc' \in Document, past' \in Seq(Document), stored' \in [DocIds -> Nat],
         scope' \in [cards : SUBSET Cards, safe : BOOLEAN, drafts : BOOLEAN,
                     confirmed : SUBSET Option],
         readOnly' \in BOOLEAN, Founded(doc'), \A i \in DOMAIN past' : Founded(past'[i])
  PROVE  AgentInv'
  <1> USE DEF Aside
  <1>1. steps \in 0..MaxSteps /\ steps' \in 0..MaxSteps /\ steps <= steps' /\ MaxSteps \in Nat
    BY AgentBounds DEF AgentInv, AgentTypes
  <1>2. AgentTypes'
    BY <1>1 DEF AgentInv, AgentTypes
  <1>3. TasksApart'
    <2>1. Known' = Known /\ Known \subseteq Sheet
      BY DEF Known, Exports, AgentInv, AgentTypes, ExportCall, ParseCall, DecisionCall
    <2>2. \A t \in Known : Shows(t)' = Shows(t) /\ t.task \in 0..MaxSteps
      BY <2>1 DEF Shows, Sheet
    <2>3. QED
      BY <1>1, <2>1, <2>2 DEF AgentInv, TasksApart
  <1>4. Single' /\ ReviewsAnswer' /\ DecidedOnce' /\ ReviewsHold' /\ Dropped'
    <2>1. Single' <=> Single
      BY DEF Single, Parses
    <2>2. ReviewsAnswer' <=> ReviewsAnswer
      BY DEF ReviewsAnswer, Parses, Correlated
    <2>3. DecidedOnce' <=> DecidedOnce
      BY DEF DecidedOnce, Decisions
    <2>4. (ReviewsHold' <=> ReviewsHold) /\ (Dropped' <=> Dropped)
      BY DEF ReviewsHold, Dropped, IsDecided
    <2>5. QED
      BY <2>1, <2>2, <2>3, <2>4 DEF AgentInv
  <1>5. \A d : Founded(d)' <=> Founded(d)
    BY DEF Founded, IsDecided, Excused
  <1>6. Founded(doc)' /\ \A i \in DOMAIN past' : Founded(past[i])'
    BY DEF Founded, IsDecided, Excused
  <1>7. WorkFounded'
    BY <1>5, <1>6 DEF AgentInv, WorkFounded, Decisions, Excused
  <1>8. QED
    BY <1>2, <1>3, <1>4, <1>7 DEF AgentInv

Asides ==
    \/ Agent!Edit \/ Agent!Undo \/ Agent!Save \/ Agent!SetReadOnly \/ Agent!SetSafeMode
    \/ Agent!SetDrafts \/ Agent!ConfirmScope
    \/ \E d \in DocIds : Agent!OpenDocument(d)
    \/ \E S \in SUBSET Cards : Agent!Select(S)

LEMMA FoundedStays ==
  ASSUME AgentTypes, Founded(doc)
  PROVE  /\ \A cs \in SUBSET Cards : LET d == [doc EXCEPT !.cards = cs] IN d \in Document /\ Founded(d)
         /\ \A n \in Nat : LET d == [doc EXCEPT !.stamp = n] IN d \in Document /\ Founded(d)
         /\ LET d == [doc EXCEPT !.work = Append(@, Agent!NoKey)] IN d \in Document /\ Founded(d)
         /\ \A i \in DocIds : LET d == Agent!FirstDocument(i) IN d \in Document /\ Founded(d)
  <1>1. doc \in Document
    BY DEF AgentTypes
  <1>2. \A cs \in SUBSET Cards : LET d == [doc EXCEPT !.cards = cs] IN d \in Document /\ Founded(d)
    BY <1>1 DEF Document, Founded
  <1>3. \A n \in Nat : LET d == [doc EXCEPT !.stamp = n] IN d \in Document /\ Founded(d)
    BY <1>1 DEF Document, Founded
  <1>4. LET d == [doc EXCEPT !.work = Append(@, Agent!NoKey)] IN d \in Document /\ Founded(d)
    <2> DEFINE w == Append(doc.work, Agent!NoKey)
    <2>1. doc.work \in Seq(Refs) /\ Agent!NoKey \in Refs
      BY <1>1, AgentWords DEF Document
    <2>2. /\ w \in Seq(Refs) /\ w[Len(doc.work) + 1] = Agent!NoKey
          /\ \A i \in DOMAIN w : (i \in DOMAIN doc.work /\ w[i] = doc.work[i]) \/ w[i] = Agent!NoKey
      BY <2>1
    <2> HIDE DEF w
    <2>3. [doc EXCEPT !.work = w] \in Document /\ [doc EXCEPT !.work = w].work = w
      BY <1>1, <2>2 DEF Document
    <2>4. Founded([doc EXCEPT !.work = w])
      BY <2>2, <2>3 DEF Founded
    <2>5. QED
      BY <2>3, <2>4 DEF w
  <1>5. \A i \in DocIds : LET d == Agent!FirstDocument(i) IN d \in Document /\ Founded(d)
    <2> SUFFICES ASSUME NEW i \in DocIds
                 PROVE  Agent!FirstDocument(i) \in Document /\ Founded(Agent!FirstDocument(i))
      OBVIOUS
    <2>1. Agent!FirstDocument(i) = [id |-> i, stamp |-> stored[i], cards |-> Cards, work |-> <<>>] /\ stored[i] \in Nat
      BY DEF Agent!FirstDocument, AgentTypes
    <2>2. QED
      BY <2>1 DEF Document, Founded
  <1>6. QED
    BY <1>2, <1>3, <1>4, <1>5

LEMMA PushedStays ==
  ASSUME AgentTypes, WorkFounded, NEW d \in Document, Founded(d), Agent!Pushed(d)
  PROVE  /\ doc' \in Document /\ past' \in Seq(Document) /\ doc' = d
         /\ \A i \in DOMAIN past' : Founded(past'[i])
  <1>1. doc' = d /\ past' = Append(past, doc) /\ past \in Seq(Document) /\ doc \in Document
    BY DEF Agent!Pushed, AgentTypes
  <1>2. /\ past' \in Seq(Document)
        /\ \A i \in DOMAIN past' : (i \in DOMAIN past /\ past'[i] = past[i]) \/ past'[i] = doc
    BY <1>1
  <1>3. QED
    BY <1>1, <1>2 DEF WorkFounded

LEMMA AsidesKeepAgentInv == ASSUME AgentInv, Asides PROVE AgentInv'
  <1>0. /\ AgentTypes /\ WorkFounded /\ Founded(doc) /\ \A i \in DOMAIN past : Founded(past[i])
        /\ doc \in Document /\ past \in Seq(Document) /\ stored \in [DocIds -> Nat] /\ readOnly \in BOOLEAN
        /\ scope \in [cards : SUBSET Cards, safe : BOOLEAN, drafts : BOOLEAN, confirmed : SUBSET Option]
    BY DEF AgentInv, AgentTypes, WorkFounded
  <1>1. Agent!Counted => steps' \in steps..MaxSteps /\ steps' \in Nat
    BY AgentBounds DEF Agent!Counted, AgentInv, AgentTypes
  <1>2. CASE Agent!Edit
    <2>1. \E d \in Document : Founded(d) /\ Agent!Pushed(d)
      <3>1. CASE Agent!Pushed([doc EXCEPT !.work = Append(@, Agent!NoKey)])
        BY <3>1, <1>0, FoundedStays
      <3>2. CASE \E c \in doc.cards : Agent!Pushed([doc EXCEPT !.cards = @ \ {c}])
        <4>1. PICK c \in doc.cards : Agent!Pushed([doc EXCEPT !.cards = doc.cards \ {c}])
          BY <3>2
        <4>2. doc.cards \ {c} \in SUBSET Cards
          BY <1>0 DEF Document
        <4>3. QED
          BY <4>1, <4>2, <1>0, FoundedStays
      <3>3. QED
        BY <1>2, <3>1, <3>2 DEF Agent!Edit
    <2>2. PICK d \in Document : Founded(d) /\ Agent!Pushed(d)
      BY <2>1
    <2>3. /\ doc' \in Document /\ past' \in Seq(Document) /\ doc' = d
          /\ \A i \in DOMAIN past' : Founded(past'[i])
      BY <1>0, <2>2, PushedStays
    <2>4. UNCHANGED Aside /\ UNCHANGED <<stored, scope, readOnly>> /\ Agent!Counted
      BY <1>2 DEF Agent!Edit, Aside
    <2>5. QED
      BY <1>0, <1>1, <2>2, <2>3, <2>4, AsideKeeps
  <1>3. CASE Agent!Undo
    <2>1. /\ past # <<>> /\ doc' = past[Len(past)] /\ past' = SubSeq(past, 1, Len(past) - 1)
          /\ Agent!Counted /\ UNCHANGED Aside /\ UNCHANGED <<stored, scope, readOnly>>
      BY <1>3 DEF Agent!Undo, Agent!Last, Agent!Front, Aside
    <2>2. Len(past) \in DOMAIN past /\ doc' \in Document
      BY <1>0, <2>1
    <2>3. /\ past' \in Seq(Document)
          /\ \A i \in DOMAIN past' : i \in DOMAIN past /\ past'[i] = past[i]
      BY <1>0, <2>1
    <2>4. QED
      BY <1>0, <1>1, <2>1, <2>2, <2>3, AsideKeeps
  <1>4. CASE Agent!Save
    <2>1. /\ doc' = [doc EXCEPT !.stamp = steps'] /\ past' = <<>>
          /\ stored' = [stored EXCEPT ![doc.id] = steps']
          /\ Agent!Counted /\ UNCHANGED Aside /\ UNCHANGED <<scope, readOnly>>
      BY <1>4 DEF Agent!Save, Aside
    <2>2. doc' \in Document /\ Founded(doc')
      BY <1>0, <1>1, <2>1, FoundedStays
    <2>3. stored' \in [DocIds -> Nat]
      BY <1>0, <1>1, <2>1
    <2>4. past' \in Seq(Document) /\ DOMAIN past' = {}
      BY <2>1
    <2>5. QED
      BY <1>0, <1>1, <2>1, <2>2, <2>3, <2>4, AsideKeeps
  <1>5. CASE \E d \in DocIds : Agent!OpenDocument(d)
    <2>1. PICK d \in DocIds : Agent!OpenDocument(d)
      BY <1>5
    <2>2. /\ doc' = Agent!FirstDocument(d) /\ past' = <<>> /\ scope' = [scope EXCEPT !.cards = {}]
          /\ Agent!Counted /\ UNCHANGED Aside /\ UNCHANGED <<stored, readOnly>>
      BY <2>1 DEF Agent!OpenDocument, Aside
    <2>3. doc' \in Document /\ Founded(doc')
      BY <1>0, <2>2, FoundedStays
    <2>4. scope' \in [cards : SUBSET Cards, safe : BOOLEAN, drafts : BOOLEAN, confirmed : SUBSET Option]
      BY <1>0, <2>2
    <2>5. past' \in Seq(Document) /\ DOMAIN past' = {}
      BY <2>2
    <2>6. QED
      BY <1>0, <1>1, <2>2, <2>3, <2>4, <2>5, AsideKeeps
  <1>6. CASE \/ Agent!SetReadOnly \/ Agent!SetSafeMode \/ Agent!SetDrafts \/ Agent!ConfirmScope
             \/ \E S \in SUBSET Cards : Agent!Select(S)
    <2>1. /\ Agent!Counted /\ UNCHANGED Aside /\ UNCHANGED <<doc, past, stored>> /\ readOnly' \in BOOLEAN
      BY <1>0, <1>6 DEF Agent!SetReadOnly, Agent!SetSafeMode, Agent!SetDrafts, Agent!ConfirmScope, Agent!Select, Aside
    <2>2. Agent!Options \in Option
      BY <1>0 DEF Agent!Options, Option
    <2>3. scope' \in [cards : SUBSET Cards, safe : BOOLEAN, drafts : BOOLEAN, confirmed : SUBSET Option]
      <3>1. CASE Agent!SetReadOnly
        BY <3>1, <1>0 DEF Agent!SetReadOnly
      <3>2. CASE Agent!SetSafeMode
        BY <3>2, <1>0 DEF Agent!SetSafeMode
      <3>3. CASE Agent!SetDrafts
        BY <3>3, <1>0 DEF Agent!SetDrafts
      <3>4. CASE Agent!ConfirmScope
        <4>1. {Agent!Options} \in SUBSET Option
          BY <2>2
        <4>2. scope'.confirmed \in {{Agent!Options}, {}} /\ scope' = [scope EXCEPT !.confirmed = scope'.confirmed]
          BY <3>4, <1>0 DEF Agent!ConfirmScope
        <4>3. scope'.confirmed \in SUBSET Option
          BY <4>1, <4>2
        <4>4. QED
          BY <4>2, <4>3, <1>0
      <3>5. CASE \E S \in SUBSET Cards : Agent!Select(S)
        BY <3>5, <1>0 DEF Agent!Select
      <3>6. QED
        BY <1>6, <3>1, <3>2, <3>3, <3>4, <3>5
    <2>4. QED
      BY <1>0, <1>1, <2>1, <2>3, AsideKeeps
  <1>7. QED
    BY <1>2, <1>3, <1>4, <1>5, <1>6 DEF Asides

-----------------------------------------------------------------------------
(* What a step that leaves a part alone, or only adds to what it rests on, *)
(* does not disturb.                                                       *)
Rest == <<doc, past, stored, scope, readOnly>>

LEMMA Undisturbed ==
  ASSUME AgentInv, strays \subseteq strays'
  PROVE  /\ (doc' = doc /\ past' = past /\ decided \subseteq decided' /\ Decisions' \subseteq Decisions)
              => WorkFounded'
         /\ (reviews' = reviews /\ decided' = decided) => ReviewsHold'
         /\ (/\ proposed' = proposed /\ decided' = decided /\ tasks \subseteq tasks' /\ seen \subseteq seen'
             /\ Decisions' \subseteq Decisions) => DecidedOnce'
         /\ (/\ reviews' = reviews /\ Parses' \subseteq Parses /\ sheets \subseteq sheets'
             /\ seen \subseteq seen') => ReviewsAnswer'
         /\ (reviews' = reviews /\ Parses' \subseteq Parses) => Single'
         /\ (/\ Known' \subseteq Known /\ steps' = steps
             /\ \A c \in calls' : c.op = "registered" => c.task \in tasks') => TasksApart'
         /\ (reviews' = reviews /\ seen' = seen /\ decided \subseteq decided') => Dropped'
  <1>1. ASSUME doc' = doc, past' = past, decided \subseteq decided', Decisions' \subseteq Decisions
        PROVE  WorkFounded'
    <2>1. \A k : (IsDecided(k) => IsDecided(k)') /\ (Excused(k) => Excused(k)')
      BY <1>1 DEF IsDecided, Excused
    <2>2. \A d : Founded(d) => Founded(d)'
      BY <2>1 DEF Founded
    <2>3. QED
      BY <1>1, <2>1, <2>2 DEF WorkFounded, AgentInv
  <1>2. ASSUME reviews' = reviews, decided' = decided PROVE ReviewsHold'
    BY <1>2 DEF ReviewsHold, IsDecided, AgentInv
  <1>3. ASSUME proposed' = proposed, decided' = decided, tasks \subseteq tasks', seen \subseteq seen',
               Decisions' \subseteq Decisions
        PROVE  DecidedOnce'
    BY <1>3 DEF DecidedOnce, AgentInv
  <1>4. ASSUME reviews' = reviews, Parses' \subseteq Parses, sheets \subseteq sheets', seen \subseteq seen'
        PROVE  ReviewsAnswer'
    <2>1. \A c : Correlated(c) => Correlated(c)'
      BY <1>4 DEF Correlated
    <2>2. QED
      BY <1>4, <2>1 DEF ReviewsAnswer, AgentInv
  <1>5. ASSUME reviews' = reviews, Parses' \subseteq Parses PROVE Single'
    <2>1. Apart(reviews)' <=> Apart(reviews)
      BY <1>5 DEF Apart
    <2>2. QED
      BY <1>5, <2>1 DEF Single, AgentInv
  <1>6. ASSUME Known' \subseteq Known, steps' = steps, \A c \in calls' : c.op = "registered" => c.task \in tasks'
        PROVE  TasksApart'
    <2>1. \A t : Shows(t) => Shows(t)'
      BY DEF Shows
    <2>2. QED
      BY <1>6, <2>1 DEF TasksApart, AgentInv
  <1>7. ASSUME reviews' = reviews, seen' = seen, decided \subseteq decided' PROVE Dropped'
    BY <1>7 DEF Dropped, IsDecided, AgentInv
  <1>8. QED
    BY <1>1, <1>2, <1>3, <1>4, <1>5, <1>6, <1>7

LEMMA CallKinds ==
  ASSUME AgentTypes
  PROVE  /\ \A c \in calls : c.op \in {"export", "registered"} => c \in ExportCall
         /\ \A c \in calls : c.op = "parse" => c \in ParseCall
         /\ \A c \in calls : c.op \in {"adopt", "reject"} => c \in DecisionCall
         /\ Known \subseteq Sheet
  <1>1. /\ \A c \in ExportCall : c.op \in {"export", "registered"} /\ c.task \in Sheet
        /\ \A c \in ParseCall : c.op = "parse"
        /\ \A c \in DecisionCall : c.op \in {"adopt", "reject"}
    BY DEF ExportCall, ParseCall, DecisionCall
  <1>2. calls \subseteq ExportCall \cup ParseCall \cup DecisionCall /\ tasks \subseteq Sheet
    BY DEF AgentTypes
  <1>3. /\ \A c \in calls : c.op \in {"export", "registered"} => c \in ExportCall
        /\ \A c \in calls : c.op = "parse" => c \in ParseCall
        /\ \A c \in calls : c.op \in {"adopt", "reject"} => c \in DecisionCall
    BY <1>1, <1>2
  <1>4. QED
    BY <1>1, <1>2, <1>3 DEF Known, Exports

LEMMA ExportTaskKeeps == ASSUME AgentInv, Agent!ExportTask PROVE AgentInv'
  <1>a. PICK t : t = Agent!Correlation(steps)
    OBVIOUS
  <1> DEFINE call == [op |-> "export", task |-> t]
  <1>0. /\ steps < MaxSteps /\ steps' = steps + 1 /\ calls' = calls \cup {call}
        /\ strays' = IF scope.confirmed = {Agent!Options} THEN strays
                     ELSE strays \cup {<<"unconfirmed", Agent!Key(steps, "none")>>}
        /\ UNCHANGED Rest /\ UNCHANGED <<ledger, tasks, sheets, reviews, proposed, decided, seen>>
    BY <1>a DEF Agent!ExportTask, Agent!Counted, Rest
  <1>1. /\ AgentTypes /\ steps \in 0..MaxSteps /\ steps' \in 0..MaxSteps /\ MaxSteps \in Nat
        /\ doc \in Document
        /\ scope \in [cards : SUBSET Cards, safe : BOOLEAN, drafts : BOOLEAN, confirmed : SUBSET Option]
    BY <1>0, AgentBounds DEF AgentInv, AgentTypes
  <1>2. /\ t = [task |-> steps, doc |-> doc.id, stamp |-> doc.stamp, cards |-> scope.cards \cap doc.cards,
                shown |-> Agent!Exposed(scope.cards \cap doc.cards, scope.safe, scope.drafts),
                asked |-> scope.confirmed]
        /\ \A cs, safe, drafts : Agent!Exposed(cs, safe, drafts) = IF safe \/ ~drafts THEN {} ELSE cs
    BY <1>a DEF Agent!Correlation, Agent!Exposed
  <1>3. t \in Sheet /\ t.task = steps
    <2>1. Agent!Exposed(scope.cards \cap doc.cards, scope.safe, scope.drafts) \in SUBSET Cards
      BY <1>1, <1>2 DEF Document
    <2>2. QED
      BY <1>1, <1>2, <2>1 DEF Sheet, Document
  <1>4. Shows(t)'
    <2>1. CASE scope.confirmed = {Agent!Options}
      <3>1. t.asked = {<<scope.cards, scope.safe, scope.drafts>>}
        BY <1>2, <2>1 DEF Agent!Options
      <3>2. t.shown \subseteq Agent!Exposed(scope.cards, scope.safe, scope.drafts)
        BY <1>2
      <3>3. QED
        BY <3>1, <3>2 DEF Shows, Agent!Exposed
    <2>2. CASE scope.confirmed # {Agent!Options}
      <3>1. <<"unconfirmed", Agent!Key(t.task, "none")>> \in strays'
        BY <1>0, <1>3, <2>2
      <3>2. QED
        BY <3>1 DEF Shows, Agent!Key
    <2>3. QED
      BY <2>1, <2>2
  <1>5. strays \subseteq strays' /\ Exports' = Exports \cup {call} /\ Parses' = Parses /\ Decisions' = Decisions
    BY <1>0 DEF Exports, Parses, Decisions
  <1>6. AgentTypes'
    <2>1. call \in ExportCall
      BY <1>3 DEF ExportCall
    <2>2. QED
      BY <1>0, <1>1, <2>1 DEF AgentTypes, Rest
  <1>7. TasksApart'
    <2>1. Known' = Known \cup {t} /\ Known \subseteq Sheet
      <3>1. call.task = t
        OBVIOUS
      <3> HIDE DEF call
      <3>2. {x.task : x \in Exports'} = {x.task : x \in Exports} \cup {t}
        BY <1>5, <3>1
      <3>3. Known' = Known \cup {t}
        BY <1>0, <3>2 DEF Known
      <3>4. QED
        BY <1>1, <3>3, CallKinds
    <2>2. \A u \in Known : u.task \in 0..MaxSteps /\ (u.task < steps \/ u.task = MaxSteps) /\ u.task # steps
      BY <1>0, <1>1, <2>1 DEF AgentInv, TasksApart, Sheet
    <2>3. \A u : Shows(u) => Shows(u)'
      BY <1>5 DEF Shows
    <2>4. \A u \in Known' : (u.task < steps' \/ u.task = MaxSteps) /\ Shows(u)'
      BY <1>0, <1>1, <1>3, <1>4, <2>1, <2>2, <2>3 DEF AgentInv, TasksApart
    <2>5. \A u, v \in Known' : u.task = v.task => u = v
      BY <1>3, <2>1, <2>2 DEF AgentInv, TasksApart
    <2>6. \A c \in calls' : c.op = "registered" => c.task \in tasks'
      BY <1>0 DEF AgentInv, TasksApart
    <2>7. QED
      BY <2>4, <2>5, <2>6 DEF TasksApart
  <1>8. WorkFounded' /\ ReviewsHold' /\ DecidedOnce' /\ ReviewsAnswer' /\ Single' /\ Dropped'
    BY <1>0, <1>5, Undisturbed DEF Rest
  <1>9. QED
    BY <1>6, <1>7, <1>8 DEF AgentInv

LEMMA ExportGoesOn ==
  ASSUME AgentInv, NEW c \in calls, Agent!RegisterTask(c) \/ Agent!HandOut(c) \/ Agent!ExportFails(c)
  PROVE  AgentInv'
  <1> DEFINE call == [c EXCEPT !.op = "registered"]
  <1>0. c.op \in {"export", "registered"} /\ c \in ExportCall /\ Known \subseteq Sheet
    BY CallKinds DEF Agent!RegisterTask, Agent!HandOut, Agent!ExportFails, AgentInv
  <1>1. c.task \in Known /\ c.task \in Sheet /\ call \in ExportCall /\ call.op = "registered" /\ call.task = c.task
    BY <1>0 DEF Known, Exports, ExportCall
  <1> HIDE DEF call
  <1>2. /\ UNCHANGED Rest /\ UNCHANGED <<reviews, proposed, decided, steps, seen, strays>>
        /\ calls' \in {calls \ {c}, (calls \ {c}) \cup {call}}
        /\ tasks' \in {tasks, tasks \cup {c.task}} /\ sheets' \in {sheets, sheets \cup {c.task}}
        /\ call \in calls' => c.task \in tasks'
        /\ sheets' # sheets => c.op = "registered"
    <2>1. CASE Agent!RegisterTask(c)
      BY <2>1 DEF Agent!RegisterTask, Rest, call
    <2>2. CASE Agent!HandOut(c)
      <3>1. c.op = "registered" /\ c.task \in tasks
        BY <2>2 DEF Agent!HandOut, AgentInv, TasksApart
      <3>2. call.op = "registered" => call.task \in {c.task}
        BY <1>1
      <3>3. QED
        BY <2>2, <3>1 DEF Agent!HandOut, Rest
    <2>3. CASE Agent!ExportFails(c)
      <3>1. call \in calls => c.task \in tasks
        BY <1>1 DEF AgentInv, TasksApart
      <3>2. QED
        BY <2>3, <3>1 DEF Agent!ExportFails, Rest
    <2>4. QED
      BY <2>1, <2>2, <2>3
  <1>3. /\ Known' \subseteq Known /\ Parses' \subseteq Parses /\ Decisions' \subseteq Decisions
        /\ \A x \in calls' : x.op = "registered" => x.task \in tasks'
    <2>1. \A x \in calls' : x \in calls \/ x = call
      BY <1>2
    <2>2. \A x \in calls : x.op = "registered" => x.task \in tasks
      BY DEF AgentInv, TasksApart
    <2>3. tasks \subseteq tasks'
      BY <1>2
    <2>4. QED
      BY <1>1, <1>2, <2>1, <2>2, <2>3 DEF Known, Exports, Parses, Decisions
  <1>4. TasksApart' /\ WorkFounded' /\ ReviewsHold' /\ DecidedOnce' /\ ReviewsAnswer' /\ Single' /\ Dropped'
    <2>1. tasks \subseteq tasks' /\ sheets \subseteq sheets'
      BY <1>2
    <2>2. QED
      BY <1>2, <1>3, <2>1, Undisturbed DEF Rest
  <1>5. sheets' \subseteq tasks' /\ c.task \in Sheet
    BY <1>1, <1>2 DEF AgentInv, AgentTypes, TasksApart
  <1>6. ledger' \in Seq(Sheet) /\ Len(ledger') <= LedgerLimit /\ \A i \in DOMAIN ledger' : ledger'[i] \in sheets'
    <2>1. ledger \in Seq(Sheet) /\ Len(ledger) <= LedgerLimit /\ \A i \in DOMAIN ledger : ledger[i] \in sheets
      BY DEF AgentInv, AgentTypes
    <2>2. CASE ledger' = ledger
      BY <1>2, <2>1, <2>2
    <2>3. CASE ledger' = Agent!Recorded(ledger, c.task) /\ sheets' = sheets \cup {c.task}
      <3> DEFINE all == Append(ledger, c.task)
      <3>1. /\ all \in Seq(Sheet) /\ Len(all) = Len(ledger) + 1 /\ all # <<>>
            /\ \A i \in DOMAIN all : (i \in DOMAIN ledger /\ all[i] = ledger[i]) \/ all[i] = c.task
        BY <1>1, <2>1
      <3>2. ledger' = IF Len(all) > LedgerLimit THEN Tail(all) ELSE all
        BY <2>3 DEF Agent!Recorded
      <3>3. \A i \in DOMAIN all : all[i] \in sheets'
        BY <2>1, <2>3, <3>1
      <3> HIDE DEF all
      <3>4. CASE Len(all) > LedgerLimit
        <4>1. /\ Tail(all) \in Seq(Sheet) /\ Len(Tail(all)) = Len(all) - 1
              /\ \A i \in DOMAIN Tail(all) : i + 1 \in DOMAIN all /\ Tail(all)[i] = all[i + 1]
          BY <3>1
        <4>2. Len(ledger) \in Nat /\ Len(all) \in Nat
          BY <2>1, <3>1
        <4>3. QED
          BY <2>1, <3>1, <3>2, <3>3, <3>4, <4>1, <4>2, AgentBounds
      <3>5. CASE ~(Len(all) > LedgerLimit)
        <4>1. Len(all) \in Nat
          BY <3>1
        <4>2. QED
          BY <3>1, <3>2, <3>3, <3>5, <4>1, AgentBounds
      <3>6. QED
        BY <3>4, <3>5
    <2>4. QED
      BY <2>2, <2>3 DEF Agent!RegisterTask, Agent!HandOut, Agent!ExportFails
  <1>7. AgentTypes'
    BY <1>1, <1>2, <1>5, <1>6 DEF AgentInv, AgentTypes, Rest
  <1>8. QED
    BY <1>4, <1>7 DEF AgentInv

-----------------------------------------------------------------------------
(* Responses.                                                              *)
LEMMA ListIs ==
  ASSUME NEW S \in SUBSET Listed, IsFiniteSet(S), \A x, y \in S : x.key = y.key => x = y
  PROVE  LET list == Agent!SetToSeq(S)
         IN  list \in Seq(Listed) /\ Apart(list) /\ \A i \in DOMAIN list : list[i] \in S
  <1> DEFINE n == Cardinality(S)
  <1>1. n \in Nat /\ ExistsBijection(1..n, S)
    BY FS_CardinalityType
  <1>2. \E f \in [1..n -> S] : Agent!IsInjective(f)
    <2> HIDE DEF n
    <2>1. QED
      BY <1>1 DEF ExistsBijection, Bijection, Injection, IsInjective, Agent!IsInjective
  <1>3. Agent!Cardinality(S) = n
    BY DEF Agent!Cardinality, Cardinality, Agent!IsFiniteSet, IsFiniteSet
  <1> HIDE DEF n
  <1> DEFINE list == Agent!SetToSeq(S)
  <1>4. list \in [1..n -> S] /\ Agent!IsInjective(list)
    BY <1>2, <1>3, Zenon DEF Agent!SetToSeq
  <1> HIDE DEF list
  <1>5. list \in Seq(Listed) /\ DOMAIN list = 1..n /\ \A i \in 1..n : list[i] \in S
    BY <1>1, <1>4
  <1>6. Apart(list)
    BY <1>4, <1>5 DEF Apart, Agent!IsInjective
  <1>7. QED
    BY <1>5, <1>6 DEF list

LEMMA ParseKeeps ==
  ASSUME AgentInv, NEW paper \in sheets, NEW echo \in Agent!Echoes(paper), NEW strict \in BOOLEAN,
         Agent!Parse(echo, strict)
  PROVE  AgentInv'
  <1>a. PICK new, call : /\ new = Agent!NewProposals(echo)
                        /\ call = [op |-> "parse", n |-> steps, echo |-> echo, left |-> new, docId |-> doc.id,
                                   list |-> Agent!SetToSeq({Agent!Review(echo, p) : p \in new})]
    OBVIOUS
  <1>0. /\ steps < MaxSteps /\ steps' = steps + 1 /\ calls' = calls \cup {call}
        /\ strays' = IF \E c \in calls : c.op = "parse" THEN strays \cup {<<"parsed twice", Agent!NoKey>>}
                     ELSE strays
        /\ UNCHANGED Rest /\ UNCHANGED <<ledger, tasks, sheets, reviews, proposed, decided, seen>>
        /\ Agent!Correlates(echo)
    BY <1>a DEF Agent!Parse, Agent!Counted, Rest
  <1>1. /\ AgentTypes /\ steps \in 0..MaxSteps /\ steps' \in 0..MaxSteps /\ MaxSteps \in Nat /\ steps \in Nat
        /\ doc \in Document /\ paper \in Sheet /\ ledger \in Seq(Sheet)
        /\ \A i \in DOMAIN ledger : ledger[i] \in sheets
    <2>1. AgentTypes /\ steps \in 0..MaxSteps /\ MaxSteps \in Nat /\ sheets \subseteq tasks /\ tasks \subseteq Sheet
      BY AgentBounds DEF AgentInv, AgentTypes
    <2>a. steps < MaxSteps /\ steps' = steps + 1
      BY <1>0
    <2>2. steps' \in 0..MaxSteps /\ steps \in Nat
      BY <2>1, <2>a
    <2>3. QED
      BY <2>1, <2>2 DEF AgentTypes
  <1>2. echo \in [some : BOOLEAN, of : Sheet]
    <2>1. [paper EXCEPT !.cards = {}] \in Sheet
      BY <1>1 DEF Sheet
    <2>2. echo \in {[some |-> TRUE, of |-> paper], [some |-> TRUE, of |-> [paper EXCEPT !.cards = {}]],
                    [some |-> FALSE, of |-> paper]}
      BY DEF Agent!Echoes
    <2>3. PICK some \in BOOLEAN, of \in Sheet : echo = [some |-> some, of |-> of]
      BY <1>1, <2>1, <2>2, Zenon
    <2>4. QED
      BY <2>3
  <1>3. echo.some => echo.of \in sheets /\ echo.of.doc = doc.id
    BY <1>0, <1>1, Zenon DEF Agent!Correlates, Agent!ToSet
  <1>4. /\ new \subseteq {"p1", "p2"}
        /\ \A p \in new, i \in DOMAIN reviews : reviews[i].key # Agent!Key(echo.of.task, p)
    BY <1>a DEF Agent!NewProposals, Agent!KeysOf
  <1> DEFINE S == {Agent!Review(echo, p) : p \in new}
  <1>5. \A p \in new : LET v == Agent!Review(echo, p) IN
           /\ v \in Listed /\ v.key = <<echo.of.task, p>> /\ v.status = "pending" /\ v.audited = echo.some
           /\ v.bundle = echo.of /\ v.doc = doc.id
    <2> SUFFICES ASSUME NEW p \in new
                 PROVE  LET v == Agent!Review(echo, p) IN
           /\ v \in Listed /\ v.key = <<echo.of.task, p>> /\ v.status = "pending" /\ v.audited = echo.some
           /\ v.bundle = echo.of /\ v.doc = doc.id
      OBVIOUS
    <2>1. Agent!Key(echo.of.task, p) \in Refs /\ Agent!Key(echo.of.task, p) = <<echo.of.task, p>>
      <3>1. echo.of.task \in 0..MaxSteps /\ p \in {"p1", "p2"}
        BY <1>2, <1>4 DEF Sheet
      <3>2. QED
        BY <3>1, AgentWords
    <2>2. Agent!Orphaned(p) \in BOOLEAN /\ Agent!Mismatch(p, echo) \in BOOLEAN
      BY DEF Agent!Orphaned, Agent!Mismatch
    <2>3. doc.id \in DocIds
      BY <1>1 DEF Document
    <2>4. QED
      BY <1>2, <2>1, <2>2, <2>3 DEF Agent!Review, Listed
  <1>6. S \in SUBSET Listed /\ \A x, y \in S : x.key = y.key => x = y
    BY <1>5
  <1>7. IsFiniteSet(S)
    <2> DEFINE a == Agent!Review(echo, "p1")
               b == Agent!Review(echo, "p2")
    <2>1. IsFiniteSet({} \cup {a})
      BY FS_EmptySet, FS_AddElement
    <2>2. IsFiniteSet(({} \cup {a}) \cup {b})
      BY <2>1, FS_AddElement
    <2>3. S \subseteq ({} \cup {a}) \cup {b}
      BY <1>4
    <2> HIDE DEF S, a, b
    <2>4. QED
      BY <2>2, <2>3, FS_Subset
  <1>8. \A x \in S : /\ x.status = "pending" /\ x.audited = echo.some /\ x.bundle = echo.of /\ x.doc = doc.id
                      /\ \A i \in DOMAIN reviews : reviews[i].key # x.key
    BY <1>4, <1>5, AgentWords
  <1> HIDE DEF S
  <1>9. /\ call.op = "parse" /\ call.echo = echo /\ call.docId = doc.id /\ call.list \in Seq(Listed)
        /\ Apart(call.list) /\ \A i \in DOMAIN call.list : call.list[i] \in S
    BY <1>a, <1>6, <1>7, ListIs DEF S
  <1>10. call \in ParseCall
    BY <1>a, <1>1, <1>2, <1>4, <1>9 DEF ParseCall, Document
  <1>11. Correlated(call)
    BY <1>3, <1>8, <1>9 DEF Correlated
  <1>12. /\ strays \subseteq strays' /\ Exports' = Exports /\ Parses' = Parses \cup {call}
         /\ Decisions' = Decisions /\ Known' = Known
    BY <1>0, <1>9 DEF Exports, Parses, Decisions, Known
  <1>13. AgentTypes'
    BY <1>0, <1>1, <1>10 DEF AgentTypes, Rest
  <1>14. TasksApart'
    <2>1. \A t : Shows(t) => Shows(t)'
      BY <1>12 DEF Shows
    <2>2. \A t \in Known : t.task \in 0..MaxSteps
      BY <1>1, CallKinds DEF Sheet
    <2>3. \A c \in calls' : c.op = "registered" => c.task \in tasks'
      BY <1>0, <1>9 DEF AgentInv, TasksApart
    <2>4. QED
      <3>1. \A t \in Known : (t.task < steps \/ t.task = MaxSteps) /\ Shows(t)
        BY DEF AgentInv, TasksApart
      <3>2. \A t \in Known' : (t.task < steps' \/ t.task = MaxSteps) /\ Shows(t)'
        <4>1. steps' = steps + 1 /\ steps \in Nat
          BY <1>0, <1>1
        <4>2. \A t \in Known : t.task < steps => t.task < steps'
          BY <2>2, <4>1, <1>1
        <4>3. QED
          BY <1>12, <2>1, <3>1, <4>2
      <3>3. \A t, u \in Known' : t.task = u.task => t = u
        BY <1>12 DEF AgentInv, TasksApart
      <3>4. QED
        BY <2>3, <3>2, <3>3 DEF TasksApart
  <1>15. ReviewsAnswer'
    <2>1. \A c : Correlated(c) => Correlated(c)'
      BY <1>0 DEF Correlated
    <2>2. QED
      BY <1>0, <1>11, <1>12, <2>1 DEF ReviewsAnswer, AgentInv
  <1>16. Single'
    <2>1. CASE \E c \in calls : c.op = "parse"
      BY <1>0, <2>1 DEF Single
    <2>2. CASE ~ \E c \in calls : c.op = "parse"
      <3>1. Parses' = {call}
        BY <1>12, <2>2 DEF Parses
      <3>2. \A i \in DOMAIN call.list, j \in DOMAIN reviews : call.list[i].key # reviews[j].key
        BY <1>8, <1>9
      <3>3. Apart(reviews)' <=> Apart(reviews)
        BY <1>0 DEF Apart
      <3>4. QED
        BY <1>0, <1>12, <3>1, <3>2, <3>3 DEF Single, AgentInv
    <2>3. QED
      BY <2>1, <2>2
  <1>17. WorkFounded' /\ ReviewsHold' /\ DecidedOnce' /\ Dropped'
    BY <1>0, <1>12, Undisturbed DEF Rest
  <1>18. QED
    BY <1>13, <1>14, <1>15, <1>16, <1>17 DEF AgentInv

LEMMA RegisterProposalKeeps ==
  ASSUME AgentInv, NEW c \in calls, NEW p \in {"p1", "p2"}, Agent!RegisterProposal(c, p)
  PROVE  AgentInv'
  <1>a. PICK call, entry : /\ call = [c EXCEPT !.left = @ \ {p}]
                          /\ entry = [doc |-> c.docId, key |-> Agent!Key(c.echo.of.task, p)]
    OBVIOUS
  <1>0. /\ c.op = "parse" /\ c.echo.some /\ c.echo.of \in tasks
        /\ proposed' = proposed \cup {entry} /\ calls' = (calls \ {c}) \cup {call}
        /\ UNCHANGED Rest
        /\ UNCHANGED <<ledger, tasks, sheets, reviews, decided, steps, seen, strays>>
    BY <1>a DEF Agent!RegisterProposal, Rest
  <1>1. AgentTypes /\ c \in ParseCall /\ c \in Parses /\ Correlated(c)
    BY <1>0, CallKinds DEF AgentInv, ReviewsAnswer, Parses
  <1>2. /\ call \in ParseCall /\ call.op = "parse" /\ call.echo = c.echo /\ call.docId = c.docId
        /\ call.list = c.list
    BY <1>a, <1>1 DEF ParseCall
  <1>3. entry \in [doc : DocIds, key : Refs] /\ entry.doc = c.echo.of.doc /\ entry.key[1] = c.echo.of.task
    <2>1. c.echo.of.task \in 0..MaxSteps /\ c.docId \in DocIds
      BY <1>1 DEF ParseCall, Sheet
    <2>2. Agent!Key(c.echo.of.task, p) \in Refs /\ Agent!Key(c.echo.of.task, p) = <<c.echo.of.task, p>>
      BY <2>1, AgentWords
    <2>3. QED
      BY <1>a, <1>0, <1>1, <2>1, <2>2 DEF Correlated
  <1>4. /\ Exports' = Exports /\ Parses' = (Parses \ {c}) \cup {call} /\ Decisions' = Decisions /\ Known' = Known
    BY <1>0, <1>2 DEF Exports, Parses, Decisions, Known
  <1>5. AgentTypes'
    BY <1>0, <1>1, <1>2, <1>3 DEF AgentTypes, Rest
  <1>6. Correlated(call)
    BY <1>1, <1>2 DEF Correlated
  <1>7. ReviewsAnswer'
    <2>1. \A x : Correlated(x) => Correlated(x)'
      BY <1>0 DEF Correlated
    <2>2. QED
      BY <1>0, <1>4, <1>6, <2>1 DEF ReviewsAnswer, AgentInv
  <1>8. Single'
    <2>1. Apart(reviews)' <=> Apart(reviews)
      BY <1>0 DEF Apart
    <2>2. QED
      <3>1. CASE <<"parsed twice", Agent!NoKey>> \in strays
        BY <1>0, <3>1 DEF Single
      <3>2. CASE <<"parsed twice", Agent!NoKey>> \notin strays
        <4>1. Apart(reviews) /\ Parses = {c}
          BY <1>1, <3>2 DEF Single, AgentInv
        <4>2. \A i \in DOMAIN c.list, j \in DOMAIN reviews : c.list[i].key # reviews[j].key
          BY <1>1, <3>2 DEF Single, AgentInv
        <4>3. Parses' = {call}
          BY <1>4, <4>1
        <4>4. QED
          <5>1. \A x, y \in Parses' : x = y
            BY <4>3
          <5>2. \A x \in Parses' : \A i \in DOMAIN x.list, j \in DOMAIN reviews' : x.list[i].key # reviews'[j].key
            BY <1>0, <1>2, <4>2, <4>3
          <5>3. QED
            BY <2>1, <4>1, <5>1, <5>2 DEF Single
      <3>3. QED
        BY <3>1, <3>2
  <1>9. DecidedOnce'
    BY <1>0, <1>3, <1>4 DEF AgentInv, DecidedOnce
  <1>10. \A x \in calls' : x.op = "registered" => x.task \in tasks'
    BY <1>0, <1>2 DEF AgentInv, TasksApart
  <1>11. TasksApart' /\ WorkFounded' /\ ReviewsHold' /\ Dropped'
    BY <1>0, <1>4, <1>10, Undisturbed DEF Rest
  <1>12. QED
    BY <1>5, <1>7, <1>8, <1>9, <1>11 DEF AgentInv

LEMMA ParseFailsKeeps == ASSUME AgentInv, NEW c \in calls, Agent!ParseFails(c) PROVE AgentInv'
  <1>1. /\ calls' = calls \ {c} /\ UNCHANGED Rest
        /\ UNCHANGED <<ledger, tasks, sheets, reviews, proposed, decided, steps, seen, strays>>
    BY DEF Agent!ParseFails, Rest
  <1>2. /\ Known' \subseteq Known /\ Parses' \subseteq Parses /\ Decisions' \subseteq Decisions
        /\ \A x \in calls' : x.op = "registered" => x.task \in tasks'
    BY <1>1 DEF Known, Exports, Parses, Decisions, AgentInv, TasksApart
  <1>3. AgentTypes'
    BY <1>1 DEF AgentInv, AgentTypes, Rest
  <1>4. TasksApart' /\ WorkFounded' /\ ReviewsHold' /\ DecidedOnce' /\ ReviewsAnswer' /\ Single' /\ Dropped'
    BY <1>1, <1>2, Undisturbed DEF Rest
  <1>5. QED
    BY <1>3, <1>4 DEF AgentInv

LEMMA ParseDoneKeeps == ASSUME AgentInv, NEW c \in calls, Agent!ParseDone(c) PROVE AgentInv'
  <1> DEFINE rs == reviews \o c.list
  <1>0. /\ c.op = "parse" /\ reviews' = Agent!Bounded(rs) /\ seen' = seen \cup {c.list[i].key : i \in DOMAIN c.list}
        /\ strays' = strays \cup {<<"again", k>> : k \in {c.list[i].key : i \in DOMAIN c.list} \cap seen}
        /\ calls' = calls \ {c} /\ UNCHANGED Rest
        /\ UNCHANGED <<ledger, tasks, sheets, proposed, decided, steps>>
    BY Zenon DEF Agent!ParseDone, Rest, Agent!KeysOf
  <1>1. AgentTypes /\ c \in ParseCall /\ c \in Parses /\ Correlated(c)
    BY <1>0, CallKinds DEF AgentInv, ReviewsAnswer, Parses
  <1>2. /\ reviews \in Seq(Listed) /\ c.list \in Seq(Listed) /\ Len(reviews) \in Nat /\ Len(c.list) \in Nat
        /\ DOMAIN reviews = 1..Len(reviews) /\ DOMAIN c.list = 1..Len(c.list)
    BY <1>1 DEF AgentTypes, ParseCall
  <1>3. /\ rs \in Seq(Listed) /\ DOMAIN rs = 1..(Len(reviews) + Len(c.list))
        /\ \A i \in 1..(Len(reviews) + Len(c.list)) :
             rs[i] = IF i <= Len(reviews) THEN reviews[i] ELSE c.list[i - Len(reviews)]
    BY <1>2
  <1>4. \A n \in DOMAIN reviews' : (\E i \in DOMAIN reviews : reviews'[n] = reviews[i])
                                   \/ (\E i \in DOMAIN c.list : reviews'[n] = c.list[i])
    <2> SUFFICES ASSUME NEW n \in DOMAIN reviews'
                 PROVE  (\E i \in DOMAIN reviews : reviews'[n] = reviews[i])
                        \/ (\E i \in DOMAIN c.list : reviews'[n] = c.list[i])
      OBVIOUS
    <2> HIDE DEF rs
    <2>1. PICK i \in DOMAIN rs : reviews'[n] = rs[i]
      BY <1>0, <1>3, BoundedKeeps
    <2>2. CASE i <= Len(reviews)
      BY <1>2, <1>3, <2>1, <2>2
    <2>3. CASE ~(i <= Len(reviews))
      <3>1. i - Len(reviews) \in DOMAIN c.list
        BY <1>2, <1>3, <2>3
      <3>2. QED
        BY <1>3, <2>1, <2>3, <3>1
    <2>4. QED
      BY <2>2, <2>3
  <1>5. /\ \A i \in DOMAIN reviews : i \in DOMAIN rs /\ rs[i] = reviews[i]
        /\ \A i \in DOMAIN c.list : Len(reviews) + i \in DOMAIN rs /\ rs[Len(reviews) + i] = c.list[i]
    BY <1>2, <1>3
  <1>6. /\ reviews' \in Seq(Listed) /\ (Apart(rs) => Apart(reviews'))
        /\ \A i \in DOMAIN rs : rs[i].status = "pending" => \E n \in DOMAIN reviews' : reviews'[n] = rs[i]
    <2> HIDE DEF rs
    <2>1. QED
      BY <1>0, <1>3, BoundedKeeps
  <1> HIDE DEF rs
  <1>7. \A i \in DOMAIN c.list : /\ c.list[i].status = "pending" /\ c.list[i].key \in Refs
                                /\ c.list[i].audited = c.echo.some /\ c.list[i].bundle = c.echo.of
                                /\ c.list[i].doc = c.docId
    <2>1. \A i \in DOMAIN c.list : c.list[i] \in Listed
      BY <1>2
    <2>2. \A i \in DOMAIN c.list : c.list[i].key \in Refs
      BY <2>1 DEF Listed
    <2>3. QED
      BY <1>1, <2>2 DEF Correlated
  <1>8. /\ strays \subseteq strays' /\ seen \subseteq seen' /\ Known' = Known /\ Parses' = Parses \ {c}
        /\ Decisions' = Decisions /\ \A x \in calls' : x.op = "registered" => x.task \in tasks'
    BY <1>0 DEF Known, Exports, Parses, Decisions, AgentInv, TasksApart
  <1>9. AgentTypes'
    BY <1>0, <1>1, <1>6, <1>7 DEF AgentTypes, Rest
  <1>10. TasksApart' /\ WorkFounded' /\ DecidedOnce'
    BY <1>0, <1>8, Undisturbed DEF Rest
  <1>11. ReviewsAnswer'
    <2>1. \A x \in Parses : Correlated(x)'
      BY <1>0 DEF Correlated, AgentInv, ReviewsAnswer
    <2>2. ASSUME NEW n \in DOMAIN reviews'
          PROVE  /\ reviews'[n].key \in seen'
                 /\ reviews'[n].audited => /\ reviews'[n].bundle \in sheets'
                                           /\ reviews'[n].bundle.doc = reviews'[n].doc
      <3>1. CASE \E i \in DOMAIN reviews : reviews'[n] = reviews[i]
        BY <1>0, <1>8, <3>1 DEF AgentInv, ReviewsAnswer
      <3>2. CASE \E i \in DOMAIN c.list : reviews'[n] = c.list[i]
        BY <1>0, <1>1, <1>7, <3>2 DEF Correlated
      <3>3. QED
        BY <1>4, <3>1, <3>2
    <2>3. QED
      BY <1>8, <2>1, <2>2 DEF ReviewsAnswer
  <1>12. Single'
    <2>1. CASE <<"parsed twice", Agent!NoKey>> \in strays
      BY <1>8, <2>1 DEF Single
    <2>2. CASE <<"parsed twice", Agent!NoKey>> \notin strays
      <3>1. /\ Apart(reviews) /\ Apart(c.list) /\ Parses' = {}
            /\ \A i \in DOMAIN c.list, j \in DOMAIN reviews : c.list[i].key # reviews[j].key
        BY <1>1, <1>8, <2>2 DEF AgentInv, Single, Correlated
      <3>2. ASSUME NEW i \in DOMAIN rs, NEW j \in DOMAIN rs, rs[i].key = rs[j].key PROVE i = j
        <4>1. ASSUME NEW m \in DOMAIN rs
              PROVE  /\ m <= Len(reviews) => m \in DOMAIN reviews /\ rs[m] = reviews[m]
                     /\ ~(m <= Len(reviews)) => m - Len(reviews) \in DOMAIN c.list /\ rs[m] = c.list[m - Len(reviews)]
          BY <1>2, <1>3
        <4>2. i \in Int /\ j \in Int /\ Len(reviews) \in Int
          BY <1>2, <1>3
        <4>3. CASE i <= Len(reviews) /\ j <= Len(reviews)
          BY <3>1, <3>2, <4>1, <4>3 DEF Apart
        <4>4. CASE ~(i <= Len(reviews)) /\ ~(j <= Len(reviews))
          <5>1. i - Len(reviews) = j - Len(reviews)
            BY <3>1, <3>2, <4>1, <4>4 DEF Apart
          <5>2. QED
            BY <4>2, <5>1
        <4>5. CASE i <= Len(reviews) /\ ~(j <= Len(reviews))
          BY <3>1, <3>2, <4>1, <4>5
        <4>6. CASE ~(i <= Len(reviews)) /\ j <= Len(reviews)
          BY <3>1, <3>2, <4>1, <4>6
        <4>7. QED
          BY <4>3, <4>4, <4>5, <4>6
      <3>3. Apart(reviews')
        BY <1>6, <3>2 DEF Apart
      <3>4. QED
        BY <3>1, <3>3 DEF Single, Apart
    <2>3. QED
      BY <2>1, <2>2
  <1>13. ReviewsHold'
    <2>1. \A k : IsDecided(k)' <=> IsDecided(k)
      BY <1>0 DEF IsDecided
    <2>2. ASSUME NEW n \in DOMAIN reviews', NEW i \in DOMAIN c.list, reviews'[n] = c.list[i], IsDecided(c.list[i].key)
          PROVE  <<"again", c.list[i].key>> \in strays'
      <3>1. c.list[i].key \in seen
        BY <2>2 DEF IsDecided, AgentInv, DecidedOnce
      <3>2. QED
        BY <1>0, <3>1
    <2>3. \A n \in DOMAIN reviews' : (\E i \in DOMAIN reviews : reviews'[n] = reviews[i])
                                    \/ (reviews'[n].status = "pending" /\ (IsDecided(reviews'[n].key) =>
                                           <<"again", reviews'[n].key>> \in strays'))
      BY <1>4, <1>7, <2>2
    <2>4. QED
      BY <1>0, <1>8, <2>1, <2>3 DEF ReviewsHold, AgentInv
  <1>14. Dropped'
    <2> SUFFICES ASSUME NEW k \in seen', ~IsDecided(k)
                 PROVE  \E n \in DOMAIN reviews' : reviews'[n].key = k
      BY <1>0 DEF Dropped, IsDecided
    <2>1. CASE \E i \in DOMAIN c.list : c.list[i].key = k
      <3>1. PICK i \in DOMAIN c.list : c.list[i].key = k
        BY <2>1
      <3>2. \E n \in DOMAIN reviews' : reviews'[n] = c.list[i]
        BY <1>5, <1>6, <1>7, <3>1
      <3>3. QED
        BY <3>1, <3>2
    <2>2. CASE k \in seen
      <3>1. PICK i \in DOMAIN reviews : reviews[i].key = k
        BY <2>2 DEF AgentInv, Dropped
      <3>2. reviews[i].status \in {"pending", "adopted", "rejected"}
        <4>1. reviews[i] \in Listed
          BY <1>2
        <4>2. QED
          BY <4>1 DEF Listed
      <3>3. reviews[i].status = "pending"
        BY <3>1, <3>2 DEF AgentInv, ReviewsHold
      <3>4. \E n \in DOMAIN reviews' : reviews'[n] = reviews[i]
        BY <1>5, <1>6, <3>3
      <3>5. QED
        BY <3>1, <3>4
    <2>3. QED
      BY <1>0, <2>1, <2>2
  <1>15. QED
    BY <1>9, <1>10, <1>11, <1>12, <1>13, <1>14 DEF AgentInv

-----------------------------------------------------------------------------
(* Decisions.                                                              *)
LEMMA ReviewOfIs ==
  ASSUME AgentTypes, NEW k \in Agent!KeysOf(reviews)
  PROVE  \E i \in DOMAIN reviews : reviews[i].key = k /\ Agent!ReviewOf(k) = reviews[i]
  <1> DEFINE At == {i \in DOMAIN reviews : reviews[i].key = k}
             First(i) == reviews[i].key = k /\ \A j \in 1..i - 1 : reviews[j].key # k
  <1>1. DOMAIN reviews = 1..Len(reviews) /\ Len(reviews) \in Nat
    BY DEF AgentTypes
  <1>2. At \in SUBSET Nat /\ At # {}
    BY <1>1 DEF Agent!KeysOf
  <1>3. PICK m \in At : \A y \in At : m <= y
    BY <1>2, LeastNumber
  <1>4. ASSUME NEW j \in 1..m - 1 PROVE reviews[j].key # k
    <2>1. j \in DOMAIN reviews /\ ~(m <= j)
      BY <1>1, <1>3
    <2>2. QED
      BY <1>3, <2>1
  <1>5. \E i \in DOMAIN reviews : First(i)
    BY <1>3, <1>4
  <1>6. Agent!ReviewOf(k) = reviews[CHOOSE i \in DOMAIN reviews : First(i)]
    BY DEF Agent!ReviewOf
  <1>7. QED
    BY <1>5, <1>6

LEMMA AskKeeps ==
  ASSUME AgentInv, NEW k \in Agent!KeysOf(reviews), NEW decision \in {"adopt", "reject"},
         Agent!Ask(k, decision)
  PROVE  AgentInv'
  <1>a. PICK r, call : /\ r = Agent!ReviewOf(k)
                      /\ call = [op |-> decision, n |-> steps, key |-> k, doc |-> doc,
                                 readOnly |-> readOnly, review |-> r]
    OBVIOUS
  <1>0. /\ r.status = "pending" /\ steps < MaxSteps /\ steps' = steps + 1 /\ calls' = calls \cup {call}
        /\ UNCHANGED Rest /\ UNCHANGED <<ledger, tasks, sheets, reviews, proposed, decided, seen>>
    BY <1>a DEF Agent!Ask, Agent!Counted, Rest
  <1>1. strays \subseteq strays'
    BY DEF Agent!Ask
  <1>2. AgentTypes /\ steps \in 0..MaxSteps /\ MaxSteps \in Nat /\ doc \in Document /\ readOnly \in BOOLEAN
    BY AgentBounds DEF AgentInv, AgentTypes
  <1>3. PICK i \in DOMAIN reviews : reviews[i].key = k /\ r = reviews[i]
    BY <1>a, <1>2, ReviewOfIs
  <1>4. r \in Listed /\ k \in Refs /\ k \in seen
    <2>1. reviews[i] \in Listed
      BY <1>2 DEF AgentTypes
    <2>2. QED
      BY <1>3, <2>1 DEF Listed, AgentInv, ReviewsAnswer
  <1>5. call \in DecisionCall /\ call.op = decision /\ call.key = k /\ call.doc = doc
    <2>1. steps \in Nat
      BY <1>2
    <2>2. QED
      BY <1>a, <1>2, <1>4, <2>1 DEF DecisionCall
  <1>6. steps' \in 0..MaxSteps /\ steps \in Nat
    BY <1>0, <1>2
  <1>7. Exports' = Exports /\ Parses' = Parses /\ Decisions' = Decisions \cup {call} /\ Known' = Known
    BY <1>0, <1>5 DEF Exports, Parses, Decisions, Known
  <1>8. AgentTypes'
    BY <1>0, <1>2, <1>5, <1>6 DEF AgentTypes, Rest
  <1>9. TasksApart'
    <2>1. \A t : Shows(t) => Shows(t)'
      BY <1>1 DEF Shows
    <2>2. \A t \in Known : t.task \in 0..MaxSteps
      BY <1>2, CallKinds DEF Sheet
    <2>3. \A c \in calls' : c.op = "registered" => c.task \in tasks'
      BY <1>0, <1>5 DEF AgentInv, TasksApart
    <2>4. \A t \in Known : t.task < steps => t.task < steps'
      BY <1>0, <1>2, <2>2
    <2>5. \A t \in Known' : (t.task < steps' \/ t.task = MaxSteps) /\ Shows(t)'
      BY <1>7, <2>1, <2>4 DEF AgentInv, TasksApart
    <2>6. \A t, u \in Known' : t.task = u.task => t = u
      BY <1>7 DEF AgentInv, TasksApart
    <2>7. QED
      BY <2>3, <2>5, <2>6 DEF TasksApart
  <1>10. WorkFounded'
    <2>1. \A x : (IsDecided(x) <=> IsDecided(x)') /\ (Excused(x) => Excused(x)')
      BY <1>0, <1>1 DEF IsDecided, Excused
    <2>2. \A d : Founded(d) => Founded(d)'
      BY <2>1 DEF Founded
    <2>3. ASSUME NEW n \in DOMAIN doc.work, doc.work[n] = k, k # Agent!NoKey PROVE Excused(k)
      <3>1. IsDecided(k)
        BY <2>3 DEF AgentInv, WorkFounded, Founded
      <3>2. QED
        BY <1>0, <1>3, <3>1 DEF AgentInv, ReviewsHold, Excused
    <2>4. \A c \in Decisions' :
            /\ Founded(c.doc)'
            /\ c.op = "adopt" =>
                 \A n \in DOMAIN c.doc.work : c.doc.work[n] = c.key /\ c.key # Agent!NoKey => Excused(c.key)'
      BY <1>5, <1>7, <2>1, <2>2, <2>3 DEF AgentInv, WorkFounded
    <2>5. Founded(doc)' /\ \A n \in DOMAIN past' : Founded(past[n])'
      <3>1. doc' = doc /\ past' = past
        BY <1>0 DEF Rest
      <3>2. Founded(doc) /\ \A n \in DOMAIN past : Founded(past[n])
        BY DEF AgentInv, WorkFounded
      <3>3. Founded(doc)'
        BY <2>1, <3>1, <3>2 DEF Founded
      <3>4. \A n \in DOMAIN past' : Founded(past[n])'
        BY <2>1, <3>1, <3>2 DEF Founded
      <3>5. QED
        BY <3>3, <3>4
    <2>6. QED
      BY <2>4, <2>5 DEF WorkFounded
  <1>11. DecidedOnce'
    <2>1. \A c \in Decisions' : c.key \in seen'
      BY <1>0, <1>4, <1>5, <1>7 DEF AgentInv, DecidedOnce
    <2>2. QED
      BY <1>0, <2>1 DEF AgentInv, DecidedOnce
  <1>12. ReviewsHold' /\ ReviewsAnswer' /\ Single' /\ Dropped'
    BY <1>0, <1>1, <1>7, Undisturbed
  <1>13. QED
    BY <1>8, <1>9, <1>10, <1>11, <1>12 DEF AgentInv

(* The server's part of a decision.                                        *)
LEMMA ServerDecides ==
  ASSUME AgentInv, NEW c \in Decisions, Agent!Agrees(c), decided' = decided \cup {Agent!Decided(c)},
         UNCHANGED <<tasks, proposed, seen>>, Decisions' \subseteq Decisions
  PROVE  /\ DecidedOnce'
         /\ decided' \subseteq [doc : DocIds, key : Refs, as : {"adopt", "reject"}]
         /\ \A e \in decided' : e.key = c.key => e.as = c.op
         /\ IsDecided(c.key)'
         /\ \A e \in decided' : e.key # c.key => e \in decided
  <1>1. AgentTypes /\ c \in DecisionCall /\ Known \subseteq Sheet
    BY CallKinds DEF AgentInv, Decisions
  <1>2. c.op \in {"adopt", "reject"} /\ c.key \in Refs /\ c.doc.id \in DocIds
    BY <1>1 DEF DecisionCall, Document
  <1>3. PICK new : /\ new = [doc |-> c.doc.id, key |-> c.key, as |-> c.op] /\ decided' = decided \cup {new}
                  /\ new.doc = c.doc.id /\ new.key = c.key /\ new.as = c.op
    <2>1. Agent!Decided(c) = [doc |-> c.doc.id, key |-> c.key, as |-> c.op]
      BY DEF Agent!Decided
    <2>2. PICK x : x = [doc |-> c.doc.id, key |-> c.key, as |-> c.op]
      OBVIOUS
    <2>3. x.doc = c.doc.id /\ x.key = c.key /\ x.as = c.op
      BY <2>2
    <2>4. decided' = decided \cup {x}
      BY <2>1, <2>2
    <2>5. QED
      BY <2>2, <2>3, <2>4
  <1>4. /\ [doc |-> c.doc.id, key |-> c.key] \in proposed
        /\ \A e \in decided : e.doc = c.doc.id /\ e.key = c.key => e.as = c.op
    BY DEF Agent!Agrees
  <1>5. ASSUME NEW e \in decided, e.key = c.key PROVE e.as = c.op
    <2>1. [doc |-> e.doc, key |-> e.key] \in proposed
      BY DEF AgentInv, DecidedOnce
    <2>2. PICK t \in tasks : e.key[1] = t.task /\ e.doc = t.doc
      BY <2>1 DEF AgentInv, DecidedOnce
    <2>3. PICK u \in tasks : c.key[1] = u.task /\ c.doc.id = u.doc
      BY <1>4 DEF AgentInv, DecidedOnce
    <2>4. t = u
      BY <1>5, <2>2, <2>3 DEF AgentInv, TasksApart, Known
    <2>5. QED
      BY <1>4, <1>5, <2>2, <2>3, <2>4
  <1>6. \A e \in decided' : e.key = c.key => e.as = c.op
    BY <1>3, <1>5
  <1>7. \A e \in decided' : e.key # c.key => e \in decided
    BY <1>3
  <1>8. \A e, f \in decided' : e.key = f.key => e.as = f.as
    BY <1>6, <1>7 DEF AgentInv, DecidedOnce
  <1>9. \A e \in decided' : [doc |-> e.doc, key |-> e.key] \in proposed' /\ e.key \in seen'
    BY <1>3, <1>4 DEF AgentInv, DecidedOnce
  <1>10. DecidedOnce'
    BY <1>8, <1>9 DEF AgentInv, DecidedOnce
  <1>11. decided' \subseteq [doc : DocIds, key : Refs, as : {"adopt", "reject"}]
    BY <1>1, <1>2, <1>3 DEF AgentTypes
  <1>12. IsDecided(c.key)'
    BY <1>3 DEF IsDecided
  <1>13. QED
    BY <1>6, <1>7, <1>10, <1>11, <1>12

(* Reviews of one key get the status their decision has at the server.     *)
LEMMA MarkedHold ==
  ASSUME AgentInv, NEW k \in Refs, NEW status \in {"adopted", "rejected"}, strays \subseteq strays',
         reviews' = Agent!Marked(status, k), IsDecided(k)',
         \A e \in decided' : e.key = k => e.as = (IF status = "adopted" THEN "adopt" ELSE "reject"),
         decided \subseteq decided', \A e \in decided' : e.key # k => e \in decided,
         sheets' = sheets, seen' = seen, Parses' = Parses
  PROVE  reviews' \in Seq(Listed) /\ ReviewsHold' /\ ReviewsAnswer' /\ Single' /\ Dropped'
  <1>1. reviews \in Seq(Listed) /\ \A i \in DOMAIN reviews : reviews[i] \in Listed
    BY DEF AgentInv, AgentTypes
  <1>2. reviews' = [i \in DOMAIN reviews |-> IF reviews[i].key = k THEN [reviews[i] EXCEPT !.status = status]
                                            ELSE reviews[i]]
    BY DEF Agent!Marked
  <1>3. \A i \in DOMAIN reviews :
          /\ reviews'[i] \in Listed /\ reviews'[i].key = reviews[i].key /\ reviews'[i].audited = reviews[i].audited
          /\ reviews'[i].bundle = reviews[i].bundle /\ reviews'[i].doc = reviews[i].doc
          /\ reviews'[i].status = IF reviews[i].key = k THEN status ELSE reviews[i].status
    BY <1>1, <1>2 DEF Listed
  <1>4. DOMAIN reviews' = DOMAIN reviews
    BY <1>2
  <1>5. reviews' \in Seq(Listed)
    <2>1. Len(reviews) \in Nat /\ DOMAIN reviews = 1..Len(reviews)
      BY <1>1
    <2>2. reviews' \in [1..Len(reviews) -> Listed]
      BY <1>2, <1>3, <2>1
    <2>3. QED
      BY <2>1, <2>2
  <1>6. ReviewsHold'
    <2>1. \A x : x # k => (IsDecided(x)' <=> IsDecided(x)) /\ \A e \in decided' : e.key = x => e \in decided
      BY DEF IsDecided
    <2>2. QED
      BY <1>3, <1>4, <2>1 DEF AgentInv, ReviewsHold
  <1>7. ReviewsAnswer'
    <2>1. \A x : Correlated(x) => Correlated(x)'
      BY DEF Correlated
    <2>2. QED
      BY <1>3, <1>4, <2>1 DEF AgentInv, ReviewsAnswer
  <1>8. Single'
    <2>1. CASE <<"parsed twice", Agent!NoKey>> \in strays
      BY <2>1 DEF Single
    <2>2. CASE <<"parsed twice", Agent!NoKey>> \notin strays
      <3>1. /\ Apart(reviews) /\ \A c, d \in Parses : c = d
            /\ \A c \in Parses : \A i \in DOMAIN c.list, j \in DOMAIN reviews :
                  c.list[i].key # reviews[j].key
        BY <2>2 DEF AgentInv, Single
      <3>2. Apart(reviews')
        BY <1>3, <1>4, <3>1 DEF Apart
      <3>3. \A c, d \in Parses' : c = d
        BY <3>1
      <3>4. \A c \in Parses' : \A i \in DOMAIN c.list, j \in DOMAIN reviews' :
                  c.list[i].key # reviews'[j].key
        BY <1>3, <1>4, <3>1
      <3>5. QED
        BY <3>2, <3>3, <3>4 DEF Single
    <2>3. QED
      BY <2>1, <2>2
  <1>9. Dropped'
    BY <1>3, <1>4 DEF AgentInv, Dropped, IsDecided
  <1>10. QED
    BY <1>5, <1>6, <1>7, <1>8, <1>9

(* A decision that is not shown leaves the open reviews of its key stuck.  *)
LEMMA StuckHold ==
  ASSUME AgentInv, NEW k \in Refs, NEW as \in {"adopt", "reject"}, strays' = strays \cup {<<"stuck", k>>},
         reviews' = reviews, \A e \in decided' : e.key = k => e.as = as,
         decided \subseteq decided', \A e \in decided' : e.key # k => e \in decided
  PROVE  ReviewsHold'
  <1>1. \A x : x # k => (IsDecided(x)' <=> IsDecided(x)) /\ \A e \in decided' : e.key = x => e \in decided
    BY DEF IsDecided
  <1>2. ASSUME NEW i \in DOMAIN reviews, reviews[i].key = k, reviews[i].status \in {"adopted", "rejected"}
        PROVE  /\ IsDecided(k)'
               /\ reviews[i].status = (IF as = "adopt" THEN "adopted" ELSE "rejected")
    <2>1. PICK e \in decided : e.key = k
      BY <1>2 DEF AgentInv, ReviewsHold, IsDecided
    <2>2. e.as = as
      BY <2>1
    <2>3. QED
      BY <1>2, <2>1, <2>2 DEF AgentInv, ReviewsHold, IsDecided
  <1>3. QED
    BY <1>1, <1>2 DEF AgentInv, ReviewsHold

LEMMA DecisionLeaves ==
  ASSUME AgentInv, NEW c \in Decisions, calls' = calls \ {c}, tasks' = tasks
  PROVE  /\ Known' = Known /\ Parses' = Parses /\ Decisions' \subseteq Decisions
         /\ \A x \in calls' : x.op = "registered" => x.task \in tasks'
  <1>1. c.op \in {"adopt", "reject"}
    BY DEF Decisions
  <1>2. QED
    BY <1>1 DEF Known, Exports, Parses, Decisions, AgentInv, TasksApart

LEMMA WorkedFounded ==
  ASSUME AgentInv, NEW c \in Decisions, c.op = "adopt", decided \subseteq decided', strays \subseteq strays',
         IsDecided(c.key)'
  PROVE  Agent!Worked(c) \in Document /\ Founded(Agent!Worked(c))'
  <1>1. c \in DecisionCall /\ c.doc \in Document /\ c.key \in Refs /\ c.doc.work \in Seq(Refs)
    <2>1. c \in DecisionCall
      BY CallKinds DEF AgentInv, Decisions
    <2>2. QED
      BY <2>1 DEF DecisionCall, Document
  <1>a. PICK w : w = Append(c.doc.work, c.key)
    OBVIOUS
  <1>2. /\ w \in Seq(Refs)
        /\ \A i \in DOMAIN w : (i \in DOMAIN c.doc.work /\ w[i] = c.doc.work[i])
                              \/ (i = Len(c.doc.work) + 1 /\ w[i] = c.key)
    BY <1>1, <1>a
  <1>b. PICK d : d = Agent!Worked(c)
    OBVIOUS
  <1>3. d \in Document /\ d.work = w
    <2>1. d = [c.doc EXCEPT !.work = w]
      BY <1>a, <1>b DEF Agent!Worked
    <2>2. QED
      BY <1>1, <1>2, <2>1 DEF Document
  <1>4. \A x : (IsDecided(x) => IsDecided(x)') /\ (Excused(x) => Excused(x)')
    BY DEF IsDecided, Excused
  <1>5. \A i \in DOMAIN w : w[i] # Agent!NoKey => IsDecided(w[i])'
    BY <1>2, <1>4 DEF AgentInv, WorkFounded, Founded
  <1>6. ASSUME NEW i \in DOMAIN w, NEW j \in DOMAIN w, i # j, w[i] = w[j], w[i] # Agent!NoKey PROVE Excused(w[i])'
    <2>1. CASE i \in DOMAIN c.doc.work /\ w[i] = c.doc.work[i] /\ j \in DOMAIN c.doc.work /\ w[j] = c.doc.work[j]
      BY <1>4, <1>6, <2>1 DEF AgentInv, WorkFounded, Founded
    <2>2. CASE i \in DOMAIN c.doc.work /\ w[i] = c.doc.work[i] /\ w[j] = c.key
      BY <1>4, <1>6, <2>2 DEF AgentInv, WorkFounded
    <2>3. CASE w[i] = c.key /\ j \in DOMAIN c.doc.work /\ w[j] = c.doc.work[j]
      BY <1>4, <1>6, <2>3 DEF AgentInv, WorkFounded
    <2>4. QED
      BY <1>2, <1>6, <2>1, <2>2, <2>3
  <1>7. Founded(d)'
    BY <1>3, <1>5, <1>6 DEF Founded
  <1>8. QED
    BY <1>3, <1>7, <1>b DEF Founded, Agent!Worked

LEMMA AdoptDoneKeeps == ASSUME AgentInv, NEW c \in calls, Agent!AdoptDone(c) PROVE AgentInv'
  <1>0. /\ c.op = "adopt" /\ Agent!Agrees(c) /\ decided' = decided \cup {Agent!Decided(c)}
        /\ calls' = calls \ {c}
        /\ UNCHANGED <<stored, scope, readOnly, ledger, tasks, sheets, proposed, steps, seen>>
    BY DEF Agent!AdoptDone
  <1>1. c \in Decisions /\ AgentTypes /\ WorkFounded /\ c \in DecisionCall /\ c.key \in Refs
    <2>1. c \in Decisions /\ AgentTypes /\ WorkFounded /\ c \in DecisionCall
      BY <1>0, CallKinds DEF Decisions, AgentInv
    <2>2. QED
      BY <2>1 DEF DecisionCall
  <1>2. /\ Known' = Known /\ Parses' = Parses /\ Decisions' \subseteq Decisions
        /\ \A x \in calls' : x.op = "registered" => x.task \in tasks'
    BY <1>0, <1>1, DecisionLeaves
  <1>3. /\ DecidedOnce'
        /\ decided' \subseteq [doc : DocIds, key : Refs, as : {"adopt", "reject"}]
        /\ \A e \in decided' : e.key = c.key => e.as = "adopt"
        /\ IsDecided(c.key)'
        /\ \A e \in decided' : e.key # c.key => e \in decided
    BY <1>0, <1>1, <1>2, ServerDecides
  <1>4. decided \subseteq decided' /\ strays \subseteq strays'
    <2>1. CASE Agent!Applies(c)
      BY <1>0, <2>1, Zenon DEF Agent!AdoptDone
    <2>2. CASE ~Agent!Applies(c)
      BY <1>0, <2>2, Zenon DEF Agent!AdoptDone
    <2>3. QED
      BY <2>1, <2>2
  <1>5. TasksApart'
    BY <1>0, <1>2, <1>4, Undisturbed
  <1>6. reviews' \in Seq(Listed) /\ ReviewsHold' /\ ReviewsAnswer' /\ Single' /\ Dropped'
    <2>1. CASE Agent!Applies(c)
      <3>1. reviews' = Agent!Marked("adopted", c.key)
        BY <2>1 DEF Agent!AdoptDone
      <3>2. QED
        BY <1>0, <1>1, <1>2, <1>3, <1>4, <3>1, MarkedHold
    <2>2. CASE ~Agent!Applies(c)
      <3>1. reviews' = reviews /\ strays' = strays \cup {<<"stuck", c.key>>}
        BY <2>2 DEF Agent!AdoptDone
      <3>2. ReviewsHold'
        BY <1>1, <1>3, <1>4, <3>1, StuckHold
      <3>3. reviews' \in Seq(Listed)
        BY <1>1, <3>1 DEF AgentTypes
      <3>4. ReviewsAnswer' /\ Single' /\ Dropped'
        BY <1>0, <1>2, <1>4, <3>1, Undisturbed
      <3>5. QED
        BY <3>2, <3>3, <3>4
    <2>3. QED
      BY <2>1, <2>2
  <1>7. doc' \in Document /\ past' \in Seq(Document) /\ WorkFounded'
    <2>1. CASE Agent!Pushed(Agent!Worked(c))
      <3>1. Agent!Worked(c) \in Document /\ Founded(Agent!Worked(c))'
        BY <1>0, <1>1, <1>3, <1>4, WorkedFounded
      <3>2. doc' = Agent!Worked(c) /\ past' = Append(past, doc) /\ past \in Seq(Document) /\ doc \in Document
        BY <1>1, <2>1 DEF Agent!Pushed, AgentTypes
      <3>3. past' \in Seq(Document)
            /\ \A i \in DOMAIN past' : (i \in DOMAIN past /\ past'[i] = past[i]) \/ past'[i] = doc
        BY <3>2
      <3>4. \A x : (IsDecided(x) => IsDecided(x)') /\ (Excused(x) => Excused(x)')
        BY <1>4 DEF IsDecided, Excused
      <3>5. \A d : Founded(d) => Founded(d)'
        BY <3>4 DEF Founded
      <3>6. Founded(doc)'
        BY <3>1, <3>2 DEF Founded, Agent!Worked
      <3>7. ASSUME NEW i \in DOMAIN past' PROVE Founded(past[i])'
        <4>1. PICK d : d = past'[i]
          OBVIOUS
        <4>2. Founded(d)
          BY <1>1, <3>3, <4>1 DEF WorkFounded
        <4>3. Founded(d)'
          BY <3>5, <4>2
        <4>4. QED
          BY <4>1, <4>3 DEF Founded
      <3>8. \A x \in Decisions' :
              /\ Founded(x.doc)'
              /\ x.op = "adopt" =>
                   \A n \in DOMAIN x.doc.work : x.doc.work[n] = x.key /\ x.key # Agent!NoKey => Excused(x.key)'
        BY <1>1, <1>2, <3>4, <3>5 DEF WorkFounded
      <3>9. WorkFounded'
        BY <3>6, <3>7, <3>8 DEF WorkFounded
      <3>10. QED
        BY <3>1, <3>2, <3>3, <3>9
    <2>2. CASE doc' = doc /\ past' = past
      BY <1>1, <1>2, <1>4, <2>2, Undisturbed DEF AgentTypes
    <2>3. QED
      BY <2>1, <2>2 DEF Agent!AdoptDone
  <1>8. AgentTypes'
    BY <1>0, <1>1, <1>3, <1>6, <1>7 DEF AgentTypes
  <1>9. QED
    BY <1>3, <1>5, <1>6, <1>7, <1>8 DEF AgentInv

LEMMA RejectDoneKeeps == ASSUME AgentInv, NEW c \in calls, Agent!RejectDone(c) PROVE AgentInv'
  <1>0. /\ c.op = "reject" /\ Agent!Agrees(c) /\ decided' = decided \cup {Agent!Decided(c)}
        /\ calls' = calls \ {c} /\ reviews' = Agent!Marked("rejected", c.key)
        /\ UNCHANGED Rest
        /\ UNCHANGED <<ledger, tasks, sheets, proposed, steps, seen, strays>>
    BY DEF Agent!RejectDone, Rest
  <1>1. c \in Decisions /\ AgentTypes /\ c \in DecisionCall /\ c.key \in Refs
    <2>1. c \in Decisions /\ AgentTypes /\ c \in DecisionCall
      BY <1>0, CallKinds DEF Decisions, AgentInv
    <2>2. QED
      BY <2>1 DEF DecisionCall
  <1>2. /\ Known' = Known /\ Parses' = Parses /\ Decisions' \subseteq Decisions
        /\ \A x \in calls' : x.op = "registered" => x.task \in tasks'
    BY <1>0, <1>1, DecisionLeaves
  <1>3. /\ DecidedOnce'
        /\ decided' \subseteq [doc : DocIds, key : Refs, as : {"adopt", "reject"}]
        /\ \A e \in decided' : e.key = c.key => e.as = "reject"
        /\ IsDecided(c.key)'
        /\ \A e \in decided' : e.key # c.key => e \in decided
    BY <1>0, <1>1, <1>2, ServerDecides
  <1>4. decided \subseteq decided' /\ strays \subseteq strays'
    BY <1>0
  <1>5. reviews' \in Seq(Listed) /\ ReviewsHold' /\ ReviewsAnswer' /\ Single' /\ Dropped'
    BY <1>0, <1>1, <1>2, <1>3, <1>4, MarkedHold
  <1>6. TasksApart' /\ WorkFounded'
    BY <1>0, <1>2, <1>4, Undisturbed DEF Rest
  <1>7. AgentTypes'
    BY <1>0, <1>1, <1>3, <1>5 DEF AgentTypes, Rest
  <1>8. QED
    BY <1>3, <1>5, <1>6, <1>7 DEF AgentInv

LEMMA DecisionFailsKeeps == ASSUME AgentInv, NEW c \in calls, Agent!DecisionFails(c) PROVE AgentInv'
  <1>0. /\ c.op \in {"adopt", "reject"} /\ calls' = calls \ {c} /\ UNCHANGED Rest
        /\ UNCHANGED <<ledger, tasks, sheets, reviews, proposed, steps, seen>>
    BY DEF Agent!DecisionFails, Rest
  <1>1. c \in Decisions /\ AgentTypes /\ c \in DecisionCall /\ c.key \in Refs
    <2>1. c \in Decisions /\ AgentTypes /\ c \in DecisionCall
      BY <1>0, CallKinds DEF Decisions, AgentInv
    <2>2. QED
      BY <2>1 DEF DecisionCall
  <1>2. /\ Known' = Known /\ Parses' = Parses /\ Decisions' \subseteq Decisions
        /\ \A x \in calls' : x.op = "registered" => x.task \in tasks'
    BY <1>0, <1>1, DecisionLeaves
  <1>3. CASE decided' = decided /\ strays' = strays
    <2>1. AgentTypes'
      BY <1>0, <1>1, <1>3 DEF AgentTypes, Rest
    <2>2. TasksApart' /\ WorkFounded' /\ ReviewsHold' /\ DecidedOnce' /\ ReviewsAnswer' /\ Single' /\ Dropped'
      BY <1>0, <1>2, <1>3, Undisturbed DEF Rest
    <2>3. QED
      BY <2>1, <2>2 DEF AgentInv
  <1>4. CASE /\ Agent!Agrees(c) /\ decided' = decided \cup {Agent!Decided(c)}
             /\ strays' = strays \cup {<<"stuck", c.key>>}
    <2>1. /\ DecidedOnce'
          /\ decided' \subseteq [doc : DocIds, key : Refs, as : {"adopt", "reject"}]
          /\ \A e \in decided' : e.key = c.key => e.as = c.op
          /\ \A e \in decided' : e.key # c.key => e \in decided
      BY <1>0, <1>1, <1>2, <1>4, ServerDecides
    <2>2. decided \subseteq decided' /\ strays \subseteq strays'
      BY <1>4
    <2>3. ReviewsHold'
      BY <1>0, <1>1, <1>4, <2>1, <2>2, StuckHold
    <2>4. TasksApart' /\ WorkFounded' /\ ReviewsAnswer' /\ Single' /\ Dropped'
      BY <1>0, <1>2, <2>2, Undisturbed DEF Rest
    <2>5. AgentTypes'
      BY <1>0, <1>1, <2>1 DEF AgentTypes, Rest
    <2>6. QED
      BY <2>1, <2>3, <2>4, <2>5 DEF AgentInv
  <1>5. QED
    BY <1>3, <1>4 DEF Agent!DecisionFails

LEMMA NextAgentInv == AgentInv /\ [Agent!Next]_(Agent!agentVars) => AgentInv'
  <1> SUFFICES ASSUME AgentInv, [Agent!Next]_(Agent!agentVars) PROVE AgentInv'
    OBVIOUS
  <1>1. CASE UNCHANGED Agent!agentVars
    <2>1. UNCHANGED Aside /\ UNCHANGED <<doc, past, stored, scope, readOnly, steps>>
      BY <1>1 DEF Agent!agentVars, Aside
    <2>2. /\ steps' \in steps..MaxSteps /\ doc' \in Document /\ past' \in Seq(Document)
          /\ stored' \in [DocIds -> Nat] /\ readOnly' \in BOOLEAN
          /\ scope' \in [cards : SUBSET Cards, safe : BOOLEAN, drafts : BOOLEAN, confirmed : SUBSET Option]
      BY <2>1, AgentBounds DEF AgentInv, AgentTypes
    <2>3. Founded(doc') /\ \A i \in DOMAIN past' : Founded(past'[i])
      BY <2>1 DEF AgentInv, WorkFounded
    <2>4. QED
      BY <2>1, <2>2, <2>3, AsideKeeps
  <1>2. CASE Asides
    BY <1>2, AsidesKeepAgentInv
  <1>3. CASE Agent!ExportTask
    BY <1>3, ExportTaskKeeps
  <1>4. CASE \E paper \in sheets, strict \in BOOLEAN : \E echo \in Agent!Echoes(paper) : Agent!Parse(echo, strict)
    BY <1>4, ParseKeeps
  <1>5. CASE \E k \in Agent!KeysOf(reviews) : Agent!Adopt(k) \/ Agent!Reject(k)
    BY <1>5, AskKeeps DEF Agent!Adopt, Agent!Reject
  <1>6. CASE \E c \in calls :
           \/ Agent!RegisterTask(c) \/ Agent!HandOut(c) \/ Agent!ExportFails(c) \/ Agent!ParseDone(c)
           \/ Agent!ParseFails(c) \/ Agent!AdoptDone(c) \/ Agent!RejectDone(c) \/ Agent!DecisionFails(c)
           \/ \E p \in {"p1", "p2"} : Agent!RegisterProposal(c, p)
    BY <1>6, ExportGoesOn, ParseDoneKeeps, ParseFailsKeeps, AdoptDoneKeeps, RejectDoneKeeps,
       DecisionFailsKeeps, RegisterProposalKeeps
  <1>7. QED
    BY <1>1, <1>2, <1>3, <1>4, <1>5, <1>6, Zenon DEF Agent!Next, Asides

LEMMA OnceCounts ==
  ASSUME AgentTypes, Apart(reviews)
  PROVE  Agent!Cardinality(Agent!KeysOf(reviews)) = Len(reviews)
  <1> DEFINE n == Len(reviews)
             f == [i \in 1..n |-> reviews[i].key]
             K == Agent!KeysOf(reviews)
  <1>1. n \in Nat /\ DOMAIN reviews = 1..n
    BY DEF AgentTypes
  <1>2. K = {reviews[i].key : i \in 1..n}
    BY <1>1 DEF Agent!KeysOf
  <1> HIDE DEF n, K
  <1>3. f \in Bijection(1..n, K)
    BY <1>1, <1>2 DEF Bijection, Injection, Surjection, IsInjective, Apart
  <1>4. ExistsBijection(1..n, K)
    BY <1>3 DEF ExistsBijection
  <1>5. Cardinality(K) = n
    BY <1>1, <1>4, FS_CountingElements
  <1>6. Agent!Cardinality(K) = Cardinality(K)
    BY DEF Agent!Cardinality, Cardinality, Agent!IsFiniteSet, IsFiniteSet
  <1>7. QED
    BY <1>5, <1>6 DEF n, K

(* AgentExchange, for any documents, cards, limits and number of steps:    *)
(* a proposal shown as adopted or rejected was decided so at the server    *)
(* and never both ways; one that is open is undecided there, except for    *)
(* the detours named; nothing open leaves the list; nothing is worked into *)
(* a document twice without a detour; what can be adopted answers a sheet  *)
(* of that document; a sheet shows no more than was confirmed.             *)
THEOREM AgentHolds == Agent!Spec => []AgentInvariant
  <1>1. AgentInv => AgentInvariant
    <2> SUFFICES ASSUME AgentInv PROVE Agent!TypeOK /\ Agent!AgentInvariant
      BY DEF AgentInvariant
    <2>1. Agent!TypeOK
      <3>1. /\ ledger \in Seq(Sheet) /\ Len(ledger) <= LedgerLimit /\ \A i \in DOMAIN ledger : ledger[i] \in sheets
            /\ doc \in Document /\ reviews \in Seq(Listed) /\ steps \in 0..MaxSteps
        BY DEF AgentInv, AgentTypes
      <3>2. ledger \in Seq(sheets)
        BY <3>1
      <3>3. \A i \in DOMAIN reviews : reviews[i] \in Listed
        BY <3>1
      <3>4. QED
        BY <3>1, <3>2, <3>3 DEF Agent!TypeOK, Agent!Statuses, Document, Listed
    <2>2. Agent!DecidedAsShown /\ Agent!PendingIsOpen
      <3>1. Agent!DecidedAsShown
        <4> SUFFICES ASSUME NEW i \in DOMAIN reviews
                     PROVE /\ reviews[i].status = "adopted" =>
                                 {e.as : e \in {f \in decided : f.key = reviews[i].key}} = {"adopt"}
                           /\ reviews[i].status = "rejected" =>
                                 {e.as : e \in {f \in decided : f.key = reviews[i].key}} = {"reject"}
          BY DEF Agent!DecidedAsShown
        <4>1. PICK k : k = reviews[i].key
          OBVIOUS
        <4>2. ASSUME NEW as, IsDecided(k), \A e \in decided : e.key = k => e.as = as
              PROVE {e.as : e \in {f \in decided : f.key = k}} = {as}
          BY <4>2 DEF IsDecided
        <4>3. /\ reviews[i].status = "adopted" =>
                    IsDecided(k) /\ \A e \in decided : e.key = k => e.as = "adopt"
              /\ reviews[i].status = "rejected" =>
                    IsDecided(k) /\ \A e \in decided : e.key = k => e.as = "reject"
          BY <4>1 DEF AgentInv, ReviewsHold
        <4>4. QED
          BY <4>1, <4>2, <4>3
      <3>2. Agent!PendingIsOpen
        BY DEF AgentInv, ReviewsHold, IsDecided, Agent!PendingIsOpen
      <3>3. QED
        BY <3>1, <3>2
    <2>3. Agent!OpenWorkKept
      <3>1. \A k \in seen \ Agent!KeysOf(reviews) : \E e \in decided : e.key = k
        BY DEF AgentInv, Dropped, IsDecided, Agent!KeysOf
      <3>2. <<"parsed twice", Agent!NoKey>> \in strays
              \/ Agent!Cardinality(Agent!KeysOf(reviews)) = Len(reviews)
        BY OnceCounts DEF AgentInv, Single
      <3>3. QED
        BY <3>1, <3>2 DEF Agent!OpenWorkKept
    <2>4. Agent!WorkedInOnce
      BY DEF AgentInv, WorkFounded, Founded, Excused, Agent!WorkedInOnce
    <2>5. Agent!Accountable
      BY DEF AgentInv, AgentTypes, ReviewsAnswer, Agent!Accountable
    <2>6. Agent!ShownAsConfirmed
      BY DEF AgentInv, AgentTypes, TasksApart, Known, Shows, Agent!ShownAsConfirmed
    <2>7. QED
      BY <2>1, <2>2, <2>3, <2>4, <2>5, <2>6 DEF Agent!AgentInvariant
  <1>2. QED
    BY AgentStarts, NextAgentInv, <1>1, PTL DEF Agent!Spec

-----------------------------------------------------------------------------
(* InquiryJourney.  What holds of the first row and is handed on holds of   *)
(* every row.                                                               *)
LEMMA RowsAll ==
  ASSUME NEW N \in Nat, NEW G, 0 \in G, \A n \in 1..N : n - 1 \in G => n \in G
  PROVE  \A n \in 0..N : n \in G
  <1> DEFINE Bad == {n \in 0..N : n \notin G}
  <1>1. SUFFICES ASSUME Bad # {} PROVE FALSE
    OBVIOUS
  <1>2. PICK k \in Bad : \A i \in Bad : k <= i
    <2>1. Bad \in SUBSET Nat
      OBVIOUS
    <2>2. QED
      BY <1>1, <2>1, LeastNumber
  <1>3. k \in 1..N /\ k - 1 \in 0..N /\ k - 1 < k /\ k \notin G
    BY <1>2
  <1>4. k - 1 \in G
    BY <1>2, <1>3
  <1>5. QED
    BY <1>3, <1>4

(* One generation further up.                                               *)
Above(rounds, below) == below \cup UNION {rounds[p].parents : p \in below \cap DOMAIN rounds}

Closed(rounds, X) == \A p \in X \cap DOMAIN rounds : rounds[p].parents \subseteq X

Generations(g, rounds, S, N) ==
    g = [n \in 0..N |-> IF n = 0 THEN S ELSE Above(rounds, g[n - 1])]

(* The generations exist: a shortest row that did not exist would be one    *)
(* longer than one that does.                                               *)
LEMMA GenerationRows ==
  ASSUME NEW rounds, NEW S, NEW N \in Nat
  PROVE  \E g : Generations(g, rounds, S, N)
  <1> DEFINE Rows(g, k) == g = [n \in 0..k |-> IF n = 0 THEN S ELSE Above(rounds, g[n - 1])]
             Built == {k \in Nat : \E g : Rows(g, k)}
  <1>1. 0 \in Built
    <2> DEFINE g == [n \in 0..0 |-> S]
    <2>1. Rows(g, 0)
      OBVIOUS
    <2>2. QED
      BY <2>1
  <1>2. ASSUME NEW k \in 1..N, k - 1 \in Built PROVE k \in Built
    <2>1. PICK g : Rows(g, k - 1)
      BY <1>2
    <2> DEFINE h == [n \in 0..k |-> IF n = k THEN Above(rounds, g[k - 1]) ELSE g[n]]
    <2>2. ASSUME NEW n \in 0..k
          PROVE  h[n] = IF n = 0 THEN S ELSE Above(rounds, h[n - 1])
      <3>1. CASE n = k
        <4>1. h[n] = Above(rounds, g[k - 1]) /\ h[n - 1] = g[k - 1] /\ n # 0
          BY <3>1
        <4>2. QED
          BY <4>1, <3>1
      <3>2. CASE n # k
        <4>1. n \in 0..(k - 1) /\ h[n] = g[n] /\ (n # 0 => h[n - 1] = g[n - 1])
          BY <3>2, <2>2
        <4>2. g[n] = IF n = 0 THEN S ELSE Above(rounds, g[n - 1])
          BY <4>1, <2>1
        <4>3. QED
          BY <4>1, <4>2
      <3>3. QED
        BY <3>1, <3>2
    <2>3. Rows(h, k)
      BY <2>2
    <2>4. k \in Nat
      OBVIOUS
    <2>5. QED
      BY <2>3, <2>4
  <1>3. \A n \in 0..N : n \in Built
    <2>1. \A n \in 1..N : n - 1 \in Built => n \in Built
      BY <1>2
    <2> HIDE DEF Built
    <2>2. QED
      BY <1>1, <2>1, RowsAll
  <1>4. QED
    BY <1>3 DEF Generations

(* Ancestors returns the least set that holds S and the parents of its      *)
(* members: as long as it is not closed a generation adds a round, and      *)
(* there are as many generations as rounds.                                 *)
Grounded(rounds) ==
    /\ IsFiniteSet(DOMAIN rounds)
    /\ \A r \in DOMAIN rounds : rounds[r].parents \subseteq DOMAIN rounds

LEMMA AncestorsIs ==
  ASSUME NEW rounds, Grounded(rounds),
         NEW S \in SUBSET DOMAIN rounds
  PROVE  /\ S \subseteq Journey!Ancestors(rounds, S)
         /\ Journey!Ancestors(rounds, S) \subseteq DOMAIN rounds
         /\ Closed(rounds, Journey!Ancestors(rounds, S))
         /\ \A X : S \subseteq X /\ Closed(rounds, X) => Journey!Ancestors(rounds, S) \subseteq X
  <1> DEFINE D == DOMAIN rounds
             N == Journey!Cardinality(D)
             P(g) == g = [n \in 0..N |-> IF n = 0 THEN S ELSE Above(rounds, g[n - 1])]
             up == CHOOSE g : P(g)
  <1>0. IsFiniteSet(D) /\ \A r \in D : rounds[r].parents \subseteq D
    BY DEF Grounded
  <1>1. N \in Nat /\ N = Cardinality(D)
    <2>1. N = Cardinality(D)
      BY DEF Journey!Cardinality, Cardinality
    <2>2. QED
      BY <1>0, <2>1, FS_CardinalityType
  <1>2. P(up)
    <2>1. \E g : P(g)
      <3> HIDE DEF N
      <3>1. \E g : Generations(g, rounds, S, N)
        BY <1>1, GenerationRows
      <3>2. QED
        BY <3>1 DEF Generations
    <2>2. QED
      BY <2>1
  <1>3. Journey!Ancestors(rounds, S) = up[N]
    BY Zenon DEF Journey!Ancestors, Above
  <1> HIDE DEF up, N
  <1>4. up[0] = S
    BY <1>1, <1>2
  <1>5. ASSUME NEW n \in 1..N PROVE up[n] = Above(rounds, up[n - 1])
    <2>1. n \in 0..N /\ n # 0
      BY <1>1
    <2>2. QED
      BY <2>1, <1>2
  <1>6. ASSUME NEW X, S \subseteq X, Closed(rounds, X) PROVE up[N] \subseteq X
    <2> DEFINE G == {n \in 0..N : up[n] \subseteq X}
    <2>1. 0 \in G
      BY <1>1, <1>4, <1>6
    <2>2. ASSUME NEW n \in 1..N, n - 1 \in G PROVE n \in G
      <3>1. up[n] = Above(rounds, up[n - 1]) /\ up[n - 1] \subseteq X /\ n \in 0..N
        BY <1>1, <1>5, <2>2
      <3>2. Above(rounds, up[n - 1]) \subseteq X
        BY <3>1, <1>6 DEF Above, Closed
      <3>3. QED
        BY <3>1, <3>2
    <2>3. \A n \in 0..N : n \in G
      <3>1. \A n \in 1..N : n - 1 \in G => n \in G
        BY <2>2
      <3> HIDE DEF G
      <3>2. QED
        BY <1>1, <2>1, <3>1, RowsAll
    <2>4. QED
      BY <1>1, <2>3
  <1>7. up[N] \subseteq D
    BY <1>0, <1>6 DEF Closed
  <1> DEFINE G == {n \in 0..N : /\ S \subseteq up[n] /\ up[n] \subseteq D
                               /\ (Closed(rounds, up[n]) \/ Cardinality(up[n]) >= n)}
  <1>8. 0 \in G
    <2>1. Cardinality(S) \in Nat
      BY <1>0, FS_Subset, FS_CardinalityType
    <2>2. QED
      BY <1>1, <1>4, <2>1
  <1>9. ASSUME NEW n \in 1..N, n - 1 \in G PROVE n \in G
    <2> DEFINE below == up[n - 1]
    <2>1. /\ up[n] = Above(rounds, below) /\ S \subseteq below /\ below \subseteq D
          /\ (Closed(rounds, below) \/ Cardinality(below) >= n - 1)
      BY <1>5, <1>9
    <2>2. below \subseteq up[n] /\ up[n] \subseteq D /\ (Closed(rounds, below) => up[n] = below)
      BY <1>0, <2>1 DEF Above, Closed
    <2>3. CASE Closed(rounds, below)
      <3>1. Closed(rounds, up[n])
        BY <2>2, <2>3
      <3>2. QED
        BY <1>1, <2>1, <2>2, <3>1
    <2>4. CASE ~Closed(rounds, below)
      <3>1. up[n] # below
        BY <2>1, <2>4 DEF Above, Closed
      <3>2. IsFiniteSet(up[n]) /\ IsFiniteSet(below)
        BY <1>0, <2>1, <2>2, FS_Subset
      <3>3. Cardinality(below) <= Cardinality(up[n]) /\ Cardinality(below) # Cardinality(up[n])
        BY <2>2, <3>1, <3>2, FS_Subset
      <3>4. Cardinality(below) \in Nat /\ Cardinality(up[n]) \in Nat
        BY <3>2, FS_CardinalityType
      <3>5. Cardinality(up[n]) >= n
        <4>1. Cardinality(below) >= n - 1
          BY <2>1, <2>4
        <4>2. n \in Int
          OBVIOUS
        <4> HIDE DEF below
        <4>3. QED
          BY <4>1, <4>2, <3>3, <3>4
      <3>6. QED
        BY <1>1, <2>1, <2>2, <3>5
    <2>5. QED
      BY <2>3, <2>4
  <1>10. N \in G
    <2>1. \A n \in 1..N : n - 1 \in G => n \in G
      BY <1>9
    <2> HIDE DEF G
    <2>2. QED
      BY <1>1, <1>8, <2>1, RowsAll
  <1>11. Closed(rounds, up[N])
    <2>1. CASE Cardinality(up[N]) >= N
      <3>1. up[N] = D
        <4>1. IsFiniteSet(up[N]) /\ Cardinality(up[N]) <= N /\ (N = Cardinality(up[N]) => up[N] = D)
          BY <1>0, <1>1, <1>7, FS_Subset
        <4>2. Cardinality(up[N]) \in Nat
          BY <4>1, FS_CardinalityType
        <4>3. QED
          BY <4>1, <4>2, <2>1, <1>1
      <3>2. QED
        BY <1>0, <3>1 DEF Closed
    <2>2. QED
      BY <1>10, <2>1
  <1>12. S \subseteq up[N]
    BY <1>10
  <1>13. QED
    BY <1>3, <1>6, <1>7, <1>11, <1>12

LEMMA AncestorsLeast ==
  ASSUME NEW rounds, Grounded(rounds), NEW S \in SUBSET DOMAIN rounds,
         NEW X, S \subseteq X, Closed(rounds, X)
  PROVE  Journey!Ancestors(rounds, S) \subseteq X
  BY AncestorsIs

(* Rounds that are added on top change nothing below.                       *)
LEMMA AncestorsKept ==
  ASSUME NEW rounds, Grounded(rounds), NEW more, Grounded(more),
         DOMAIN rounds \subseteq DOMAIN more,
         \A r \in DOMAIN rounds : more[r].parents = rounds[r].parents,
         NEW S \in SUBSET DOMAIN rounds
  PROVE  Journey!Ancestors(more, S) = Journey!Ancestors(rounds, S)
  <1> DEFINE A == Journey!Ancestors(rounds, S)
             B == Journey!Ancestors(more, S)
  <1>1. S \subseteq A /\ A \subseteq DOMAIN rounds /\ Closed(rounds, A)
    BY AncestorsIs
  <1>2. S \in SUBSET DOMAIN more
    OBVIOUS
  <1>3. S \subseteq B /\ Closed(more, B)
    BY <1>2, AncestorsIs
  <1> HIDE DEF A, B
  <1>4. Closed(more, A) /\ Closed(rounds, B)
    BY <1>1, <1>3 DEF Closed
  <1>5. B \subseteq A
    BY <1>1, <1>2, <1>4, AncestorsLeast DEF B
  <1>6. A \subseteq B
    BY <1>3, <1>4, AncestorsLeast DEF A
  <1>7. QED
    BY <1>5, <1>6 DEF A, B

(* Without cycles every round leads down to a leaf: if there is only one,   *)
(* all rounds led to it.  A round that did not would have a child that did  *)
(* not either, with more ancestors than itself.                             *)
LEMMA OneLeaf ==
  ASSUME NEW rounds, Grounded(rounds),
         \A r \in DOMAIN rounds : r \notin Journey!Proper(rounds, r),
         NEW q \in DOMAIN rounds,
         \A r \in DOMAIN rounds \ {q} : \E s \in DOMAIN rounds : r \in rounds[s].parents
  PROVE  DOMAIN rounds = Journey!Ancestors(rounds, {q})
  <1> DEFINE D == DOMAIN rounds
             A == Journey!Ancestors(rounds, {q})
             Size(r) == Cardinality(Journey!Proper(rounds, r))
             Lost == {r \in D : r \notin A}
             Missing(r) == Cardinality(D) - Size(r)
  <1>1. q \in A /\ A \subseteq D /\ Closed(rounds, A)
    <2>1. {q} \in SUBSET D
      OBVIOUS
    <2>2. QED
      BY <2>1, AncestorsIs
  <1>2. ASSUME NEW r \in D
        PROVE  /\ rounds[r].parents \subseteq Journey!Proper(rounds, r)
               /\ Journey!Proper(rounds, r) \subseteq D
               /\ Closed(rounds, Journey!Proper(rounds, r))
               /\ IsFiniteSet(Journey!Proper(rounds, r))
               /\ Size(r) \in Nat /\ Size(r) <= Cardinality(D) /\ Cardinality(D) \in Nat
    <2>1. rounds[r].parents \in SUBSET D /\ IsFiniteSet(D)
      BY DEF Grounded
    <2>2. /\ rounds[r].parents \subseteq Journey!Proper(rounds, r)
          /\ Journey!Proper(rounds, r) \subseteq D
          /\ Closed(rounds, Journey!Proper(rounds, r))
      BY <2>1, AncestorsIs DEF Journey!Proper
    <2>3. /\ IsFiniteSet(Journey!Proper(rounds, r))
          /\ Cardinality(Journey!Proper(rounds, r)) <= Cardinality(D)
      BY <2>1, <2>2, FS_Subset
    <2>4. Cardinality(Journey!Proper(rounds, r)) \in Nat /\ Cardinality(D) \in Nat
      BY <2>1, <2>3, FS_CardinalityType
    <2>5. QED
      BY <2>2, <2>3, <2>4
  <1>3. ASSUME NEW r \in Lost
        PROVE  \E s \in Lost : Size(r) < Size(s)
    <2>1. r \in D /\ r # q /\ r \notin A
      BY <1>1
    <2>2. PICK s \in D : r \in rounds[s].parents
      BY <2>1
    <2>3. s \in Lost
      BY <1>1, <2>1, <2>2 DEF Closed
    <2>4. r \in Journey!Proper(rounds, s) /\ rounds[r].parents \subseteq Journey!Proper(rounds, s)
      BY <1>2, <2>1, <2>2 DEF Closed
    <2>5. Journey!Proper(rounds, r) \subseteq Journey!Proper(rounds, s)
      <3>1. rounds[r].parents \in SUBSET D
        BY <2>1 DEF Grounded
      <3>2. QED
        BY <1>2, <2>2, <2>4, <3>1, AncestorsLeast DEF Journey!Proper
    <2>6. Journey!Proper(rounds, r) # Journey!Proper(rounds, s)
      BY <2>1, <2>4
    <2>7. Size(r) <= Size(s) /\ Size(r) # Size(s)
      BY <1>2, <2>1, <2>2, <2>5, <2>6, FS_Subset
    <2>8. Size(r) \in Nat /\ Size(s) \in Nat
      BY <1>2, <2>1, <2>2
    <2> HIDE DEF Size, Lost
    <2>9. QED
      BY <2>3, <2>7, <2>8
  <1>4. Lost = {}
    <2> DEFINE Gaps == {Missing(r) : r \in Lost}
    <2> SUFFICES ASSUME Lost # {} PROVE FALSE
      OBVIOUS
    <2>1. \A r \in Lost : Missing(r) \in Nat /\ Size(r) \in Nat /\ Cardinality(D) \in Nat
      <3>1. \A r \in D : Size(r) \in Nat /\ Size(r) <= Cardinality(D) /\ Cardinality(D) \in Nat
        BY <1>2
      <3> HIDE DEF Size, D
      <3>2. QED
        BY <3>1
    <2> HIDE DEF Size, Lost, D
    <2>2. PICK x \in Gaps : \A y \in Gaps : x <= y
      <3>1. Gaps \in SUBSET Nat /\ Gaps # {}
        BY <2>1
      <3>2. QED
        BY <3>1, LeastNumber
    <2>3. PICK r \in Lost : x = Missing(r)
      BY <2>2
    <2>4. PICK s \in Lost : Size(r) < Size(s)
      BY <1>3
    <2>5. Missing(s) < Missing(r) /\ Missing(s) \in Gaps
      BY <2>1, <2>4
    <2>6. x <= Missing(s) /\ Missing(r) \in Nat /\ Missing(s) \in Nat
      BY <2>1, <2>2, <2>5
    <2> HIDE DEF Missing, Gaps
    <2>7. QED
      BY <2>3, <2>5, <2>6
  <1>5. QED
    BY <1>1, <1>4

-----------------------------------------------------------------------------
(* Bundles: their fields, and what SafeMode and the choice of a part keep.  *)
BundleFields == {"journey", "origin", "rounds", "heads", "head", "snaps", "lineage",
                 "created", "updated", "info"}
RoundFields == {"stage", "parents", "status", "iteration", "inputs", "output", "created",
                "updated", "handoff"}
HandoffParts == {"carry", "held", "note"}

CardSet == {Journey!NoCard} \cup [text : Texts \cup {Journey!Redacted}, sourced : BOOLEAN]
SheetSet == [id : Sheets, cards : [Notes -> CardSet]]

(* Ids the panel has given, and those of the file of another tool.          *)
IdsUpto(n) == (1..n) \cup (Journey!ForeignId..(Journey!ForeignId + 3))

IsRound(round, r) ==
    /\ DOMAIN round = RoundFields /\ DOMAIN round.handoff = HandoffParts
    /\ round.output \in {Journey!NoId, r}

Formed(b, n) ==
    /\ DOMAIN b = BundleFields
    /\ b.origin \in IdsUpto(n) /\ DOMAIN b.rounds \subseteq IdsUpto(n)
    /\ \A r \in DOMAIN b.rounds : IsRound(b.rounds[r], r)
    /\ \A s \in DOMAIN b.snaps : b.snaps[s] \in SheetSet
    /\ b.created \in Nat /\ b.updated \in Nat
    /\ \A e \in b.lineage : e.kind = "retired" => e.to = {}

(* Validity, but for the claim of a shared file about its round.            *)
LeavesKnown(b) ==
    /\ b.heads = {r \in DOMAIN b.rounds : \A s \in DOMAIN b.rounds : r \notin b.rounds[s].parents}
    /\ b.head \in b.heads \cup {Journey!NoId}

Sound(b) ==
    /\ Journey!RoundsValid(b) /\ LeavesKnown(b) /\ Journey!SnapshotsValid(b)
    /\ Journey!HandoffsValid(b) /\ Journey!LineageValid(b)

ToldOf(b, r, c) ==
    \E e \in b.lineage :
        /\ e.to = {Journey!Address(r, c)}
        /\ Journey!Snaps(e.from) \subseteq b.rounds[r].inputs
        /\ \A d \in b.lineage \ {e} : Journey!Address(r, c) \notin d.to

RetiredIn(b, i, c) ==
    \E e \in b.lineage : e.kind = "retired" /\ e.from = {Journey!Address(i, c)}

Told(b) ==
    \A r \in Journey!Outputs(b) \ Journey!ForeignBranches :
        /\ \A c \in Journey!CardsOf(b.snaps[r]) : ToldOf(b, r, c)
        /\ \A i \in b.rounds[r].inputs : \A c \in Journey!CardsOf(b.snaps[i]) :
               c \in Journey!CardsOf(b.snaps[r]) \/ RetiredIn(b, i, c)

LEMMA ToldIs == Journey!LineageTold <=> (shown # Journey!NoBundle => Told(shown))
  BY DEF Journey!LineageTold, Told, ToldOf, RetiredIn

LEMMA ValidIsSound ==
  ASSUME NEW b
  PROVE  Journey!Valid(b) <=>
            /\ Sound(b)
            /\ b.info.scope = "round" => b.heads = {b.info.round} /\ b.head = b.info.round
  BY Zenon DEF Journey!Valid, Sound, LeavesKnown, Journey!HeadsValid

LEMMA JourneyWords ==
  /\ Journey!NoId = 0 /\ Journey!ForeignId = MaxDeeds + 2 /\ Journey!ForeignId \in Nat
  /\ MaxDeeds \in Nat
  /\ Journey!ForeignBranches = {Journey!ForeignId + 1, Journey!ForeignId + 2}
  /\ \A b, n : Formed(b, n) => b # Journey!NoBundle
  <1>1. MaxDeeds \in Nat
    BY JourneyAssumption
  <1>2. ASSUME NEW b, NEW n, Formed(b, n) PROVE b # Journey!NoBundle
    <2>1. "rounds" \in DOMAIN b /\ DOMAIN Journey!NoBundle = {"journey"}
      BY <1>2 DEF Formed, BundleFields, Journey!NoBundle
    <2>2. QED
      BY <2>1
  <1>3. QED
    BY <1>1, <1>2 DEF Journey!NoId, Journey!ForeignId, Journey!ForeignBranches

LEMMA FormedFounded ==
  ASSUME NEW b, NEW n \in Nat, Formed(b, n)
  PROVE  /\ 0 \notin DOMAIN b.rounds /\ IsFiniteSet(DOMAIN b.rounds)
         /\ Journey!RoundsValid(b) => Grounded(b.rounds)
         /\ Journey!Outputs(b) \subseteq DOMAIN b.rounds
         /\ \A r \in Journey!Outputs(b) : b.rounds[r].output = r
  <1>1. DOMAIN b.rounds \subseteq IdsUpto(n)
    BY DEF Formed
  <1>2. IsFiniteSet(IdsUpto(n)) /\ 0 \notin IdsUpto(n)
    <2>1. IsFiniteSet(1..n) /\ IsFiniteSet(Journey!ForeignId..(Journey!ForeignId + 3))
      <3>1. Journey!ForeignId + 3 \in Int /\ Journey!ForeignId \in Int /\ 1 \in Int /\ n \in Int
        BY JourneyWords
      <3>2. QED
        BY <3>1, FS_Interval
    <2>2. IsFiniteSet(IdsUpto(n))
      BY <2>1, FS_Union DEF IdsUpto
    <2>3. QED
      BY <2>2, JourneyWords DEF IdsUpto
  <1>3. IsFiniteSet(DOMAIN b.rounds)
    BY <1>1, <1>2, FS_Subset
  <1>4. Journey!RoundsValid(b) => Grounded(b.rounds)
    BY <1>3 DEF Journey!RoundsValid, Grounded
  <1>5. QED
    BY <1>1, <1>2, <1>3, <1>4 DEF Journey!Outputs, Formed, IsRound

(* What Sound says of the rounds of a bundle, one by one.                   *)
LEMMA SoundRounds ==
  ASSUME NEW b, NEW n \in Nat, Formed(b, n), Sound(b)
  PROVE  /\ Grounded(b.rounds)
         /\ \A r \in DOMAIN b.rounds :
               /\ b.rounds[r].parents \subseteq DOMAIN b.rounds
               /\ Journey!Proper(b.rounds, r) \subseteq DOMAIN b.rounds
               /\ b.rounds[r].inputs \subseteq {b.origin} \cup (Journey!Proper(b.rounds, r) \cap Journey!Outputs(b))
               /\ b.rounds[r].inputs \subseteq DOMAIN b.snaps
         /\ DOMAIN b.snaps = {b.origin} \cup Journey!Outputs(b)
         /\ b.origin \notin Journey!Outputs(b)
  <1>1. Grounded(b.rounds)
    BY FormedFounded DEF Sound
  <1>2. ASSUME NEW r \in DOMAIN b.rounds
        PROVE  Journey!Proper(b.rounds, r) \subseteq DOMAIN b.rounds
    <2>1. b.rounds[r].parents \in SUBSET DOMAIN b.rounds
      BY <1>1 DEF Grounded
    <2>2. QED
      BY <1>1, <2>1, AncestorsIs DEF Journey!Proper
  <1>3. DOMAIN b.snaps = {b.origin} \cup Journey!Outputs(b) /\ b.origin \notin Journey!Outputs(b)
    BY DEF Sound, Journey!SnapshotsValid
  <1>4. ASSUME NEW r \in DOMAIN b.rounds
        PROVE  b.rounds[r].inputs \subseteq {b.origin} \cup (Journey!Proper(b.rounds, r) \cap Journey!Outputs(b))
    BY DEF Sound, Journey!SnapshotsValid
  <1>5. QED
    BY <1>1, <1>2, <1>3, <1>4 DEF Grounded

(* A round with all that led to it tells of its cards what the whole tells. *)
LEMMA ScopeIs ==
  ASSUME NEW b, NEW n \in Nat, Formed(b, n), Sound(b), NEW r \in DOMAIN b.rounds
  PROVE  /\ r \in Journey!Scope(b, r) /\ Journey!Scope(b, r) \subseteq DOMAIN b.rounds
         /\ Journey!ScopeSnaps(b, r) \subseteq DOMAIN b.snaps
         /\ Journey!Scope(b, r) \cap Journey!Outputs(b) \subseteq Journey!ScopeSnaps(b, r)
         /\ \A q \in Journey!Scope(b, r) : b.rounds[q].inputs \subseteq Journey!ScopeSnaps(b, r)
         /\ b.origin \in Journey!ScopeSnaps(b, r)
  <1>1. Grounded(b.rounds)
    BY SoundRounds
  <1>2. {r} \in SUBSET DOMAIN b.rounds
    OBVIOUS
  <1>3. r \in Journey!Scope(b, r) /\ Journey!Scope(b, r) \subseteq DOMAIN b.rounds
    BY <1>1, <1>2, AncestorsIs DEF Journey!Scope
  <1>4. QED
    BY <1>3, SoundRounds DEF Journey!ScopeSnaps

LEMMA ProjectedIs ==
  ASSUME NEW b, DOMAIN b = BundleFields, NEW r
  PROVE  /\ DOMAIN Journey!Projected(b, r) = BundleFields
         /\ Journey!Projected(b, r).rounds = [q \in Journey!Scope(b, r) |-> b.rounds[q]]
         /\ Journey!Projected(b, r).snaps = [s \in Journey!ScopeSnaps(b, r) |-> b.snaps[s]]
         /\ Journey!Projected(b, r).lineage = {e \in b.lineage : Journey!InScope(b, r, e)}
         /\ Journey!Projected(b, r).origin = b.origin
         /\ Journey!Projected(b, r).created = b.created
         /\ Journey!Projected(b, r).updated = b.updated
  BY DEF Journey!Projected, BundleFields

LEMMA PartTold ==
  ASSUME NEW b, NEW n \in Nat, Formed(b, n), Sound(b), Told(b), NEW r \in DOMAIN b.rounds
  PROVE  Formed(Journey!Projected(b, r), n) /\ Told(Journey!Projected(b, r))
  <1> DEFINE part == Journey!Projected(b, r)
             above == Journey!Scope(b, r)
             kept == Journey!ScopeSnaps(b, r)
  <1>1. /\ DOMAIN part = BundleFields
        /\ part.rounds = [q \in above |-> b.rounds[q]] /\ part.snaps = [s \in kept |-> b.snaps[s]]
        /\ part.lineage = {e \in b.lineage : Journey!InScope(b, r, e)}
        /\ part.origin = b.origin /\ part.created = b.created /\ part.updated = b.updated
    BY ProjectedIs DEF Formed
  <1>2. /\ above \subseteq DOMAIN b.rounds /\ kept \subseteq DOMAIN b.snaps
        /\ above \cap Journey!Outputs(b) \subseteq kept
        /\ \A q \in above : b.rounds[q].inputs \subseteq kept
    BY ScopeIs
  <1> HIDE DEF part, above, kept
  <1>3. Formed(part, n)
    BY <1>1, <1>2 DEF Formed
  <1>4. Journey!Outputs(part) = above \cap Journey!Outputs(b)
    BY <1>1, <1>2 DEF Journey!Outputs
  <1>5. ASSUME NEW q \in Journey!Outputs(part) \ Journey!ForeignBranches,
               NEW c \in Journey!CardsOf(part.snaps[q])
        PROVE  ToldOf(part, q, c)
    <2>1. q \in above /\ q \in Journey!Outputs(b) \ Journey!ForeignBranches /\ q \in kept
      BY <1>2, <1>4
    <2>2. part.snaps[q] = b.snaps[q] /\ part.rounds[q] = b.rounds[q]
      BY <1>1, <2>1
    <2>3. PICK e \in b.lineage :
             /\ e.to = {Journey!Address(q, c)}
             /\ Journey!Snaps(e.from) \subseteq b.rounds[q].inputs
             /\ \A d \in b.lineage \ {e} : Journey!Address(q, c) \notin d.to
      <3>1. ToldOf(b, q, c)
        BY <2>1, <2>2 DEF Told
      <3>2. QED
        BY <3>1 DEF ToldOf
    <2>4. Journey!InScope(b, r, e)
      <3>1. e.to # {} /\ q \in Journey!Snaps(e.to)
        BY <2>3 DEF Journey!Snaps, Journey!Address
      <3>2. QED
        BY <2>1, <3>1 DEF Journey!InScope, kept
    <2>5. QED
      BY <1>1, <2>2, <2>3, <2>4 DEF ToldOf
  <1>6. ASSUME NEW q \in Journey!Outputs(part) \ Journey!ForeignBranches,
               NEW i \in part.rounds[q].inputs, NEW c \in Journey!CardsOf(part.snaps[i]),
               c \notin Journey!CardsOf(part.snaps[q])
        PROVE  RetiredIn(part, i, c)
    <2>1. /\ q \in above /\ q \in Journey!Outputs(b) \ Journey!ForeignBranches /\ q \in kept
          /\ part.rounds[q] = b.rounds[q] /\ i \in kept
      BY <1>1, <1>2, <1>4
    <2>2. part.snaps[q] = b.snaps[q] /\ part.snaps[i] = b.snaps[i]
      BY <1>1, <2>1
    <2>3. PICK e \in b.lineage : e.kind = "retired" /\ e.from = {Journey!Address(i, c)}
      <3>1. RetiredIn(b, i, c)
        BY <1>6, <2>1, <2>2 DEF Told
      <3>2. QED
        BY <3>1 DEF RetiredIn
    <2>4. Journey!InScope(b, r, e)
      <3>1. e.to = {} /\ i \in Journey!Snaps(e.from)
        BY <2>3 DEF Journey!Snaps, Journey!Address, Formed
      <3>2. QED
        BY <2>1, <3>1 DEF Journey!InScope, kept
    <2>5. QED
      BY <1>1, <2>3, <2>4 DEF RetiredIn
  <1>7. Told(part)
    BY <1>5, <1>6 DEF Told
  <1>8. QED
    BY <1>3, <1>7 DEF part

(* SafeMode empties cards and notes and takes no card away.                 *)
LEMMA SafeSheet ==
  ASSUME NEW page \in SheetSet
  PROVE  /\ Journey!SafeDocument(page) \in SheetSet
         /\ Journey!CardsOf(Journey!SafeDocument(page)) = Journey!CardsOf(page)
         /\ Journey!SafeDocument(page).cards \in
               [Notes -> {Journey!NoCard, [text |-> Journey!Redacted, sourced |-> FALSE]}]
  <1> DEFINE Bare == [text |-> Journey!Redacted, sourced |-> FALSE]
             safe == [c \in Notes |-> IF page.cards[c] = Journey!NoCard THEN Journey!NoCard
                                      ELSE Journey!SafeCard(page.cards[c])]
  <1>1. Journey!SafeDocument(page).id = page.id /\ Journey!SafeDocument(page).cards = safe
        /\ Journey!SafeDocument(page) = [id |-> page.id, cards |-> safe]
    BY DEF Journey!SafeDocument, SheetSet
  <1>2. ASSUME NEW card \in CardSet, card # Journey!NoCard
        PROVE  Journey!SafeCard(card) = Bare
    <2>1. card.text # "none"
      BY <1>2, JourneyAssumption DEF CardSet, Journey!NoCard, Journey!Redacted
    <2>2. QED
      BY <2>1 DEF Journey!SafeCard, Journey!CardFields, Journey!Redact, Journey!NoNote, Journey!Redacted
  <1>3. Bare # Journey!NoCard /\ Bare \in CardSet /\ Journey!NoCard \in CardSet
    BY DEF Journey!NoCard, Journey!Redacted, CardSet
  <1>4. \A c \in Notes : page.cards[c] \in CardSet
    BY DEF SheetSet
  <1>5. \A c \in Notes : safe[c] = IF page.cards[c] = Journey!NoCard THEN Journey!NoCard ELSE Bare
    BY <1>2, <1>4
  <1>6. safe \in [Notes -> {Journey!NoCard, Bare}] /\ safe \in [Notes -> CardSet]
    <2>1. \A c \in Notes : safe[c] \in {Journey!NoCard, Bare}
      BY <1>5
    <2>2. QED
      BY <2>1, <1>3
  <1>7. \A c \in Notes : safe[c] = Journey!NoCard <=> page.cards[c] = Journey!NoCard
    BY <1>3, <1>5
  <1> HIDE DEF safe
  <1>8. Journey!SafeDocument(page) \in SheetSet
    BY <1>1, <1>6 DEF SheetSet
  <1>9. QED
    BY <1>1, <1>6, <1>7, <1>8 DEF Journey!CardsOf

LEMMA SafeIs ==
  ASSUME NEW b, NEW n, Formed(b, n)
  PROVE  /\ DOMAIN Journey!SafeBundle(b) = BundleFields
         /\ DOMAIN Journey!SafeBundle(b).rounds = DOMAIN b.rounds
         /\ DOMAIN Journey!SafeBundle(b).snaps = DOMAIN b.snaps
         /\ \A r \in DOMAIN b.rounds :
               /\ Journey!SafeBundle(b).rounds[r] = Journey!SafeRound(b.rounds[r])
               /\ IsRound(Journey!SafeBundle(b).rounds[r], r)
               /\ Journey!SafeBundle(b).rounds[r].output = b.rounds[r].output
               /\ Journey!SafeBundle(b).rounds[r].inputs = b.rounds[r].inputs
               /\ Journey!SafeBundle(b).rounds[r].handoff.note # Journey!Note
         /\ \A s \in DOMAIN b.snaps :
               Journey!SafeBundle(b).snaps[s] = Journey!SafeDocument(b.snaps[s])
         /\ Journey!SafeBundle(b).lineage = b.lineage /\ Journey!SafeBundle(b).origin = b.origin
         /\ Journey!SafeBundle(b).created = b.created /\ Journey!SafeBundle(b).updated = b.updated
  <1>1. /\ DOMAIN Journey!SafeBundle(b) = BundleFields
        /\ Journey!SafeBundle(b).rounds = [r \in DOMAIN b.rounds |-> Journey!SafeRound(b.rounds[r])]
        /\ Journey!SafeBundle(b).snaps = [s \in DOMAIN b.snaps |-> Journey!SafeDocument(b.snaps[s])]
        /\ Journey!SafeBundle(b).lineage = b.lineage /\ Journey!SafeBundle(b).origin = b.origin
        /\ Journey!SafeBundle(b).created = b.created /\ Journey!SafeBundle(b).updated = b.updated
    BY DEF Formed, BundleFields, Journey!SafeBundle
  <1>2. ASSUME NEW r \in DOMAIN b.rounds
        PROVE  /\ IsRound(Journey!SafeRound(b.rounds[r]), r)
               /\ Journey!SafeRound(b.rounds[r]).output = b.rounds[r].output
               /\ Journey!SafeRound(b.rounds[r]).inputs = b.rounds[r].inputs
               /\ Journey!SafeRound(b.rounds[r]).handoff.note # Journey!Note
    <2> DEFINE round == b.rounds[r]
    <2>1. IsRound(round, r)
      BY DEF Formed
    <2> HIDE DEF round
    <2>2. /\ DOMAIN Journey!SafeHandoff(round.handoff) = HandoffParts
          /\ Journey!SafeHandoff(round.handoff).note = Journey!Redact(round.handoff.note)
      BY <2>1 DEF IsRound, HandoffParts, Journey!SafeHandoff, Journey!HandoffFields
    <2>3. Journey!Redact(round.handoff.note) # Journey!Note
      BY DEF Journey!Redact, Journey!NoNote, Journey!Redacted, Journey!Note
    <2>4. QED
      BY <2>1, <2>2, <2>3 DEF IsRound, RoundFields, Journey!SafeRound, round
  <1>3. QED
    BY <1>1, <1>2

LEMMA SafeTold ==
  ASSUME NEW b, NEW n \in Nat, Formed(b, n), Told(b), NEW info, Journey!SnapshotsValid(b)
  PROVE  /\ Formed([Journey!SafeBundle(b) EXCEPT !.info = info], n)
         /\ Told([Journey!SafeBundle(b) EXCEPT !.info = info])
  <1> DEFINE safe == [Journey!SafeBundle(b) EXCEPT !.info = info]
  <1>1. /\ DOMAIN safe = BundleFields
        /\ DOMAIN safe.rounds = DOMAIN b.rounds /\ DOMAIN safe.snaps = DOMAIN b.snaps
        /\ safe.lineage = b.lineage /\ safe.origin = b.origin
        /\ safe.created = b.created /\ safe.updated = b.updated
    BY SafeIs DEF BundleFields
  <1>2. \A r \in DOMAIN b.rounds :
           /\ IsRound(safe.rounds[r], r)
           /\ safe.rounds[r].output = b.rounds[r].output /\ safe.rounds[r].inputs = b.rounds[r].inputs
    BY SafeIs DEF BundleFields
  <1>3. \A s \in DOMAIN b.snaps :
           /\ safe.snaps[s] \in SheetSet
           /\ Journey!CardsOf(safe.snaps[s]) = Journey!CardsOf(b.snaps[s])
    <2>1. \A s \in DOMAIN b.snaps : safe.snaps[s] = Journey!SafeDocument(b.snaps[s])
      BY SafeIs DEF BundleFields
    <2> HIDE DEF safe
    <2>2. QED
      BY <2>1, SafeSheet DEF Formed
  <1> HIDE DEF safe
  <1>4. Formed(safe, n)
    BY <1>1, <1>2, <1>3 DEF Formed
  <1>5. Journey!Outputs(safe) = Journey!Outputs(b)
    BY <1>1, <1>2 DEF Journey!Outputs
  <1>6. ASSUME NEW r \in Journey!Outputs(b)
        PROVE  /\ r \in DOMAIN b.rounds /\ r \in DOMAIN b.snaps
               /\ \A i \in b.rounds[r].inputs : i \in DOMAIN b.snaps
    BY <1>1 DEF Journey!SnapshotsValid, Journey!Outputs
  <1>7. (\A r, c : ToldOf(b, r, c) /\ r \in DOMAIN b.rounds => ToldOf(safe, r, c))
        /\ (\A i, c : RetiredIn(b, i, c) => RetiredIn(safe, i, c))
    BY <1>1, <1>2 DEF ToldOf, RetiredIn
  <1>8. Told(safe)
    BY <1>2, <1>3, <1>5, <1>6, <1>7 DEF Told
  <1>9. QED
    BY <1>4, <1>8 DEF safe

(* A file whose claim holds shows nothing, and its round is all there is.   *)
LEMMA ClaimIsSafe ==
  ASSUME NEW f, NEW n \in Nat, Formed(f, n), f.info # Journey!NoInfo, Journey!Accepted(f)
  PROVE  /\ \A s \in DOMAIN f.snaps, c \in Notes :
               f.snaps[s].cards[c] \in {Journey!NoCard, [text |-> Journey!Redacted, sourced |-> FALSE]}
         /\ \A r \in DOMAIN f.rounds : f.rounds[r].handoff.note # Journey!Note
         /\ f.info.scope = "round" => DOMAIN f.rounds = Journey!Ancestors(f.rounds, {f.info.round})
  <1>1. Journey!SafeBundle(f) = f /\ Journey!Valid(f)
    BY DEF Journey!Accepted, Journey!ClaimHolds
  <1>2. \A s \in DOMAIN f.snaps : f.snaps[s] = Journey!SafeDocument(f.snaps[s]) /\ f.snaps[s] \in SheetSet
    BY <1>1, SafeIs DEF Formed
  <1>3. \A s \in DOMAIN f.snaps :
           f.snaps[s].cards \in [Notes -> {Journey!NoCard, [text |-> Journey!Redacted, sourced |-> FALSE]}]
    BY <1>2, SafeSheet
  <1>4. \A r \in DOMAIN f.rounds : f.rounds[r].handoff.note # Journey!Note
    BY <1>1, SafeIs
  <1>5. ASSUME f.info.scope = "round"
        PROVE  DOMAIN f.rounds = Journey!Ancestors(f.rounds, {f.info.round})
    <2> DEFINE q == f.info.round
    <2>1. Sound(f) /\ f.heads = {q}
      BY <1>1, <1>5, ValidIsSound
    <2>2. Grounded(f.rounds)
      BY <2>1, SoundRounds
    <2>3. \A r \in DOMAIN f.rounds : r \notin Journey!Proper(f.rounds, r)
      BY <2>1 DEF Sound, Journey!RoundsValid
    <2>4. {q} = {r \in DOMAIN f.rounds : \A s \in DOMAIN f.rounds : r \notin f.rounds[s].parents}
      BY <2>1 DEF Sound, LeavesKnown
    <2>5. q \in DOMAIN f.rounds
          /\ \A r \in DOMAIN f.rounds \ {q} : \E s \in DOMAIN f.rounds : r \in f.rounds[s].parents
      BY <2>4
    <2>6. QED
      BY <2>2, <2>3, <2>5, OneLeaf
  <1>6. QED
    BY <1>3, <1>4, <1>5

-----------------------------------------------------------------------------
(* Starting and recording.                                                  *)
LEMMA StartedIs ==
  ASSUME NEW n \in Nat, NEW page \in SheetSet, NEW now \in Nat, NEW id, id = n + 1
  PROVE  /\ Formed(Journey!Started(page, id, now), id)
         /\ Sound(Journey!Started(page, id, now))
         /\ Told(Journey!Started(page, id, now))
         /\ LET b == Journey!Started(page, id, now) IN b.snaps[b.origin] = page
  <1> DEFINE b == Journey!Started(page, id, now)
  <1>1. /\ b.rounds = <<>> /\ b.origin = id /\ b.heads = {} /\ b.head = Journey!NoId
        /\ b.snaps = [s \in {id} |-> page] /\ b.lineage = {} /\ b.created = now /\ b.updated = now
        /\ DOMAIN b = BundleFields
    BY DEF Journey!Started, BundleFields
  <1>2. DOMAIN b.rounds = {}
    BY <1>1
  <1> HIDE DEF b
  <1>3. Formed(b, id)
    BY <1>1, <1>2 DEF Formed, IdsUpto
  <1>4. Journey!Outputs(b) = {}
    BY <1>2 DEF Journey!Outputs
  <1>5. Told(b)
    BY <1>4 DEF Told
  <1>6. Sound(b)
    BY <1>1, <1>2, <1>4 DEF Sound, Journey!RoundsValid, LeavesKnown, Journey!SnapshotsValid,
                            Journey!HandoffsValid, Journey!LineageValid
  <1>7. b.snaps[b.origin] = page
    BY <1>1
  <1>8. QED
    BY <1>3, <1>5, <1>6, <1>7 DEF b

NewRound(b, stage, p, id, now) ==
    [stage |-> stage, parents |-> {p} \ {Journey!NoId}, status |-> "paused",
     iteration |-> Journey!NextIteration(b.rounds, stage, {p} \ {Journey!NoId}),
     inputs |-> {Journey!InputOf(b, p)}, output |-> id, created |-> now, updated |-> now,
     handoff |-> Journey!NoHandoff]

LEMMA RecordedIs ==
  ASSUME NEW b, DOMAIN b = BundleFields, NEW page, NEW stage, NEW p, NEW id, NEW now
  PROVE  LET new == Journey!Recorded(b, page, stage, p, id, now)
             input == Journey!InputOf(b, p)
         IN  /\ DOMAIN new = BundleFields
             /\ DOMAIN new.rounds = DOMAIN b.rounds \cup {id}
             /\ new.rounds[id] = NewRound(b, stage, p, id, now)
             /\ \A r \in DOMAIN b.rounds : r # id => new.rounds[r] = b.rounds[r]
             /\ new.heads = (b.heads \ ({p} \ {Journey!NoId})) \cup {id} /\ new.head = id
             /\ DOMAIN new.snaps = DOMAIN b.snaps \cup {id} /\ new.snaps[id] = page
             /\ \A s \in DOMAIN b.snaps : s # id => new.snaps[s] = b.snaps[s]
             /\ new.lineage = b.lineage \cup Journey!Lineage(input, b.snaps[input], id, page)
             /\ new.origin = b.origin /\ new.created = b.created /\ new.updated = now
             /\ new.info = b.info
  BY DEF Journey!Recorded, BundleFields, NewRound

(* A round can be recorded on any round that has an output.                 *)
Recordable(b, p, now) ==
    p \in DOMAIN b.rounds \cup {Journey!NoId} /\ Journey!Appendable(b, p, now)

(* The new id is no other's, and the input is what the parent put out.      *)
LEMMA RecordContext ==
  ASSUME NEW b, NEW n \in Nat, n <= MaxDeeds, Formed(b, n), Sound(b), NEW now \in Nat, NEW p,
         Recordable(b, p, now)
  PROVE  /\ n + 1 \notin IdsUpto(n) /\ n + 1 # 0 /\ n + 1 \in IdsUpto(n + 1)
         /\ n + 1 \notin DOMAIN b.rounds /\ n + 1 \notin DOMAIN b.snaps /\ n + 1 # b.origin
         /\ IdsUpto(n) \subseteq IdsUpto(n + 1)
         /\ {p} \ {Journey!NoId} \in SUBSET (DOMAIN b.rounds \cap Journey!Outputs(b))
         /\ \/ Journey!InputOf(b, p) = b.origin
            \/ p # Journey!NoId /\ Journey!InputOf(b, p) = p /\ p \in Journey!Outputs(b)
         /\ Journey!InputOf(b, p) \in DOMAIN b.snaps /\ Journey!InputOf(b, p) # n + 1
         /\ b.updated <= now /\ b.created <= b.updated /\ b.created <= now
  <1>1. n + 1 \notin IdsUpto(n) /\ n + 1 # 0 /\ n + 1 \in IdsUpto(n + 1) /\ IdsUpto(n) \subseteq IdsUpto(n + 1)
    BY JourneyWords DEF IdsUpto
  <1>2. n + 1 \notin DOMAIN b.rounds /\ n + 1 # b.origin
    BY <1>1 DEF Formed
  <1>3. DOMAIN b.snaps = {b.origin} \cup Journey!Outputs(b) /\ Journey!Outputs(b) \subseteq DOMAIN b.rounds
        /\ \A r \in Journey!Outputs(b) : b.rounds[r].output = r
    BY SoundRounds, FormedFounded
  <1>4. p # Journey!NoId => p \in DOMAIN b.rounds /\ b.rounds[p].output # Journey!NoId
    BY DEF Recordable, Journey!Appendable
  <1>5. p # Journey!NoId => p \in Journey!Outputs(b)
    BY <1>4 DEF Journey!Outputs
  <1>6. /\ \/ Journey!InputOf(b, p) = b.origin
           \/ p # Journey!NoId /\ Journey!InputOf(b, p) = p /\ p \in Journey!Outputs(b)
    BY <1>3, <1>5 DEF Journey!InputOf
  <1>7. b.created <= b.updated /\ b.updated <= now /\ b.created <= now
    <2>1. b.created \in Nat /\ b.updated \in Nat /\ b.created <= b.updated /\ b.updated <= now
      BY DEF Formed, Sound, Journey!RoundsValid, Recordable, Journey!Appendable
    <2>2. QED
      BY <2>1
  <1>8. QED
    BY <1>1, <1>2, <1>3, <1>5, <1>6, <1>7

(* The rounds of the longer bundle: what was there has the ancestors it     *)
(* had, and the new round those of its parent.                              *)
OnTop(new, b, id, parents) ==
    /\ Grounded(new.rounds)
    /\ \A r \in DOMAIN b.rounds : Journey!Proper(new.rounds, r) = Journey!Proper(b.rounds, r)
    /\ parents \subseteq Journey!Proper(new.rounds, id)
    /\ Journey!RoundsValid(new)

LEMMA RecordedRounds ==
  ASSUME NEW b, NEW n \in Nat, n <= MaxDeeds, Formed(b, n), Sound(b), NEW now \in Nat, NEW p,
         Recordable(b, p, now), NEW page \in SheetSet, NEW stage \in Stages,
         NEW id, id = n + 1
  PROVE  OnTop(Journey!Recorded(b, page, stage, p, id, now), b, id, {p} \ {Journey!NoId})
  <1> DEFINE new == Journey!Recorded(b, page, stage, p, id, now)
             parents == {p} \ {Journey!NoId}
  <1>1. /\ DOMAIN new.rounds = DOMAIN b.rounds \cup {id}
        /\ new.rounds[id] = NewRound(b, stage, p, id, now)
        /\ \A r \in DOMAIN b.rounds : new.rounds[r] = b.rounds[r]
        /\ new.created = b.created /\ new.updated = now
    <2>1. DOMAIN b = BundleFields
      BY DEF Formed
    <2>2. id \notin DOMAIN b.rounds
      BY RecordContext
    <2>3. QED
      BY <2>1, <2>2, RecordedIs
  <1>2. id \notin DOMAIN b.rounds /\ parents \in SUBSET DOMAIN b.rounds /\ id # 0
        /\ b.created <= now /\ id # Journey!NoId
    BY RecordContext, JourneyWords
  <1>3. Grounded(b.rounds)
    BY SoundRounds
  <1> HIDE DEF new
  <1>4. /\ new.rounds[id].parents = parents /\ new.rounds[id].stage = stage
        /\ new.rounds[id].iteration = Journey!NextIteration(b.rounds, stage, parents)
        /\ new.rounds[id].created = now /\ new.rounds[id].updated = now
        /\ new.rounds[id].status = "paused" /\ new.rounds[id].output = id
    BY <1>1 DEF NewRound
  <1> HIDE DEF parents
  <1>5. Grounded(new.rounds)
    <2>1. IsFiniteSet(DOMAIN new.rounds)
      BY <1>1, <1>3, FS_AddElement DEF Grounded
    <2>2. QED
      BY <2>1, <1>1, <1>2, <1>3, <1>4 DEF Grounded
  <1>6. \A r \in DOMAIN b.rounds : new.rounds[r].parents = b.rounds[r].parents
    BY <1>1
  <1>7. ASSUME NEW r \in DOMAIN b.rounds
        PROVE  Journey!Proper(new.rounds, r) = Journey!Proper(b.rounds, r)
    <2>1. b.rounds[r].parents \in SUBSET DOMAIN b.rounds
      BY <1>3 DEF Grounded
    <2>2. Journey!Ancestors(new.rounds, b.rounds[r].parents) = Journey!Ancestors(b.rounds, b.rounds[r].parents)
      BY <1>1, <1>3, <1>5, <1>6, <2>1, AncestorsKept
    <2>3. QED
      BY <2>2, <1>6 DEF Journey!Proper
  <1>8. Journey!Ancestors(new.rounds, parents) = Journey!Ancestors(b.rounds, parents)
    BY <1>1, <1>2, <1>3, <1>5, <1>6, AncestorsKept
  <1>9. Journey!Proper(new.rounds, id) = Journey!Ancestors(b.rounds, parents)
    BY <1>4, <1>8 DEF Journey!Proper
  <1>10. parents \subseteq Journey!Ancestors(b.rounds, parents)
         /\ Journey!Ancestors(b.rounds, parents) \subseteq DOMAIN b.rounds
    BY <1>2, <1>3, AncestorsIs
  <1>11. ASSUME NEW A \in SUBSET DOMAIN b.rounds, NEW s
         PROVE  Journey!Latest(new.rounds, A, s) = Journey!Latest(b.rounds, A, s)
    <2>1. A \cap DOMAIN new.rounds = A /\ A \cap DOMAIN b.rounds = A
      BY <1>1
    <2>2. {a \in A : new.rounds[a].stage = s} = {a \in A : b.rounds[a].stage = s}
      BY <1>1
    <2>3. {new.rounds[a].iteration : a \in {c \in A : new.rounds[c].stage = s}}
          = {b.rounds[a].iteration : a \in {c \in A : b.rounds[c].stage = s}}
      BY <1>1, <2>2
    <2>4. QED
      BY <2>1, <2>3 DEF Journey!Latest
  <1>12. ASSUME NEW r \in DOMAIN new.rounds
         PROVE  /\ new.rounds[r].created <= new.rounds[r].updated
                /\ new.rounds[r].stage \in Stages
                /\ new.rounds[r].parents \subseteq DOMAIN new.rounds
                /\ new.rounds[r].iteration = Journey!ExpectedIteration(new.rounds, r)
                /\ new.rounds[r].status = "working" \/ new.rounds[r].output # Journey!NoId
                /\ r \notin Journey!Proper(new.rounds, r)
    <2>1. CASE r = id
      <3>1. Journey!ExpectedIteration(new.rounds, id) = Journey!NextIteration(b.rounds, stage, parents)
        BY <1>4, <1>9, <1>10, <1>11 DEF Journey!ExpectedIteration, Journey!NextIteration
      <3>2. id \notin Journey!Proper(new.rounds, id)
        BY <1>2, <1>9, <1>10
      <3>3. QED
        BY <2>1, <3>1, <3>2, <1>1, <1>2, <1>4
    <2>2. CASE r # id
      <3>1. r \in DOMAIN b.rounds /\ new.rounds[r] = b.rounds[r]
        BY <1>1, <2>2
      <3>2. /\ b.rounds[r].created <= b.rounds[r].updated
            /\ b.rounds[r].stage \in Stages
            /\ b.rounds[r].parents \subseteq DOMAIN b.rounds
            /\ b.rounds[r].iteration = Journey!ExpectedIteration(b.rounds, r)
            /\ b.rounds[r].status = "working" \/ b.rounds[r].output # Journey!NoId
            /\ r \notin Journey!Proper(b.rounds, r)
        BY <3>1 DEF Sound, Journey!RoundsValid
      <3>3. Journey!ExpectedIteration(new.rounds, r) = Journey!ExpectedIteration(b.rounds, r)
        <4>1. Journey!Proper(b.rounds, r) \in SUBSET DOMAIN b.rounds
          BY <3>1, SoundRounds
        <4>2. QED
          BY <3>1, <4>1, <1>7, <1>11 DEF Journey!ExpectedIteration
      <3>4. QED
        BY <3>1, <3>2, <3>3, <1>1, <1>7
    <2>3. QED
      BY <2>1, <2>2
  <1>13. Journey!RoundsValid(new)
    BY <1>1, <1>2, <1>12 DEF Journey!RoundsValid
  <1>14. QED
    BY <1>5, <1>7, <1>9, <1>10, <1>13 DEF new, parents, OnTop

(* One edge per card of the new snapshot, and one per card that is gone.    *)
EdgesTell(edges, from, old, to, page) ==
    /\ \A e \in edges :
          /\ e.kind = "retired" => e.to = {}
          /\ \A a \in e.from : a = Journey!Address(from, a.card) /\ a.card \in Journey!CardsOf(old)
          /\ \A a \in e.to : a = Journey!Address(to, a.card) /\ a.card \in Journey!CardsOf(page)
    /\ \A c \in Journey!CardsOf(page) :
          \E e \in edges :
              /\ e.to = {Journey!Address(to, c)}
              /\ \A d \in edges \ {e} : Journey!Address(to, c) \notin d.to
    /\ \A c \in Journey!CardsOf(old) \ Journey!CardsOf(page) :
          \E e \in edges : e.kind = "retired" /\ e.from = {Journey!Address(from, c)}

LEMMA EdgesIs ==
  ASSUME NEW from, NEW old, NEW to, NEW page
  PROVE  EdgesTell(Journey!Lineage(from, old, to, page), from, old, to, page)
  <1> DEFINE edges == Journey!Lineage(from, old, to, page)
             Kind(c) == IF c \notin Journey!CardsOf(old) THEN "new"
                        ELSE IF old.cards[c].text = page.cards[c].text THEN "carried" ELSE "edited"
             Edge(c) == [kind |-> Kind(c),
                         from |-> IF c \in Journey!CardsOf(old) THEN {Journey!Address(from, c)} ELSE {},
                         to |-> {Journey!Address(to, c)}]
             Gone(c) == [kind |-> "retired", from |-> {Journey!Address(from, c)}, to |-> {}]
  <1>1. edges = {Edge(c) : c \in Journey!CardsOf(page)}
                \cup {Gone(c) : c \in Journey!CardsOf(old) \ Journey!CardsOf(page)}
    BY Zenon DEF Journey!Lineage
  <1>2. \A c : /\ Edge(c).kind # "retired" /\ Edge(c).to = {Journey!Address(to, c)}
               /\ Edge(c).from \subseteq {Journey!Address(from, c)}
               /\ Edge(c).from # {} => c \in Journey!CardsOf(old)
               /\ Gone(c).kind = "retired" /\ Gone(c).to = {}
               /\ Gone(c).from = {Journey!Address(from, c)}
    OBVIOUS
  <1>3. \A s, c, d : /\ Journey!Address(s, c).card = c
                     /\ Journey!Address(s, c) = Journey!Address(s, d) => c = d
    BY DEF Journey!Address
  <1> HIDE DEF edges, Edge, Gone
  <1>4. ASSUME NEW e \in edges
        PROVE  /\ e.kind = "retired" => e.to = {}
               /\ \A a \in e.from : a = Journey!Address(from, a.card) /\ a.card \in Journey!CardsOf(old)
               /\ \A a \in e.to : a = Journey!Address(to, a.card) /\ a.card \in Journey!CardsOf(page)
    BY <1>1, <1>2, <1>3
  <1>5. ASSUME NEW c \in Journey!CardsOf(page)
        PROVE  \E e \in edges : /\ e.to = {Journey!Address(to, c)}
                                /\ \A d \in edges \ {e} : Journey!Address(to, c) \notin d.to
    <2>1. Edge(c) \in edges /\ Edge(c).to = {Journey!Address(to, c)}
      BY <1>1, <1>2
    <2>2. ASSUME NEW d \in edges, Journey!Address(to, c) \in d.to PROVE d = Edge(c)
      BY <1>1, <1>2, <1>3, <2>2
    <2>3. QED
      BY <2>1, <2>2
  <1>6. ASSUME NEW c \in Journey!CardsOf(old) \ Journey!CardsOf(page)
        PROVE  \E e \in edges : e.kind = "retired" /\ e.from = {Journey!Address(from, c)}
    BY <1>1, <1>2
  <1>7. QED
    BY <1>4, <1>5, <1>6 DEF edges, EdgesTell

LEMMA RecordedGood ==
  ASSUME NEW b, NEW n \in Nat, n <= MaxDeeds, Formed(b, n), Sound(b), Told(b), NEW now \in Nat,
         NEW p, Recordable(b, p, now), NEW page \in SheetSet, NEW stage \in Stages,
         NEW id, id = n + 1
  PROVE  LET new == Journey!Recorded(b, page, stage, p, id, now)
         IN  /\ Formed(new, id) /\ Sound(new) /\ Told(new)
             /\ new.snaps[new.origin] = b.snaps[b.origin]
  <1> DEFINE new == Journey!Recorded(b, page, stage, p, id, now)
             parents == {p} \ {Journey!NoId}
             input == Journey!InputOf(b, p)
             edges == Journey!Lineage(input, b.snaps[input], id, page)
  <1>1. DOMAIN b = BundleFields
    BY DEF Formed
  <1>2. /\ id \notin DOMAIN b.rounds /\ id \notin DOMAIN b.snaps /\ id # b.origin /\ id # input
        /\ id # 0 /\ id \in IdsUpto(id) /\ IdsUpto(n) \subseteq IdsUpto(id)
        /\ parents \subseteq DOMAIN b.rounds
        /\ input = b.origin \/ (input \in parents /\ input \in Journey!Outputs(b))
        /\ input \in DOMAIN b.snaps
    BY RecordContext
  <1>3. /\ DOMAIN new = BundleFields
        /\ DOMAIN new.rounds = DOMAIN b.rounds \cup {id}
        /\ new.rounds[id] = NewRound(b, stage, p, id, now)
        /\ \A r \in DOMAIN b.rounds : new.rounds[r] = b.rounds[r]
        /\ new.heads = (b.heads \ parents) \cup {id} /\ new.head = id
        /\ DOMAIN new.snaps = DOMAIN b.snaps \cup {id} /\ new.snaps[id] = page
        /\ \A s \in DOMAIN b.snaps : new.snaps[s] = b.snaps[s]
        /\ new.lineage = b.lineage \cup edges
        /\ new.origin = b.origin /\ new.created = b.created /\ new.updated = now
    BY <1>1, <1>2, RecordedIs
  <1>4. /\ DOMAIN new.rounds[id] = RoundFields /\ DOMAIN new.rounds[id].handoff = HandoffParts
        /\ new.rounds[id].output = id /\ new.rounds[id].inputs = {input}
        /\ new.rounds[id].parents = parents
        /\ new.rounds[id].handoff.carry = {} /\ new.rounds[id].handoff.held = {}
    <2> HIDE DEF new, input, parents
    <2>1. new.rounds[id] = NewRound(b, stage, p, id, now)
      BY <1>3
    <2>2. QED
      BY <2>1 DEF NewRound, RoundFields, HandoffParts, Journey!NoHandoff, input, parents
  <1>5. /\ \A r \in DOMAIN b.rounds : Journey!Proper(new.rounds, r) = Journey!Proper(b.rounds, r)
        /\ parents \subseteq Journey!Proper(new.rounds, id)
        /\ Journey!RoundsValid(new)
    <2>1. OnTop(new, b, id, parents)
      BY RecordedRounds
    <2> HIDE DEF new, parents
    <2>2. QED
      BY <2>1 DEF OnTop
  <1>6. /\ Grounded(b.rounds) /\ DOMAIN b.snaps = {b.origin} \cup Journey!Outputs(b)
        /\ b.origin \notin Journey!Outputs(b) /\ Journey!Outputs(b) \subseteq DOMAIN b.rounds
        /\ \A r \in DOMAIN b.rounds :
              /\ b.rounds[r].inputs \subseteq {b.origin} \cup (Journey!Proper(b.rounds, r) \cap Journey!Outputs(b))
              /\ b.rounds[r].inputs \subseteq DOMAIN b.snaps
    BY SoundRounds, FormedFounded
  <1>7. /\ \A e \in edges :
              /\ e.kind = "retired" => e.to = {}
              /\ \A a \in e.from : a = Journey!Address(input, a.card) /\ a.card \in Journey!CardsOf(b.snaps[input])
              /\ \A a \in e.to : a = Journey!Address(id, a.card) /\ a.card \in Journey!CardsOf(page)
        /\ \A c \in Journey!CardsOf(page) :
              \E e \in edges : /\ e.to = {Journey!Address(id, c)}
                               /\ \A d \in edges \ {e} : Journey!Address(id, c) \notin d.to
        /\ \A c \in Journey!CardsOf(b.snaps[input]) \ Journey!CardsOf(page) :
              \E e \in edges : e.kind = "retired" /\ e.from = {Journey!Address(input, c)}
    <2>1. EdgesTell(edges, input, b.snaps[input], id, page)
      BY EdgesIs
    <2> HIDE DEF new, parents, input, edges
    <2>2. QED
      BY <2>1 DEF EdgesTell
  <1> HIDE DEF new, parents, input, edges
  <1>8. Journey!Outputs(new) = Journey!Outputs(b) \cup {id}
    BY <1>2, <1>3, <1>4 DEF Journey!Outputs, Journey!NoId
  <1>9. Formed(new, id)
    <2>1. \A r \in DOMAIN new.rounds : IsRound(new.rounds[r], r)
      BY <1>3, <1>4 DEF IsRound, Formed
    <2>2. \A e \in new.lineage : e.kind = "retired" => e.to = {}
      BY <1>3, <1>7 DEF Formed
    <2>3. \A s \in DOMAIN new.snaps : new.snaps[s] \in SheetSet
      BY <1>3 DEF Formed
    <2>4. QED
      BY <1>2, <1>3, <2>1, <2>2, <2>3 DEF Formed
  <1>10. LeavesKnown(new)
    <2>1. b.heads = {r \in DOMAIN b.rounds : \A s \in DOMAIN b.rounds : r \notin b.rounds[s].parents}
      BY DEF Sound, LeavesKnown
    <2>2. \A s \in DOMAIN b.rounds : new.rounds[s].parents = b.rounds[s].parents
                                     /\ b.rounds[s].parents \subseteq DOMAIN b.rounds
      BY <1>3, <1>6 DEF Grounded
    <2>3. new.heads = {r \in DOMAIN new.rounds : \A s \in DOMAIN new.rounds : r \notin new.rounds[s].parents}
      BY <1>2, <1>3, <1>4, <2>1, <2>2
    <2>4. QED
      BY <1>3, <2>3 DEF LeavesKnown
  <1>11. Journey!SnapshotsValid(new)
    <2>1. DOMAIN new.snaps = {new.origin} \cup Journey!Outputs(new) /\ new.origin \notin Journey!Outputs(new)
      BY <1>2, <1>3, <1>6, <1>8
    <2>2. ASSUME NEW r \in DOMAIN new.rounds, NEW i \in new.rounds[r].inputs
          PROVE  i = new.origin \/ i \in Journey!Proper(new.rounds, r) \cap Journey!Outputs(new)
      BY <1>2, <1>3, <1>4, <1>5, <1>6, <1>8, <2>2
    <2>3. QED
      BY <2>1, <2>2 DEF Journey!SnapshotsValid
  <1>12. ASSUME NEW a, Journey!Known(b, a) PROVE Journey!Known(new, a)
    BY <1>3, <1>12 DEF Journey!Known
  <1>13. Journey!HandoffsValid(new)
    BY <1>3, <1>4, <1>12 DEF Journey!HandoffsValid, Sound
  <1>14. \A s, c : Journey!Address(s, c).snap = s /\ Journey!Address(s, c).card = c
    BY DEF Journey!Address
  <1>15. Journey!LineageValid(new)
    <2>1. ASSUME NEW e \in b.lineage
          PROVE  /\ \A a \in e.from \cup e.to : Journey!Known(new, a)
                 /\ \A t \in e.to : /\ t.snap \in Journey!Outputs(new)
                                    /\ \A s \in e.from : \/ s.snap = new.origin
                                                         \/ s.snap \in Journey!Proper(new.rounds, t.snap)
      <3>1. /\ \A a \in e.from \cup e.to : Journey!Known(b, a)
            /\ \A t \in e.to : /\ t.snap \in Journey!Outputs(b)
                               /\ \A s \in e.from : \/ s.snap = b.origin
                                                    \/ s.snap \in Journey!Proper(b.rounds, t.snap)
        BY DEF Sound, Journey!LineageValid
      <3>2. QED
        BY <3>1, <1>3, <1>5, <1>6, <1>8, <1>12
    <2>2. ASSUME NEW e \in edges
          PROVE  /\ \A a \in e.from \cup e.to : Journey!Known(new, a)
                 /\ \A t \in e.to : /\ t.snap \in Journey!Outputs(new)
                                    /\ \A s \in e.from : \/ s.snap = new.origin
                                                         \/ s.snap \in Journey!Proper(new.rounds, t.snap)
      <3>1. \A a \in e.from : a.snap = input /\ a.card \in Journey!CardsOf(b.snaps[input])
        BY <1>7, <1>14
      <3>2. \A a \in e.to : a.snap = id /\ a.card \in Journey!CardsOf(page)
        BY <1>7, <1>14
      <3>3. \A a \in e.from \cup e.to : Journey!Known(new, a)
        BY <3>1, <3>2, <1>2, <1>3 DEF Journey!Known
      <3>4. QED
        BY <3>1, <3>2, <3>3, <1>2, <1>3, <1>5, <1>8
    <2>3. QED
      BY <1>3, <2>1, <2>2 DEF Journey!LineageValid
  <1>16. Sound(new)
    BY <1>5, <1>10, <1>11, <1>13, <1>15 DEF Sound
  <1>17. \A d \in b.lineage : \A c : Journey!Address(id, c) \notin d.to
    BY <1>2, <1>6, <1>14 DEF Sound, Journey!LineageValid
  <1>18. \A d \in edges : \A r \in DOMAIN b.rounds : \A c : Journey!Address(r, c) \notin d.to
    BY <1>2, <1>7, <1>14
  <1>19. ASSUME NEW r \in Journey!Outputs(new) \ Journey!ForeignBranches,
                NEW c \in Journey!CardsOf(new.snaps[r])
         PROVE  ToldOf(new, r, c)
    <2>1. CASE r = id
      <3>1. PICK e \in edges : /\ e.to = {Journey!Address(id, c)}
                               /\ \A d \in edges \ {e} : Journey!Address(id, c) \notin d.to
        BY <1>3, <1>7, <2>1
      <3>2. Journey!Snaps(e.from) \subseteq {input}
        BY <1>7, <1>14 DEF Journey!Snaps
      <3>3. QED
        BY <1>3, <1>4, <1>17, <2>1, <3>1, <3>2 DEF ToldOf
    <2>2. CASE r # id
      <3>1. r \in Journey!Outputs(b) \ Journey!ForeignBranches /\ r \in DOMAIN b.rounds /\ r \in DOMAIN b.snaps
        BY <1>6, <1>8, <2>2
      <3>2. ToldOf(b, r, c)
        BY <3>1, <1>3 DEF Told
      <3>3. PICK e \in b.lineage : /\ e.to = {Journey!Address(r, c)}
                                   /\ Journey!Snaps(e.from) \subseteq b.rounds[r].inputs
                                   /\ \A d \in b.lineage \ {e} : Journey!Address(r, c) \notin d.to
        BY <3>2 DEF ToldOf
      <3>4. QED
        BY <1>3, <1>18, <3>1, <3>3 DEF ToldOf
    <2>3. QED
      BY <2>1, <2>2
  <1>20. ASSUME NEW r \in Journey!Outputs(new) \ Journey!ForeignBranches,
                NEW i \in new.rounds[r].inputs, NEW c \in Journey!CardsOf(new.snaps[i]),
                c \notin Journey!CardsOf(new.snaps[r])
         PROVE  RetiredIn(new, i, c)
    <2>1. CASE r = id
      <3>1. i = input /\ c \in Journey!CardsOf(b.snaps[input]) \ Journey!CardsOf(page)
        BY <1>2, <1>3, <1>4, <1>20, <2>1
      <3>2. QED
        BY <3>1, <1>3, <1>7 DEF RetiredIn
    <2>2. CASE r # id
      <3>1. /\ r \in Journey!Outputs(b) \ Journey!ForeignBranches /\ r \in DOMAIN b.rounds /\ r \in DOMAIN b.snaps
            /\ new.rounds[r] = b.rounds[r] /\ i \in DOMAIN b.snaps
        BY <1>3, <1>6, <1>8, <2>2
      <3>2. RetiredIn(b, i, c)
        BY <3>1, <1>3, <1>20 DEF Told
      <3>3. QED
        BY <3>2, <1>3 DEF RetiredIn
    <2>3. QED
      BY <2>1, <2>2
  <1>21. Told(new)
    BY <1>19, <1>20 DEF Told
  <1>22. new.snaps[new.origin] = b.snaps[b.origin]
    BY <1>3, <1>6
  <1>23. QED
    BY <1>9, <1>16, <1>21, <1>22 DEF new

LEMMA HandedOffIs ==
  ASSUME NEW b, NEW n \in Nat, Formed(b, n), Sound(b), Told(b), b.head \in DOMAIN b.rounds,
         NEW carried, NEW answered \in BOOLEAN, NEW now \in Nat
  PROVE  LET next == Journey!HandedOff(b, carried, answered, now)
         IN  Formed(next, n) /\ Told(next) /\ next.snaps = b.snaps /\ next.origin = b.origin
  <1> DEFINE next == Journey!HandedOff(b, carried, answered, now)
             handoff == Journey!Handoff(b, carried, answered)
  <1>1. DOMAIN handoff = HandoffParts
    BY DEF Journey!Handoff, HandoffParts
  <1>2. DOMAIN b = BundleFields /\ \A r \in DOMAIN b.rounds : DOMAIN b.rounds[r] = RoundFields
    BY DEF Formed, IsRound
  <1>3. /\ DOMAIN next = BundleFields /\ DOMAIN next.rounds = DOMAIN b.rounds
        /\ next.snaps = b.snaps /\ next.origin = b.origin /\ next.lineage = b.lineage
        /\ next.created = b.created /\ next.updated = now
        /\ \A r \in DOMAIN b.rounds :
              /\ DOMAIN next.rounds[r] = RoundFields
              /\ next.rounds[r].output = b.rounds[r].output /\ next.rounds[r].inputs = b.rounds[r].inputs
              /\ next.rounds[r].handoff \in {b.rounds[r].handoff, handoff}
    <2> HIDE DEF handoff
    <2>1. QED
      BY <1>2 DEF Journey!HandedOff, BundleFields, RoundFields, handoff
  <1> HIDE DEF next, handoff
  <1>4. Formed(next, n)
    BY <1>1, <1>3 DEF Formed, IsRound
  <1>5. Journey!Outputs(next) = Journey!Outputs(b) /\ Journey!Outputs(b) \subseteq DOMAIN b.rounds
    BY <1>3 DEF Journey!Outputs
  <1>6. (\A r, c : ToldOf(b, r, c) /\ r \in DOMAIN b.rounds => ToldOf(next, r, c))
        /\ (\A i, c : RetiredIn(b, i, c) => RetiredIn(next, i, c))
    BY <1>3 DEF ToldOf, RetiredIn
  <1>7. Told(next)
    BY <1>3, <1>5, <1>6 DEF Told
  <1>8. QED
    BY <1>3, <1>4, <1>7 DEF next

LEMMA ForeignFormed ==
  ASSUME NEW page \in SheetSet, NEW stage
  PROVE  /\ Formed(Journey!ForeignFile(page, stage), 0) /\ Told(Journey!ForeignFile(page, stage))
         /\ Journey!ForeignFile(page, stage).info = Journey!NoInfo
  <1> DEFINE f == Journey!ForeignFile(page, stage)
             F == Journey!ForeignId
             Round(ps, out, status) ==
                [stage |-> stage, parents |-> ps, status |-> status,
                 iteration |-> IF ps = {} THEN 1 ELSE 2, inputs |-> {F}, output |-> out,
                 created |-> 1, updated |-> 1, handoff |-> Journey!NoHandoff]
             rounds == [r \in Journey!ForeignBranches \cup {F + 3} |->
                           IF r = F + 3 THEN Round(Journey!ForeignBranches, Journey!NoId, "working")
                           ELSE Round({}, r, "superseded")]
  <1>1. /\ DOMAIN f = BundleFields /\ f.rounds = rounds /\ f.origin = F
        /\ f.snaps = [s \in {F} \cup Journey!ForeignBranches |-> page]
        /\ f.created = 1 /\ f.updated = 1 /\ f.lineage = {} /\ f.info = Journey!NoInfo
    BY DEF Journey!ForeignFile, Journey!Started, BundleFields
  <1>2. F \in Nat /\ Journey!ForeignBranches = {F + 1, F + 2}
    BY JourneyWords
  <1>3. ASSUME NEW r \in DOMAIN rounds
        PROVE  IsRound(rounds[r], r) /\ rounds[r].output = IF r = F + 3 THEN Journey!NoId ELSE r
    BY DEF IsRound, RoundFields, HandoffParts, Journey!NoHandoff
  <1>4. {F} \cup DOMAIN rounds \subseteq IdsUpto(0)
    BY <1>2 DEF IdsUpto
  <1> HIDE DEF f, rounds, F
  <1>5. Formed(f, 0)
    BY <1>1, <1>3, <1>4 DEF Formed
  <1>6. Journey!Outputs(f) \subseteq Journey!ForeignBranches
    <2>1. DOMAIN rounds = Journey!ForeignBranches \cup {F + 3}
      BY DEF rounds
    <2>2. QED
      BY <1>1, <1>3, <2>1 DEF Journey!Outputs
  <1>7. Told(f)
    BY <1>6 DEF Told
  <1>8. QED
    BY <1>1, <1>5, <1>7 DEF f

-----------------------------------------------------------------------------
(* The state: every bundle the panel made or will put on screen is well     *)
(* formed, sound and told; a file need not be sound before it is read.      *)
Good(b, n) == Formed(b, n) /\ Sound(b) /\ Told(b)

FileGood(f, n) == Formed(f, n) /\ Told(f) /\ (f.info # Journey!NoInfo => Journey!Accepted(f))

OfSheet(b) == strayed \/ b.snaps[b.origin].id = sheet.id

SheetInv == sheet \in SheetSet /\ undo \in Seq(SheetSet) /\ clock \in Nat

CountInv == given \in Nat /\ deeds \in 0..MaxDeeds /\ given <= deeds + 1

ShownInv == shown = Journey!NoBundle \/ (Good(shown, given) /\ OfSheet(shown))

CheckpointInv ==
    checkpoint = Journey!NoCheckpoint \/ (Good(checkpoint.bundle, given) /\ OfSheet(checkpoint.bundle))

WorkInv ==
    /\ work.op \in {"idle", "start", "record", "import", "load", "end"}
    /\ work.op \in {"start", "record"} => Good(work.result, given) /\ OfSheet(work.result)
    /\ work.op = "record" /\ work.branch # Journey!NoDocument =>
          work.branch \in SheetSet /\ Good(work.base, given) /\ OfSheet(work.base)
    /\ work.op \in {"import", "load"} =>
          FileGood(work.result, given) /\ (strayed \/ work.id = sheet.id)
    /\ work.op = "end" => FileGood(work.result, given)

FilesInv == \A f \in files : FileGood(f, given)

JourneyInv == SheetInv /\ CountInv /\ ShownInv /\ CheckpointInv /\ WorkInv /\ FilesInv

LEMMA GoodLonger ==
  ASSUME NEW n \in Nat, NEW m, m = n \/ m = n + 1
  PROVE  \A b : (Good(b, n) => Good(b, m)) /\ (FileGood(b, n) => FileGood(b, m))
                /\ (Formed(b, n) => Formed(b, m))
  <1>1. IdsUpto(n) \subseteq IdsUpto(m)
    BY DEF IdsUpto
  <1>2. \A b : Formed(b, n) => Formed(b, m)
    BY <1>1 DEF Formed
  <1>3. QED
    BY <1>2 DEF Good, FileGood

LEMMA GoodIsBundle == \A b, n : Good(b, n) \/ FileGood(b, n) => b # Journey!NoBundle
  BY JourneyWords DEF Good, FileGood

LEMMA JourneyImplied == JourneyInv => JourneyInvariant
  <1> SUFFICES ASSUME JourneyInv PROVE JourneyInvariant
    OBVIOUS
  <1>1. Journey!TypeOK
    <2>1. sheet.id \in Sheets /\ DOMAIN sheet.cards = Notes
      BY DEF JourneyInv, SheetInv, SheetSet
    <2>2. given \in 0..MaxDeeds + 1
      BY JourneyWords DEF JourneyInv, CountInv
    <2>3. QED
      BY <2>1, <2>2 DEF Journey!TypeOK, JourneyInv, CountInv, WorkInv
  <1>2. ASSUME shown # Journey!NoBundle
        PROVE  Good(shown, given) /\ OfSheet(shown)
    BY <1>2 DEF JourneyInv, ShownInv
  <1>3. Journey!AlwaysSaveable
    <2> SUFFICES ASSUME shown # Journey!NoBundle, shown.info = Journey!NoInfo
                 PROVE  Journey!Accepted(shown)
      BY DEF Journey!AlwaysSaveable
    <2>1. Sound(shown) /\ shown.info.scope # "round"
      BY <1>2 DEF Good, Journey!NoInfo
    <2>2. Journey!Valid(shown)
      BY <2>1, ValidIsSound
    <2>3. QED
      BY <2>2 DEF Journey!Accepted, Journey!ClaimHolds
  <1>4. Journey!OfThisDocument
    BY <1>2 DEF Journey!OfThisDocument, OfSheet
  <1>5. Journey!SharedIsSafe
    <2>1. ASSUME NEW f \in files, f.info # Journey!NoInfo
          PROVE  Formed(f, given) /\ given \in Nat /\ Journey!Accepted(f)
      BY <2>1 DEF JourneyInv, FilesInv, FileGood, CountInv
    <2>2. QED
      BY <2>1, ClaimIsSafe DEF Journey!SharedIsSafe
  <1>6. Journey!LineageTold
    BY <1>2, ToldIs DEF Good
  <1>7. QED
    BY <1>1, <1>3, <1>4, <1>5, <1>6 DEF JourneyInvariant

LEMMA FirstSheet ==
  ASSUME NEW d \in Sheets
  PROVE  Journey!FirstDocument(d) \in SheetSet /\ Journey!FirstDocument(d).id = d
  <1>1. (CHOOSE t \in Texts : TRUE) \in Texts
    BY JourneyAssumption
  <1>2. [text |-> CHOOSE t \in Texts : TRUE, sourced |-> TRUE] \in CardSet /\ Journey!NoCard \in CardSet
    BY <1>1 DEF CardSet
  <1>3. QED
    BY <1>2 DEF Journey!FirstDocument, SheetSet

LEMMA LatestTime == Journey!Max(Times) \in Times /\ Times \subseteq Nat
  <1>1. \E t \in Times : \A u \in Times : t >= u
    BY JourneyAssumption
  <1>2. QED
    BY <1>1, JourneyAssumption DEF Journey!Max

LEMMA JourneyStarts == Journey!Init => JourneyInv
  <1> SUFFICES ASSUME Journey!Init PROVE JourneyInv
    OBVIOUS
  <1>0. /\ sheet = Journey!FirstDocument(CHOOSE d \in Sheets : TRUE)
        /\ undo = <<>> /\ shown = Journey!NoBundle /\ checkpoint = Journey!NoCheckpoint
        /\ work = Journey!Idle /\ clock = Journey!Max(Times)
        /\ given = 0 /\ deeds = 0 /\ strayed = FALSE
        /\ files \subseteq {Journey!ForeignFile(sheet, CHOOSE s \in Stages : TRUE)}
    BY DEF Journey!Init
  <1>1. sheet \in SheetSet
    <2>1. (CHOOSE d \in Sheets : TRUE) \in Sheets
      BY JourneyAssumption
    <2>2. QED
      BY <1>0, <2>1, FirstSheet
  <1>2. SheetInv
    <2>1. clock \in Nat
      BY <1>0, LatestTime
    <2>2. undo \in Seq(SheetSet)
      BY <1>0
    <2>3. QED
      BY <1>1, <2>1, <2>2 DEF SheetInv
  <1>3. CountInv
    BY <1>0, JourneyWords DEF CountInv
  <1>4. ShownInv /\ CheckpointInv
    BY <1>0 DEF ShownInv, CheckpointInv
  <1>5. WorkInv
    BY <1>0 DEF WorkInv, Journey!Idle
  <1>6. FilesInv
    <2>1. \A f \in files : FileGood(f, 0)
      BY <1>0, <1>1, ForeignFormed DEF FileGood
    <2>2. QED
      BY <1>0, <2>1 DEF FilesInv
  <1>7. QED
    BY <1>2, <1>3, <1>4, <1>5, <1>6 DEF JourneyInv

(* While nothing is under way WorkInv asks for nothing.                     *)
LEMMA IdleWork == work = Journey!Idle => WorkInv
  BY DEF WorkInv, Journey!Idle

(* The id of the open document stays, or the document is another's.         *)
LEMMA StaysOfSheet ==
  ASSUME NEW b, OfSheet(b), strayed' = strayed, sheet'.id = sheet.id
  PROVE  strayed' \/ b.snaps[b.origin].id = sheet'.id
  BY DEF OfSheet

LEMMA JourneyTimePasses == JourneyInv /\ Journey!ClockMoves => JourneyInv'
  <1> SUFFICES ASSUME JourneyInv, Journey!ClockMoves PROVE JourneyInv'
    OBVIOUS
  <1>1. clock' \in Nat
    BY LatestTime DEF Journey!ClockMoves
  <1>2. deeds' \in 0..MaxDeeds /\ given' <= deeds' + 1
    BY JourneyWords DEF JourneyInv, CountInv, Journey!ClockMoves, Journey!Counted
  <1>3. QED
    BY <1>1, <1>2 DEF JourneyInv, SheetInv, CountInv, ShownInv, CheckpointInv, WorkInv, FilesInv,
                      OfSheet, Journey!ClockMoves

LEMMA JourneyEdit == JourneyInv /\ Journey!Edit => JourneyInv'
  <1> SUFFICES ASSUME JourneyInv, Journey!Edit PROVE JourneyInv'
    OBVIOUS
  <1>1. PICK c \in Notes, card \in {Journey!NoCard} \cup [text : Texts, sourced : {TRUE}] :
            sheet' = [sheet EXCEPT !.cards[c] = card]
    BY DEF Journey!Edit
  <1>2. sheet' \in SheetSet /\ sheet'.id = sheet.id
    BY <1>1 DEF JourneyInv, SheetInv, SheetSet, CardSet
  <1>3. SheetInv'
    BY <1>2 DEF JourneyInv, SheetInv, Journey!Edit
  <1>4. deeds' \in 0..MaxDeeds /\ given' <= deeds' + 1
    BY JourneyWords DEF JourneyInv, CountInv, Journey!Edit, Journey!Counted
  <1>5. QED
    BY <1>2, <1>3, <1>4 DEF JourneyInv, CountInv, ShownInv, CheckpointInv, WorkInv, FilesInv,
                            OfSheet, Journey!Edit

LEMMA JourneyOpen == JourneyInv /\ (\E d \in Sheets : Journey!OpenDocument(d)) => JourneyInv'
  <1> SUFFICES ASSUME JourneyInv, NEW d \in Sheets, Journey!OpenDocument(d) PROVE JourneyInv'
    OBVIOUS
  <1>1. sheet' = Journey!FirstDocument(d) /\ sheet' \in SheetSet /\ sheet'.id # sheet.id
    BY FirstSheet DEF Journey!OpenDocument, Journey!Settle
  <1>2. shown' = Journey!NoBundle /\ checkpoint' = Journey!NoCheckpoint
    BY FirstSheet DEF Journey!OpenDocument, Journey!Settle
  <1>3. SheetInv'
    BY <1>1 DEF JourneyInv, SheetInv, Journey!OpenDocument
  <1>4. CountInv'
    BY JourneyWords DEF JourneyInv, CountInv, Journey!OpenDocument, Journey!Counted
  <1>5. WorkInv'
    <2>1. CASE work.op = "import"
      BY <2>1 DEF Journey!OpenDocument, WorkInv, Journey!Idle
    <2>2. CASE work.op # "import"
      <3>1. work' = work /\ given' = given
            /\ strayed' = (strayed \/ work.op \in {"start", "record", "load"})
        BY <2>2 DEF Journey!OpenDocument
      <3>2. WorkInv
        BY DEF JourneyInv
      <3>3. QED
        BY <2>2, <3>1, <3>2 DEF WorkInv, OfSheet
    <2>3. QED
      BY <2>1, <2>2
  <1>6. FilesInv'
    BY DEF JourneyInv, FilesInv, Journey!OpenDocument
  <1>7. QED
    BY <1>2, <1>3, <1>4, <1>5, <1>6 DEF JourneyInv, ShownInv, CheckpointInv

LEMMA JourneyStart == JourneyInv /\ Journey!Start => JourneyInv'
  <1> SUFFICES ASSUME JourneyInv, Journey!Start PROVE JourneyInv'
    OBVIOUS
  <1>1. /\ given' = given + 1 /\ given \in Nat /\ deeds' \in 0..MaxDeeds /\ given' <= deeds' + 1
        /\ sheet' = sheet /\ undo' = undo /\ shown' = shown /\ checkpoint' = checkpoint
        /\ files' = files /\ strayed' = strayed /\ clock' = clock
        /\ work' = [Journey!Idle EXCEPT !.op = "start",
                                        !.result = Journey!Started(sheet, given', clock)]
    BY JourneyWords DEF JourneyInv, CountInv, Journey!Start, Journey!Fresh, Journey!Counted
  <1>2. sheet \in SheetSet /\ clock \in Nat
    BY DEF JourneyInv, SheetInv
  <1> DEFINE b == Journey!Started(sheet, given', clock)
  <1>3. Formed(b, given') /\ Sound(b) /\ Told(b) /\ b.snaps[b.origin] = sheet
    BY <1>1, <1>2, StartedIs
  <1>4. work'.op = "start" /\ work'.result = b
    BY <1>1 DEF Journey!Idle
  <1> HIDE DEF b
  <1>5. WorkInv'
    BY <1>1, <1>3, <1>4 DEF WorkInv, Good, OfSheet
  <1>6. \A c : (Good(c, given) => Good(c, given')) /\ (FileGood(c, given) => FileGood(c, given'))
    BY <1>1, GoodLonger
  <1>7. QED
    BY <1>1, <1>5, <1>6 DEF JourneyInv, SheetInv, CountInv, ShownInv, CheckpointInv, FilesInv, OfSheet

(* A branch starts from the snapshot its round put out.                     *)
LEMMA JourneyRecord ==
  ASSUME JourneyInv, shown # Journey!NoBundle, NEW p \in DOMAIN shown.rounds \cup {Journey!NoId},
         NEW stage \in Stages, Journey!Record(stage, p)
  PROVE  JourneyInv'
  <1> DEFINE branching == p # shown.head
             page == IF branching THEN shown.snaps[p] ELSE sheet
             b == Journey!Recorded(shown, page, stage, p, given', clock)
  <1>1. /\ given' = given + 1 /\ given \in Nat /\ given <= MaxDeeds
        /\ deeds' \in 0..MaxDeeds /\ given' <= deeds' + 1
        /\ sheet' = sheet /\ undo' = undo /\ shown' = shown /\ checkpoint' = checkpoint
        /\ files' = files /\ strayed' = strayed /\ clock' = clock
    BY JourneyWords DEF JourneyInv, CountInv, Journey!Record, Journey!Fresh, Journey!Counted
  <1>2. /\ branching => p \in DOMAIN shown.rounds /\ shown.rounds[p].output # Journey!NoId
        /\ Journey!Appendable(shown, p, clock)
        /\ work' = [Journey!Idle EXCEPT !.op = "record", !.base = shown, !.result = b,
                                        !.branch = IF branching THEN page ELSE Journey!NoDocument]
    BY DEF Journey!Record
  <1>3. Good(shown, given) /\ OfSheet(shown)
    BY DEF JourneyInv, ShownInv
  <1>4. sheet \in SheetSet /\ clock \in Nat /\ Recordable(shown, p, clock)
    BY <1>2 DEF JourneyInv, SheetInv, Recordable
  <1>5. page \in SheetSet
    <2>1. CASE branching
      <3>1. p \in Journey!Outputs(shown)
        BY <1>2, <2>1 DEF Journey!Outputs
      <3>2. p \in DOMAIN shown.snaps
        BY <1>1, <1>3, <3>1, SoundRounds DEF Good
      <3>3. QED
        BY <1>3, <2>1, <3>2 DEF Good, Formed
    <2>2. QED
      BY <1>4, <2>1
  <1>6. /\ Formed(b, given') /\ Sound(b) /\ Told(b)
        /\ b.snaps[b.origin] = shown.snaps[shown.origin]
    <2> HIDE DEF page
    <2>1. QED
      BY <1>1, <1>3, <1>4, <1>5, RecordedGood DEF Good
  <1>7. /\ work'.op = "record" /\ work'.result = b /\ work'.base = shown
        /\ work'.branch \in {page, Journey!NoDocument}
    <2> HIDE DEF b, page
    <2>1. QED
      BY <1>2 DEF Journey!Idle
  <1> HIDE DEF b, page
  <1>8. \A c : (Good(c, given) => Good(c, given')) /\ (FileGood(c, given) => FileGood(c, given'))
    BY <1>1, GoodLonger
  <1>9. WorkInv'
    <2>1. Good(b, given') /\ Good(shown, given')
      BY <1>3, <1>6, <1>8 DEF Good
    <2>2. /\ strayed' \/ b.snaps[b.origin].id = sheet'.id
          /\ strayed' \/ shown.snaps[shown.origin].id = sheet'.id
      BY <1>1, <1>3, <1>6 DEF OfSheet
    <2>3. QED
      BY <1>5, <1>7, <2>1, <2>2 DEF WorkInv, OfSheet
  <1>10. ShownInv' /\ CheckpointInv'
    BY <1>1, <1>8 DEF JourneyInv, ShownInv, CheckpointInv, OfSheet
  <1>11. FilesInv'
    BY <1>1, <1>8 DEF JourneyInv, FilesInv
  <1>12. CountInv'
    <2>1. given' \in Nat
      BY <1>1
    <2>2. deeds' \in 0..MaxDeeds
      BY <1>1
    <2>3. given' <= deeds' + 1
      BY <1>1
    <2>4. QED
      BY <2>1, <2>2, <2>3 DEF CountInv
  <1>13. SheetInv'
    BY <1>1 DEF JourneyInv, SheetInv
  <1>14. QED
    BY <1>9, <1>10, <1>11, <1>12, <1>13 DEF JourneyInv

(* Late results are put on the screen of the document they were made for,   *)
(* or the document has strayed.                                             *)
LEMMA JourneyStartDone == JourneyInv /\ Journey!StartDone => JourneyInv'
  <1> SUFFICES ASSUME JourneyInv, Journey!StartDone PROVE JourneyInv'
    OBVIOUS
  <1>1. /\ work.op = "start" /\ shown' = work.result /\ checkpoint' = Journey!NoCheckpoint
        /\ work' = Journey!Idle /\ sheet' = sheet /\ undo' = undo /\ files' = files
        /\ given' = given /\ deeds' = deeds /\ strayed' = strayed /\ clock' = clock
    BY DEF Journey!StartDone
  <1>2. Good(work.result, given) /\ OfSheet(work.result)
    BY <1>1 DEF JourneyInv, WorkInv
  <1>3. WorkInv'
    BY <1>1 DEF WorkInv, Journey!Idle
  <1>4. ShownInv' /\ CheckpointInv'
    BY <1>1, <1>2 DEF ShownInv, CheckpointInv, OfSheet
  <1>5. QED
    BY <1>1, <1>3, <1>4 DEF JourneyInv, SheetInv, CountInv, FilesInv

LEMMA JourneyRecordDone == JourneyInv /\ Journey!RecordDone => JourneyInv'
  <1> SUFFICES ASSUME JourneyInv, Journey!RecordDone PROVE JourneyInv'
    OBVIOUS
  <1>1. /\ work.op = "record" /\ work' = Journey!Idle /\ files' = files /\ given' = given
        /\ deeds' = deeds /\ strayed' = strayed /\ clock' = clock
    BY DEF Journey!RecordDone
  <1>2. Good(work.result, given) /\ OfSheet(work.result)
    BY <1>1 DEF JourneyInv, WorkInv
  <1>3. WorkInv'
    BY <1>1 DEF WorkInv, Journey!Idle
  <1>4. CASE work.branch = Journey!NoDocument
    <2>1. shown' = work.result /\ sheet' = sheet /\ undo' = undo /\ checkpoint' = checkpoint
      BY <1>4 DEF Journey!RecordDone
    <2>2. QED
      BY <1>1, <1>2, <1>3, <2>1 DEF JourneyInv, SheetInv, CountInv, ShownInv, CheckpointInv, FilesInv,
                                    OfSheet
  <1>5. CASE work.branch # Journey!NoDocument
    <2> DEFINE mark == [bundle |-> work.base, restored |-> work.branch]
    <2>1. /\ sheet' = work.branch /\ undo' = Append(undo, sheet)
          /\ shown' = IF work.branch.id = sheet.id THEN work.result ELSE Journey!NoBundle
          /\ checkpoint' = IF work.branch.id = sheet.id THEN mark ELSE Journey!NoCheckpoint
      BY <1>5 DEF Journey!RecordDone, Journey!Settle
    <2>2. work.branch \in SheetSet /\ Good(work.base, given) /\ OfSheet(work.base)
      BY <1>1, <1>5 DEF JourneyInv, WorkInv
    <2>3. mark.bundle = work.base
      OBVIOUS
    <2> HIDE DEF mark
    <2>4. SheetInv'
      BY <1>1, <2>1, <2>2 DEF JourneyInv, SheetInv
    <2>5. ShownInv' /\ CheckpointInv'
      BY <1>1, <1>2, <2>1, <2>2, <2>3 DEF ShownInv, CheckpointInv, OfSheet
    <2>6. QED
      BY <1>1, <1>3, <2>4, <2>5 DEF JourneyInv, CountInv, FilesInv
  <1>6. QED
    BY <1>4, <1>5

LEMMA JourneyGivesUp ==
  JourneyInv /\ (Journey!BranchRefused \/ Journey!ImportCancelled) => JourneyInv'
  <1> SUFFICES ASSUME JourneyInv, Journey!BranchRefused \/ Journey!ImportCancelled PROVE JourneyInv'
    OBVIOUS
  <1>1. /\ work' = Journey!Idle /\ sheet' = sheet /\ undo' = undo /\ shown' = shown
        /\ checkpoint' = checkpoint /\ files' = files /\ given' = given /\ deeds' = deeds
        /\ strayed' = strayed /\ clock' = clock
    BY DEF Journey!BranchRefused, Journey!ImportCancelled
  <1>2. WorkInv'
    BY <1>1 DEF WorkInv, Journey!Idle
  <1>3. QED
    BY <1>1, <1>2 DEF JourneyInv, SheetInv, CountInv, ShownInv, CheckpointInv, FilesInv, OfSheet

LEMMA JourneyUndo == JourneyInv /\ Journey!UndoBranch => JourneyInv'
  <1> SUFFICES ASSUME JourneyInv, Journey!UndoBranch PROVE JourneyInv'
    OBVIOUS
  <1> DEFINE last == undo[Len(undo)]
  <1>1. undo \in Seq(SheetSet) /\ undo # <<>> /\ Good(checkpoint.bundle, given) /\ OfSheet(checkpoint.bundle)
    BY DEF JourneyInv, SheetInv, CheckpointInv, Journey!UndoBranch
  <1>2. last \in SheetSet /\ undo' \in Seq(SheetSet)
    <2>1. undo' = SubSeq(undo, 1, Len(undo) - 1)
      BY DEF Journey!UndoBranch, Journey!Front
    <2>2. Len(undo) \in Nat /\ Len(undo) # 0
      BY <1>1
    <2>3. QED
      BY <1>1, <2>1, <2>2
  <1>3. /\ sheet' = last
        /\ shown' = IF last.id = sheet.id THEN checkpoint.bundle ELSE Journey!NoBundle
        /\ checkpoint' = Journey!NoCheckpoint
        /\ work' = work /\ work = Journey!Idle /\ files' = files /\ given' = given /\ deeds' = deeds
        /\ strayed' = strayed /\ clock' = clock
    BY DEF Journey!UndoBranch, Journey!Settle, Journey!Last
  <1> HIDE DEF last
  <1>4. WorkInv'
    BY <1>3 DEF WorkInv, Journey!Idle
  <1>5. ShownInv' /\ CheckpointInv'
    BY <1>1, <1>3 DEF ShownInv, CheckpointInv, OfSheet
  <1>6. QED
    BY <1>2, <1>3, <1>4, <1>5 DEF JourneyInv, SheetInv, CountInv, FilesInv

LEMMA JourneyHandoff == JourneyInv /\ Journey!SaveHandoff => JourneyInv'
  <1> SUFFICES ASSUME JourneyInv, Journey!SaveHandoff PROVE JourneyInv'
    OBVIOUS
  <1>0. \E carried : \E answered \in BOOLEAN :
            LET next == Journey!HandedOff(shown, carried, answered, clock)
            IN  Journey!Valid(next) /\ shown' = next
    BY DEF Journey!SaveHandoff
  <1>1. PICK carried : \E answered \in BOOLEAN :
            /\ Journey!Valid(Journey!HandedOff(shown, carried, answered, clock))
            /\ shown' = Journey!HandedOff(shown, carried, answered, clock)
    BY <1>0
  <1>2. /\ shown # Journey!NoBundle /\ shown.head # Journey!NoId
        /\ deeds' \in 0..MaxDeeds /\ given' <= deeds' + 1
        /\ work' = work /\ sheet' = sheet /\ undo' = undo
        /\ checkpoint' = checkpoint /\ files' = files /\ given' = given
        /\ strayed' = strayed /\ clock' = clock
    BY JourneyWords DEF JourneyInv, CountInv, Journey!SaveHandoff, Journey!Counted
  <1>3. Good(shown, given) /\ OfSheet(shown) /\ given \in Nat /\ clock \in Nat
    BY <1>2 DEF JourneyInv, ShownInv, CountInv, SheetInv
  <1>4. shown.head \in DOMAIN shown.rounds
    BY <1>2, <1>3 DEF Good, Sound, LeavesKnown
  <1>5. Formed(shown', given) /\ Told(shown') /\ shown'.snaps = shown.snaps /\ shown'.origin = shown.origin
    BY <1>1, <1>3, <1>4, HandedOffIs DEF Good
  <1>6. Sound(shown')
    BY <1>1, ValidIsSound
  <1>7. ShownInv'
    BY <1>2, <1>3, <1>5, <1>6 DEF ShownInv, Good, OfSheet
  <1>8. QED
    BY <1>2, <1>7 DEF JourneyInv, SheetInv, CountInv, CheckpointInv, WorkInv, FilesInv, OfSheet

(* Exporting, sharing: a part that is written is formed and told, and       *)
(* accepted.                                                                *)
LEMMA DerivedGood ==
  ASSUME NEW b, NEW n \in Nat, Good(b, n), NEW r \in DOMAIN b.rounds \cup {Journey!NoId},
         Journey!Derived(b, r) # Journey!NoBundle
  PROVE  Formed(Journey!Derived(b, r), n) /\ Told(Journey!Derived(b, r))
  <1>1. CASE r = Journey!NoId
    BY <1>1 DEF Journey!Derived, Good
  <1>2. CASE r # Journey!NoId
    <2>1. Journey!Derived(b, r) = Journey!Projected(b, r) /\ r \in DOMAIN b.rounds
      BY <1>2 DEF Journey!Derived
    <2>2. QED
      BY <2>1, PartTold DEF Good
  <1>3. QED
    BY <1>1, <1>2

LEMMA BareGood ==
  ASSUME NEW b, NEW n, Good(b, n), NEW info
  PROVE  Good([b EXCEPT !.info = info], n) /\ [b EXCEPT !.info = info].rounds = b.rounds
  <1> DEFINE c == [b EXCEPT !.info = info]
  <1>1. /\ DOMAIN c = BundleFields /\ c.journey = b.journey /\ c.origin = b.origin /\ c.rounds = b.rounds
        /\ c.heads = b.heads /\ c.head = b.head /\ c.snaps = b.snaps /\ c.lineage = b.lineage
        /\ c.created = b.created /\ c.updated = b.updated
    BY DEF Good, Formed, BundleFields
  <1> HIDE DEF c
  <1>2. Journey!Outputs(c) = Journey!Outputs(b)
    BY <1>1 DEF Journey!Outputs
  <1>3. \A a : Journey!Known(c, a) <=> Journey!Known(b, a)
    BY <1>1 DEF Journey!Known
  <1>4. Formed(c, n)
    BY <1>1 DEF Good, Formed
  <1>5. Told(c)
    BY <1>1, <1>2 DEF Good, Told, ToldOf, RetiredIn
  <1>6. Journey!RoundsValid(c) /\ LeavesKnown(c) /\ Journey!SnapshotsValid(c)
    BY <1>1, <1>2 DEF Good, Sound, Journey!RoundsValid, LeavesKnown, Journey!SnapshotsValid
  <1>7. Journey!HandoffsValid(c) /\ Journey!LineageValid(c)
    BY <1>1, <1>2, <1>3 DEF Good, Sound, Journey!HandoffsValid, Journey!LineageValid
  <1>8. QED
    BY <1>1, <1>4, <1>5, <1>6, <1>7 DEF Good, Sound, c

LEMMA SharedGood ==
  ASSUME NEW b, NEW n \in Nat, Good(b, n), NEW r \in DOMAIN b.rounds \cup {Journey!NoId},
         Journey!Shared(b, r) # Journey!NoBundle
  PROVE  Formed(Journey!Shared(b, r), n) /\ Told(Journey!Shared(b, r))
  <1> DEFINE bare == [b EXCEPT !.info = Journey!NoInfo]
             part == Journey!Derived(bare, r)
             info == [scope |-> IF r = Journey!NoId THEN "full" ELSE "round", round |-> r]
  <1>1. /\ part # Journey!NoBundle /\ Journey!Accepted(part)
        /\ Journey!Shared(b, r) = [Journey!SafeBundle(part) EXCEPT !.info = info]
    BY DEF Journey!Shared
  <1>2. Good(bare, n) /\ bare.rounds = b.rounds
    BY BareGood
  <1> HIDE DEF bare, info
  <1>3. Formed(part, n) /\ Told(part)
    BY <1>1, <1>2, DerivedGood
  <1>4. Journey!SnapshotsValid(part)
    BY <1>1 DEF Journey!Accepted, Journey!Valid
  <1> HIDE DEF part
  <1>5. QED
    BY <1>1, <1>3, <1>4, SafeTold

LEMMA JourneyWrites ==
  ASSUME JourneyInv, NEW r \in DOMAIN shown.rounds \cup {Journey!NoId},
         Journey!Export(r) \/ Journey!Share(r)
  PROVE  JourneyInv'
  <1>1. /\ shown # Journey!NoBundle /\ deeds' \in 0..MaxDeeds /\ given' <= deeds' + 1
        /\ work' = work /\ sheet' = sheet /\ undo' = undo /\ shown' = shown
        /\ checkpoint' = checkpoint /\ given' = given /\ strayed' = strayed /\ clock' = clock
    BY JourneyWords DEF JourneyInv, CountInv, Journey!Export, Journey!Share, Journey!Counted
  <1>2. PICK part \in {Journey!Derived(shown, r), Journey!Shared(shown, r)} :
            part # Journey!NoBundle /\ Journey!Accepted(part) /\ files' = files \cup {part}
    BY DEF Journey!Export, Journey!Share
  <1>3. Good(shown, given) /\ given \in Nat
    BY <1>1 DEF JourneyInv, ShownInv, CountInv
  <1>4. FileGood(part, given)
    BY <1>2, <1>3, DerivedGood, SharedGood DEF FileGood
  <1>5. FilesInv'
    BY <1>1, <1>2, <1>4 DEF JourneyInv, FilesInv
  <1>6. QED
    BY <1>1, <1>5 DEF JourneyInv, SheetInv, CountInv, ShownInv, CheckpointInv, WorkInv, OfSheet

LEMMA JourneyReads ==
  ASSUME JourneyInv, NEW f \in files, Journey!Import(f) \/ Journey!Load(f)
  PROVE  JourneyInv'
  <1>1. /\ deeds' \in 0..MaxDeeds /\ given' <= deeds' + 1
        /\ sheet' = sheet /\ undo' = undo /\ shown' = shown /\ files' = files
        /\ checkpoint' = checkpoint /\ given' = given /\ strayed' = strayed /\ clock' = clock
    BY JourneyWords DEF JourneyInv, CountInv, Journey!Import, Journey!Load, Journey!Counted
  <1>2. work'.op \in {"import", "load"} /\ work'.result = f /\ work'.id = sheet.id
    BY DEF Journey!Import, Journey!Load, Journey!Idle
  <1>3. FileGood(f, given)
    BY DEF JourneyInv, FilesInv
  <1>4. WorkInv'
    BY <1>1, <1>2, <1>3 DEF WorkInv
  <1>5. QED
    BY <1>1, <1>4 DEF JourneyInv, SheetInv, CountInv, ShownInv, CheckpointInv, FilesInv, OfSheet

LEMMA JourneyImportDone == JourneyInv /\ Journey!ImportDone => JourneyInv'
  <1> SUFFICES ASSUME JourneyInv, Journey!ImportDone PROVE JourneyInv'
    OBVIOUS
  <1>1. /\ work.op \in {"import", "load"} /\ work' = Journey!Idle /\ sheet' = sheet /\ undo' = undo
        /\ files' = files /\ given' = given /\ deeds' = deeds /\ strayed' = strayed /\ clock' = clock
        /\ \/ shown' = shown /\ checkpoint' = checkpoint
           \/ /\ Journey!Accepted(work.result)
              /\ work.result.snaps[work.result.origin].id = work.id
              /\ shown' = work.result /\ checkpoint' \in {checkpoint, Journey!NoCheckpoint}
    BY DEF Journey!ImportDone
  <1>2. FileGood(work.result, given) /\ (strayed \/ work.id = sheet.id)
    BY <1>1 DEF JourneyInv, WorkInv
  <1>3. Journey!Accepted(work.result) => Good(work.result, given)
    BY <1>2, ValidIsSound DEF Journey!Accepted, FileGood, Good
  <1>4. WorkInv'
    BY <1>1 DEF WorkInv, Journey!Idle
  <1>5. ShownInv' /\ CheckpointInv'
    BY <1>1, <1>2, <1>3 DEF JourneyInv, ShownInv, CheckpointInv, OfSheet
  <1>6. QED
    BY <1>1, <1>4, <1>5 DEF JourneyInv, SheetInv, CountInv, FilesInv

LEMMA JourneyEnds == JourneyInv /\ (Journey!End \/ Journey!EndSaved) => JourneyInv'
  <1> SUFFICES ASSUME JourneyInv, Journey!End \/ Journey!EndSaved PROVE JourneyInv'
    OBVIOUS
  <1>1. CASE Journey!End
    <2>1. /\ shown # Journey!NoBundle /\ deeds' \in 0..MaxDeeds /\ given' <= deeds' + 1
          /\ sheet' = sheet /\ undo' = undo /\ files' = files /\ given' = given
          /\ strayed' = strayed /\ clock' = clock
      BY <1>1, JourneyWords DEF JourneyInv, CountInv, Journey!End, Journey!Counted
    <2>0. \/ shown' = Journey!NoBundle /\ checkpoint' = Journey!NoCheckpoint /\ work' = work
          \/ /\ Journey!Accepted(shown) /\ work'.op = "end" /\ work'.result = shown
             /\ shown' = shown /\ checkpoint' = checkpoint
      BY <1>1 DEF Journey!End, Journey!Idle
    <2>2. Good(shown, given)
      BY <2>1 DEF JourneyInv, ShownInv
    <2>3. ShownInv' /\ CheckpointInv'
      BY <2>1, <2>0 DEF JourneyInv, ShownInv, CheckpointInv, OfSheet
    <2>4. WorkInv'
      BY <2>1, <2>0, <2>2 DEF JourneyInv, WorkInv, Good, FileGood, OfSheet
    <2>5. QED
      BY <2>1, <2>3, <2>4 DEF JourneyInv, SheetInv, CountInv, FilesInv
  <1>2. CASE Journey!EndSaved
    <2>1. /\ work.op = "end" /\ files' = files \cup {work.result}
          /\ shown' = Journey!NoBundle /\ checkpoint' = Journey!NoCheckpoint /\ work' = Journey!Idle
          /\ sheet' = sheet /\ undo' = undo /\ given' = given /\ deeds' = deeds
          /\ strayed' = strayed /\ clock' = clock
      BY <1>2 DEF Journey!EndSaved
    <2>2. FilesInv'
      BY <2>1 DEF JourneyInv, WorkInv, FilesInv
    <2>3. WorkInv'
      BY <2>1 DEF WorkInv, Journey!Idle
    <2>4. QED
      BY <2>1, <2>2, <2>3 DEF JourneyInv, SheetInv, CountInv, ShownInv, CheckpointInv
  <1>3. QED
    BY <1>1, <1>2

LEMMA JourneyStep == JourneyInv /\ [Journey!Next]_journeyVars => JourneyInv'
  <1> SUFFICES ASSUME JourneyInv, [Journey!Next]_journeyVars PROVE JourneyInv'
    OBVIOUS
  <1>1. CASE Journey!Next
    <2>1. CASE \/ Journey!ClockMoves \/ Journey!Edit \/ Journey!Start \/ Journey!StartDone
               \/ Journey!RecordDone \/ Journey!BranchRefused \/ Journey!UndoBranch
               \/ Journey!SaveHandoff \/ Journey!ImportDone \/ Journey!ImportCancelled
               \/ Journey!End \/ Journey!EndSaved \/ \E d \in Sheets : Journey!OpenDocument(d)
      BY <2>1, JourneyTimePasses, JourneyEdit, JourneyStart, JourneyStartDone, JourneyRecordDone,
         JourneyGivesUp, JourneyUndo, JourneyHandoff, JourneyImportDone, JourneyEnds, JourneyOpen
    <2>2. ASSUME shown # Journey!NoBundle, NEW r \in DOMAIN shown.rounds \cup {Journey!NoId},
                 Journey!Export(r) \/ Journey!Share(r) \/ \E stage \in Stages : Journey!Record(stage, r)
          PROVE  JourneyInv'
      BY <2>2, JourneyWrites, JourneyRecord
    <2>3. ASSUME NEW f \in files, Journey!Import(f) \/ Journey!Load(f) PROVE JourneyInv'
      BY <2>3, JourneyReads
    <2>4. QED
      BY <1>1, <2>1, <2>2, <2>3 DEF Journey!Next
  <1>2. CASE UNCHANGED journeyVars
    BY <1>2 DEF journeyVars, JourneyInv, SheetInv, CountInv, ShownInv, CheckpointInv, WorkInv,
                FilesInv, OfSheet
  <1>3. QED
    BY <1>1, <1>2

(* Whatever rounds, branches, handoffs, imports and their late answers lead *)
(* to, for any number of documents, cards, stages and steps: the bundle on  *)
(* screen can be written, stored, shared and read again, belongs to the     *)
(* open document and tells where each card comes from; what was shared      *)
(* shows nothing in the clear.                                              *)
THEOREM JourneyHolds == InquirySpec => []JourneyInvariant
  <1>1. InquiryInit => JourneyInv
    BY JourneyStarts DEF InquiryInit
  <1>2. JourneyInv /\ [InquiryNext]_<<side, vars, journeyVars>> => JourneyInv'
    <2> SUFFICES ASSUME JourneyInv, [InquiryNext]_<<side, vars, journeyVars>> PROVE JourneyInv'
      OBVIOUS
    <2>1. [Journey!Next]_journeyVars
      BY DEF InquiryNext
    <2>2. QED
      BY <2>1, JourneyStep
  <1>3. QED
    BY <1>1, <1>2, JourneyImplied, PTL DEF InquirySpec
=============================================================================
