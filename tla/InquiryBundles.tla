--------------------------- MODULE InquiryBundles ---------------------------
(***************************************************************************)
(* The inquiry bundle resource: routes/inquiry_bundles.py on               *)
(* DatabaseBundleContentStore.  A bundle is an opaque payload with a       *)
(* revision the server owns; every change is conditional on it.  A request *)
(* reads the row first (existence, owner) and changes it in a second       *)
(* statement; other requests run in between.  The payload is a write       *)
(* number.  Header syntax (428, 422) is settled before any state is read   *)
(* and is left out.                                                        *)
(***************************************************************************)
EXTENDS Naturals, FiniteSets

CONSTANTS
    Clients,
    Journeys,
    Owner,       \* [Clients -> principals \cup {None}]: None without identity
    None,
    MaxWrites    \* bound on the payloads ever sent

ASSUME MaxWritesAssumption == MaxWrites \in Nat
ASSUME NoneAssumption == None \notin Journeys

VARIABLES
    rows,     \* inquiry_bundles: [Journeys -> row \cup {NoRow}]
    audit,    \* deletion audit events per journey
    req,      \* each client's request
    writes,   \* payloads sent so far
    life,     \* history: how often each journey was created
    log       \* history: accepted payloads

serverVars == <<rows, audit, req, writes, life, log>>

Kinds == {"get", "create", "update", "delete"}
NoRow == [revision |-> 0, write |-> 0, createdBy |-> None]
Row == [revision: Nat \ {0}, write: Nat \ {0}, createdBy: {Owner[c] : c \in Clients}]
Idle == [pc |-> "idle", kind |-> "get", journey |-> None, expected |-> 0,
         write |-> 0, status |-> 0, etag |-> 0]
Request == [pc: {"idle", "sent", "checked", "answered"}, kind: Kinds, journey: Journeys \cup {None},
            expected: Nat, write: Nat, status: {0, 200, 201, 204, 403, 404, 409, 500}, etag: Nat]
Entry == [journey: Journeys, life: Nat, revision: Nat \ {0}, write: Nat \ {0}, over: Nat]

Init ==
    /\ rows = [j \in Journeys |-> NoRow]
    /\ audit = [j \in Journeys |-> 0]
    /\ req = [c \in Clients |-> Idle]
    /\ writes = 0
    /\ life = [j \in Journeys |-> 0]
    /\ log = {}

----------------------------------------------------------------------------
(* A client sends a request; payloads are numbered as they are sent. *)
Send(c, kind, j, expected) ==
    /\ req[c].pc = "idle"
    /\ LET payload == IF kind \in {"create", "update"} THEN writes + 1 ELSE 0 IN
       /\ payload <= MaxWrites
       /\ writes' = IF payload = 0 THEN writes ELSE payload
       /\ req' = [req EXCEPT ![c] =
            [pc |-> "sent", kind |-> kind, journey |-> j, expected |-> expected,
             write |-> payload, status |-> 0, etag |-> 0]]
    /\ UNCHANGED <<rows, audit, life, log>>

(* The response: a status, an ETag (0: none) and the payload it is about. *)
Response(r, status, etag, write) ==
    [pc |-> "answered", kind |-> r.kind, journey |-> r.journey, expected |-> r.expected,
     write |-> write, status |-> status, etag |-> etag]

Answered(c, status, etag) ==
    [req EXCEPT ![c] = Response(req[c], status, etag, req[c].write)]

(* created_by restricts only when both it and the principal are known. *)
DenyIfNotOwner(row, c) == None \notin {row.createdBy, Owner[c]} /\ row.createdBy # Owner[c]

(* The first statement: get_inquiry_bundle_row. *)
Read(c) ==
    LET r == req[c]
        row == rows[r.journey]
    IN
    /\ r.pc = "sent"
    /\ req' =
         CASE r.kind = "create" /\ row # NoRow -> Answered(c, 409, 0)
           [] r.kind = "get" /\ row = NoRow -> Answered(c, 404, 0)
           [] r.kind # "create" /\ row # NoRow /\ DenyIfNotOwner(row, c) -> Answered(c, 403, 0)
           [] r.kind = "get" /\ row # NoRow /\ ~DenyIfNotOwner(row, c) ->
                [req EXCEPT ![c] = Response(r, 200, row.revision, row.write)]
           [] OTHER -> [req EXCEPT ![c].pc = "checked"]
    /\ UNCHANGED <<rows, audit, writes, life, log>>

Accept(j, revision, write, over, n) ==
    log' = log \cup {[journey |-> j, life |-> n, revision |-> revision, write |-> write, over |-> over]}

(* create() and commit; the primary key refuses a second row, and nothing  *)
(* turns that IntegrityError into a 409.                                   *)
Insert(c) ==
    LET j == req[c].journey IN
    /\ req[c].pc = "checked" /\ req[c].kind = "create"
    /\ IF rows[j] = NoRow
       THEN /\ rows' = [rows EXCEPT ![j] =
                 [revision |-> 1, write |-> req[c].write, createdBy |-> Owner[c]]]
            /\ life' = [life EXCEPT ![j] = @ + 1]
            /\ Accept(j, 1, req[c].write, 0, life[j] + 1)
            /\ req' = Answered(c, 201, 1)
       ELSE /\ req' = Answered(c, 500, 0)
            /\ UNCHANGED <<rows, life, log>>
    /\ UNCHANGED <<audit, writes>>

(* Mutant of Matches: the row only has to exist. *)
MatchesAnyRevision(c) == rows[req[c].journey] # NoRow

(* The WHERE clause of update_cas and delete_cas. *)
Matches(c) ==
    /\ rows[req[c].journey] # NoRow
    /\ rows[req[c].journey].revision = req[c].expected

NewETag(c) == req[c].expected + 1

(* update_cas and commit, or rollback and 409. *)
UpdateCas(c) ==
    LET j == req[c].journey
        row == rows[j]
    IN
    /\ req[c].pc = "checked" /\ req[c].kind = "update"
    /\ IF Matches(c)
       THEN /\ rows' = [rows EXCEPT ![j] =
                 [revision |-> req[c].expected + 1, write |-> req[c].write,
                  createdBy |-> row.createdBy]]
            /\ Accept(j, req[c].expected + 1, req[c].write, row.write, life[j])
            /\ req' = Answered(c, 204, NewETag(c))
       ELSE /\ req' = Answered(c, 409, 0)
            /\ UNCHANGED <<rows, log>>
    /\ UNCHANGED <<audit, writes, life>>

(* Mutant of DeleteCas: the event is added before the outcome is known. *)
DeleteAndAudit(c) ==
    LET j == req[c].journey IN
    /\ req[c].pc = "checked" /\ req[c].kind = "delete"
    /\ audit' = [audit EXCEPT ![j] = @ + 1]
    /\ rows' = IF Matches(c) THEN [rows EXCEPT ![j] = NoRow] ELSE rows
    /\ req' = Answered(c, IF Matches(c) THEN 204 ELSE 409, 0)
    /\ UNCHANGED <<writes, life, log>>

(* Mutant of DeleteCas: the row stays as a tombstone. *)
DeleteToTombstone(c) ==
    LET j == req[c].journey IN
    /\ req[c].pc = "checked" /\ req[c].kind = "delete"
    /\ rows' = IF Matches(c) THEN [rows EXCEPT ![j].revision = 0] ELSE rows
    /\ audit' = IF Matches(c) THEN [audit EXCEPT ![j] = @ + 1] ELSE audit
    /\ req' = Answered(c, IF Matches(c) THEN 204 ELSE 409, 0)
    /\ UNCHANGED <<writes, life, log>>

(* delete_cas with the audit event in the same transaction, or 409. *)
DeleteCas(c) ==
    LET j == req[c].journey IN
    /\ req[c].pc = "checked" /\ req[c].kind = "delete"
    /\ IF Matches(c)
       THEN /\ rows' = [rows EXCEPT ![j] = NoRow]
            /\ audit' = [audit EXCEPT ![j] = @ + 1]
            /\ req' = Answered(c, 204, 0)
       ELSE /\ req' = Answered(c, 409, 0)
            /\ UNCHANGED <<rows, audit>>
    /\ UNCHANGED <<writes, life, log>>

(* The answer has arrived or is lost. *)
Finish(c) ==
    /\ req[c].pc = "answered"
    /\ req' = [req EXCEPT ![c] = Idle]
    /\ UNCHANGED <<rows, audit, writes, life, log>>

Handle(c) == Read(c) \/ Insert(c) \/ UpdateCas(c) \/ DeleteCas(c)

(* Clients that send any revision whatever (0 stands for If-None-Match). *)
Next ==
    \E c \in Clients :
        \/ \E kind \in Kinds, j \in Journeys, n \in 0..MaxWrites :
              /\ (n = 0) <=> (kind \in {"get", "create"})
              /\ Send(c, kind, j, n)
        \/ Handle(c)
        \/ Finish(c)

Spec == Init /\ [][Next]_serverVars

----------------------------------------------------------------------------
(* Types; a stored row always has a positive revision and a payload, so a  *)
(* deletion leaves no tombstone behind.                                    *)
TypeOK ==
    /\ rows \in [Journeys -> Row \cup {NoRow}]
    /\ audit \in [Journeys -> Nat]
    /\ req \in [Clients -> Request]
    /\ writes \in Nat
    /\ life \in [Journeys -> Nat]
    /\ log \subseteq Entry

(* AC-4 of DATA-INQUIRY-CONCURRENCY-01: between a creation and a deletion  *)
(* the accepted payloads form one chain, each replacing exactly its        *)
(* predecessor, one per revision, and the row is its end: no interleaving  *)
(* of requests makes two writers win on one revision.                      *)
OneWinnerPerRevision ==
    /\ \A e, f \in log :
         (e.journey = f.journey /\ e.life = f.life /\ e.revision = f.revision) => e = f
    /\ \A e \in log : e.revision > 1 =>
         \E f \in log : /\ f.journey = e.journey /\ f.life = e.life
                        /\ f.revision = e.revision - 1 /\ f.write = e.over
    /\ \A j \in Journeys : rows[j] # NoRow =>
         \E e \in log : /\ e.journey = j /\ e.life = life[j]
                        /\ e.revision = rows[j].revision /\ e.write = rows[j].write

(* AC-5: a journey that was created and is gone has its deletion event,    *)
(* and no event exists without one ("neither can succeed without the       *)
(* other").                                                                *)
DeletionsAudited ==
    \A j \in Journeys : life[j] = audit[j] + (IF rows[j] = NoRow THEN 0 ELSE 1)

(* The ETag of an answer names the revision its payload really got or had, *)
(* though the update computes it from the request's header.                *)
ETagNamesWrite ==
    \A c \in Clients : req[c].etag # 0 =>
        \E e \in log : /\ e.journey = req[c].journey
                       /\ e.revision = req[c].etag /\ e.write = req[c].write

(* A revision of a journey's life names one write, in the log and in every *)
(* ETag the server hands out.                                              *)
RevisionsNameWrites == OneWinnerPerRevision /\ ETagNamesWrite
=============================================================================
