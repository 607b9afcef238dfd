---------------------------- MODULE InquiryPanel ----------------------------
(***************************************************************************)
(* The inquiry panel of the frontend (ui/InquiryJourneyPrototypePanel.tsx, *)
(* api/client.ts) talking to InquiryBundles: one panel per client, its     *)
(* bundle in React state, the server's revision in backendEtagRef, one     *)
(* request at a time (isBusy).  What matters of a bundle is its journey    *)
(* and the stored payload it was derived from.                             *)
(***************************************************************************)
EXTENDS InquiryBundles

CONSTANT MaxDetours   \* bound on the kinds of detour in one behaviour

ASSUME MaxDetoursAssumption == MaxDetours \in Nat

VARIABLES
    bundle,    \* [Clients -> [journey, basis]], NoBundle before a start
    etag,      \* backendEtagRef, 0 when undefined
    etagFor,   \* history: the journey and payload the revision was given for
    derived,   \* history: the payload each payload sent was derived from
    detours    \* history: what has happened beside saving and loading

panelVars == <<bundle, etag, etagFor, derived, detours>>
vars == <<serverVars, panelVars>>

NoBundle == [journey |-> None, basis |-> 0]
NoETag == [journey |-> None, write |-> 0]

(* A panel that holds a revision changed its bundle, a loaded payload was  *)
(* refused after its revision was stored, a bundle was deleted.            *)
Detours == {"reuse", "refused", "deleted"}

PanelInit ==
    /\ Init
    /\ bundle = [c \in Clients |-> NoBundle]
    /\ etag = [c \in Clients |-> 0]
    /\ etagFor = [c \in Clients |-> NoETag]
    /\ derived = [w \in 1..MaxWrites |-> 0]
    /\ detours = {}

Detour(d) ==
    /\ Cardinality(detours \cup {d}) <= MaxDetours
    /\ detours' = detours \cup {d}

ChangeBundle(c, b) ==
    /\ bundle' = [bundle EXCEPT ![c] = b]
    /\ IF etag[c] = 0 /\ req[c].pc = "idle" THEN UNCHANGED detours ELSE Detour("reuse")
    /\ UNCHANGED <<serverVars, etag, etagFor, derived>>

(* handleStart: a journey id nobody has used. *)
Start(c, j) ==
    /\ bundle[c] = NoBundle /\ req[c].pc = "idle"
    /\ life[j] = 0 /\ \A d \in Clients : j \notin {bundle[d].journey, req[d].journey, etagFor[d].journey}
    /\ ChangeBundle(c, [journey |-> j, basis |-> 0])

(* handleImport of a file some panel exported. *)
Import(c, e) ==
    /\ req[c].pc = "idle"
    /\ ChangeBundle(c, [journey |-> e.journey, basis |-> e.write])

(* The inquiry is ended or another document opened, also while a request   *)
(* is in flight; backendEtagRef keeps its value.                           *)
DropBundle(c) ==
    /\ bundle[c] # NoBundle
    /\ ChangeBundle(c, NoBundle)

(* The panel is unmounted; it comes back empty. *)
Unmount(c) ==
    /\ req[c].pc = "idle"
    /\ bundle' = [bundle EXCEPT ![c] = NoBundle]
    /\ etag' = [etag EXCEPT ![c] = 0]
    /\ etagFor' = [etagFor EXCEPT ![c] = NoETag]
    /\ UNCHANGED <<serverVars, derived, detours>>

(* Mutant of Precondition: an existing row is always replaced. *)
PreconditionCurrent(c) == IF rows[bundle[c].journey] = NoRow THEN "create" ELSE "update"

(* If-Match with the last revision, or If-None-Match: * without one. *)
Precondition(c) == IF etag[c] = 0 THEN "create" ELSE "update"

(* handleSaveToBackend, up to the request. *)
Save(c) ==
    /\ bundle[c] # NoBundle
    /\ Send(c, Precondition(c), bundle[c].journey, etag[c])
    /\ derived' = [derived EXCEPT ![writes + 1] = bundle[c].basis]
    /\ UNCHANGED <<bundle, etag, etagFor, detours>>

(* handleLoadFromBackend, up to the request. *)
Load(c) ==
    /\ bundle[c] # NoBundle
    /\ Send(c, "get", bundle[c].journey, 0)
    /\ UNCHANGED panelVars

(* deleteInquiryBundle with the revision last seen. *)
Delete(c) ==
    /\ etag[c] # 0
    /\ Send(c, "delete", etagFor[c].journey, etag[c])
    /\ Detour("deleted")
    /\ UNCHANGED <<bundle, etag, etagFor, derived>>

Remember(c) ==
    /\ etag' = [etag EXCEPT ![c] = req[c].etag]
    /\ etagFor' = [etagFor EXCEPT ![c] = [journey |-> req[c].journey, write |-> req[c].write]]

(* putInquiryBundle resolves with a new ETag. *)
Saved(c) ==
    /\ req[c].kind \in {"create", "update"} /\ req[c].etag # 0
    /\ Finish(c)
    /\ Remember(c)
    /\ bundle' = IF bundle[c] = NoBundle THEN bundle
                 ELSE [bundle EXCEPT ![c].basis = req[c].write]
    /\ UNCHANGED <<derived, detours>>

(* getInquiryBundle resolves: the revision is remembered, then the payload *)
(* parsed and taken over ...                                               *)
Loaded(c) ==
    /\ req[c].kind = "get" /\ req[c].status = 200
    /\ Finish(c)
    /\ Remember(c)
    /\ bundle' = [bundle EXCEPT ![c] = [journey |-> req[c].journey, basis |-> req[c].write]]
    /\ UNCHANGED <<derived, detours>>

(* ... or refused: the old bundle stays, with the new revision. *)
LoadRefused(c) ==
    /\ req[c].kind = "get" /\ req[c].status = 200
    /\ Finish(c)
    /\ Remember(c)
    /\ Detour("refused")
    /\ UNCHANGED <<bundle, derived>>

(* Mutant of Failed: on a conflict the panel adopts the current revision,  *)
(* so that the next attempt goes through.                                  *)
FailedAdopting(c) ==
    /\ Finish(c)
    /\ IF req[c].status = 409
       THEN LET row == rows[req[c].journey] IN
            /\ etag' = [etag EXCEPT ![c] = row.revision]
            /\ etagFor' = [etagFor EXCEPT ![c] = [journey |-> req[c].journey, write |-> row.write]]
       ELSE UNCHANGED <<etag, etagFor>>
    /\ UNCHANGED <<bundle, derived, detours>>

(* Mutant of Failed: the request is sent again by itself. *)
FailedRetrying(c) ==
    /\ req[c].pc = "answered"
    /\ req' = [req EXCEPT ![c] = [@ EXCEPT !.pc = "sent", !.status = 0, !.etag = 0]]
    /\ UNCHANGED <<rows, audit, writes, life, log, panelVars>>

(* An error status, a lost answer, or the end of a DELETE: nothing changes *)
(* and nothing is retried.                                                 *)
Failed(c) ==
    /\ Finish(c)
    /\ UNCHANGED panelVars

PanelNext ==
    \E c \in Clients :
        \/ \E j \in Journeys : Start(c, j)
        \/ \E e \in log : Import(c, e)
        \/ DropBundle(c)
        \/ Unmount(c)
        \/ Save(c)
        \/ Load(c)
        \/ Delete(c)
        \/ Saved(c)
        \/ Loaded(c)
        \/ LoadRefused(c)
        \/ Failed(c)
        \/ Handle(c) /\ UNCHANGED panelVars

PanelSpec == PanelInit /\ [][PanelNext]_vars

----------------------------------------------------------------------------
(* AC-6 of DATA-INQUIRY-CONCURRENCY-01: whatever the panel goes through,   *)
(* with refused loads, deletions and reuse, the server sees fresh requests *)
(* with a payload of their own, one at a time per client, and nothing sent *)
(* again by itself; what holds of InquiryBundles holds with the panel.     *)
ImplementsServer == Spec

(* handleSaveToBackend: "so a stale client can never overwrite newer       *)
(* work": an accepted update was derived from the payload it replaces,     *)
(* lost answers and conflicts included.  What breaks it is named by the    *)
(* detours: a refused load keeps the new revision with the old bundle, the *)
(* revision outlives its journey, and a journey created again starts at    *)
(* revision 1.                                                             *)
NoStaleOverwrite ==
    detours = {} => \A e \in log : e.revision > 1 => derived[e.write] = e.over

(* handleSaveToBackend: "If-None-Match: * when this journey was never      *)
(* persisted here": an update carries a revision of its own journey, also  *)
(* after refused loads and deletions, unless the panel was reused.         *)
RevisionOfThisJourney ==
    "reuse" \notin detours =>
        \A c \in Clients :
            (req[c].kind = "update" /\ req[c].pc # "idle") => etagFor[c].journey = req[c].journey
=============================================================================
