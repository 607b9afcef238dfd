---------------------------- MODULE AgentExchange ----------------------------
(***************************************************************************)
(* Working with an outside agent by hand (App.tsx, agent_task_export.ts,   *)
(* agent_response_import.ts, agent_task_ledger.ts).  A task sheet is       *)
(* registered at the server, handed out and noted in the browser's ledger; *)
(* the pasted response is checked against the ledger, its proposals are    *)
(* registered, reviewed one by one, decided at the server first and then   *)
(* applied to the document that was open when the button was pressed.      *)
(*                                                                         *)
(* A document is its id, the stamp of its last save, its cards and what    *)
(* was worked into it.  The wording of sheets and responses, hashes and    *)
(* size limits are left out; two responses to one task have the same       *)
(* proposals under the same ids.                                           *)
(***************************************************************************)
EXTENDS Naturals, Sequences, FiniteSets, SequencesExt

CONSTANTS DocIds, Cards, Proposals,
          KindOf,         \* per proposal: title, narrative, merge or patch
          CardOf,         \* per proposal: the card it is about
          LedgerLimit,    \* MAX_ENTRIES of the ledger
          ResolvedLimit,  \* resolvedLimit of the review list
          MaxSteps        \* bound: what the user does

VARIABLES doc, past,    \* the open document and its history
          stored,       \* per document: the stamp of the copy on the server
          scope,        \* selection, safeMode, drafts and scopeConfirmed
          readOnly,
          ledger,       \* the browser's ledger of exported tasks
          tasks,        \* tasks registered at the server
          sheets,       \* sheets that were handed out
          reviews,      \* agentImportedProposalReviews
          calls,        \* what is waiting for the server
          proposed,     \* proposals registered at the server, with their document
          decided,      \* decisions of the server
          steps,
          seen, detours \* history: reviews ever listed; what went another way

agentVars == <<doc, past, stored, scope, readOnly, ledger, tasks, sheets, reviews, calls,
               proposed, decided, steps, seen, detours>>

Statuses == {"pending", "adopted", "rejected"}

Key(task, p) == <<task, p>>
NoKey == <<0, "none">>
KeysOf(rs) == {rs[i].key : i \in DOMAIN rs}

FirstDocument(d) == [id |-> d, stamp |-> stored[d], cards |-> Cards, work |-> <<>>]

(* confirmed holds the selection and the options of the confirmation, if   *)
(* there is one.                                                           *)
NoScope == [cards |-> {}, safe |-> FALSE, drafts |-> FALSE, confirmed |-> {}]

(* A sheet of the open document that was exported in an earlier session. *)
EarlierSheet == [task |-> MaxSteps, doc |-> doc.id, stamp |-> 0, cards |-> Cards, shown |-> {},
                 asked |-> {<<Cards, FALSE, FALSE>>}]

Init ==
    /\ stored = [d \in DocIds |-> 0]
    /\ \E d \in DocIds : doc = FirstDocument(d)
    /\ past = <<>> /\ readOnly = FALSE
    /\ scope \in {NoScope, [NoScope EXCEPT !.cards = Cards, !.confirmed = {<<Cards, FALSE, FALSE>>}]}
    /\ \/ sheets = {} /\ ledger = <<>>
       \/ sheets = {EarlierSheet} /\ ledger = <<EarlierSheet>> /\ scope = NoScope
    /\ tasks = sheets /\ reviews = <<>> /\ calls = {}
    /\ proposed = {} /\ decided = {} /\ steps = 0 /\ seen = {} /\ detours = {}

Counted == steps < MaxSteps /\ steps' = steps + 1

-----------------------------------------------------------------------------
(* The document.                                                           *)

Pushed(next) == doc' = next /\ past' = Append(past, doc)

Edit ==
    /\ Counted /\ ~readOnly
    /\ \/ Pushed([doc EXCEPT !.work = Append(@, NoKey)])
       \/ \E c \in doc.cards : Pushed([doc EXCEPT !.cards = @ \ {c}])
    /\ UNCHANGED <<stored, scope, readOnly, ledger, tasks, sheets, reviews, calls, proposed,
                   decided, seen, detours>>

Undo ==
    /\ past # <<>> /\ Counted
    /\ doc' = Last(past) /\ past' = Front(past)
    /\ UNCHANGED <<stored, scope, readOnly, ledger, tasks, sheets, reviews, calls, proposed,
                   decided, seen, detours>>

(* A save stamps the document and starts a new history. *)
Save ==
    /\ Counted /\ ~readOnly
    /\ doc' = [doc EXCEPT !.stamp = steps'] /\ past' = <<>>
    /\ stored' = [stored EXCEPT ![doc.id] = steps']
    /\ UNCHANGED <<scope, readOnly, ledger, tasks, sheets, reviews, calls, proposed, decided,
                   seen, detours>>

(* The reviews stay; the selection is that of the new document. *)
OpenDocument(d) ==
    /\ d # doc.id /\ Counted
    /\ doc' = FirstDocument(d) /\ past' = <<>>
    /\ scope' = [scope EXCEPT !.cards = {}]
    /\ UNCHANGED <<stored, readOnly, ledger, tasks, sheets, reviews, calls, proposed, decided,
                   seen, detours>>

SetReadOnly ==
    /\ Counted
    /\ readOnly' = ~readOnly
    /\ UNCHANGED <<doc, past, stored, scope, ledger, tasks, sheets, reviews, calls, proposed,
                   decided, seen, detours>>

-----------------------------------------------------------------------------
(* The task sheet.                                                         *)

(* Selecting cards and switching SafeMode leave the confirmation alone. *)
Select(S) ==
    /\ S # scope.cards /\ Counted
    /\ scope' = [scope EXCEPT !.cards = S]
    /\ UNCHANGED <<doc, past, stored, readOnly, ledger, tasks, sheets, reviews, calls, proposed,
                   decided, seen, detours>>

SetSafeMode ==
    /\ Counted
    /\ scope' = [scope EXCEPT !.safe = ~@]
    /\ UNCHANGED <<doc, past, stored, readOnly, ledger, tasks, sheets, reviews, calls, proposed,
                   decided, seen, detours>>

(* handleAgentTaskIncludeUnreviewedDraftsChange and its like. *)
SetDrafts ==
    /\ Counted
    /\ scope' = [scope EXCEPT !.drafts = ~@, !.confirmed = {}]
    /\ UNCHANGED <<doc, past, stored, readOnly, ledger, tasks, sheets, reviews, calls, proposed,
                   decided, seen, detours>>

Options == <<scope.cards, scope.safe, scope.drafts>>

ConfirmScope ==
    /\ Counted
    /\ scope' = [scope EXCEPT !.confirmed = IF @ = {} THEN {Options} ELSE {}]
    /\ UNCHANGED <<doc, past, stored, readOnly, ledger, tasks, sheets, reviews, calls, proposed,
                   decided, seen, detours>>

(* buildContextExcerpt: no text leaves in SafeMode, and drafts only when   *)
(* they are asked for.  Every card is a draft here.                        *)
Exposed(cards, safe, drafts) == IF safe \/ ~drafts THEN {} ELSE cards

(* buildAgentTaskSheet: the correlation block. *)
Correlation(task) ==
    [task |-> task, doc |-> doc.id, stamp |-> doc.stamp, cards |-> scope.cards \cap doc.cards,
     shown |-> Exposed(scope.cards \cap doc.cards, scope.safe, scope.drafts),
     asked |-> scope.confirmed]

(* The buttons of the export panel: any of them registers the task first. *)
ExportTask ==
    /\ scope.cards # {} /\ scope.confirmed # {}
    /\ Counted
    /\ calls' = calls \cup {[op |-> "export", task |-> Correlation(steps)]}
    /\ detours' = IF scope.confirmed = {Options} THEN detours
                  ELSE detours \cup {<<"unconfirmed", Key(steps, "none")>>}
    /\ UNCHANGED <<doc, past, stored, scope, readOnly, ledger, tasks, sheets, reviews, proposed,
                   decided, seen>>

(* register_external_task refuses a base that is not the stored copy. *)
RegisterTask(c) ==
    /\ c.op = "export"
    /\ c.task.stamp = stored[c.task.doc]
    /\ tasks' = tasks \cup {c.task}
    /\ calls' = (calls \ {c}) \cup {[c EXCEPT !.op = "registered"]}
    /\ UNCHANGED <<doc, past, stored, scope, readOnly, ledger, sheets, reviews, proposed,
                   decided, steps, seen, detours>>

(* recordAgentTaskExport; storage that is full leaves no entry. *)
Recorded(entries, e) ==
    LET all == Append(entries, e)
    IN  IF Len(all) > LedgerLimit THEN Tail(all) ELSE all

HandOut(c) ==
    /\ c.op = "registered"
    /\ sheets' = sheets \cup {c.task}
    /\ ledger' \in {ledger, Recorded(ledger, c.task)}
    /\ calls' = calls \ {c}
    /\ UNCHANGED <<doc, past, stored, scope, readOnly, tasks, reviews, proposed, decided, steps,
                   seen, detours>>

(* The registration fails, or the clipboard does after it. *)
ExportFails(c) ==
    /\ c.op \in {"export", "registered"}
    /\ calls' = calls \ {c}
    /\ UNCHANGED <<doc, past, stored, scope, readOnly, ledger, tasks, sheets, reviews, proposed,
                   decided, steps, seen, detours>>

-----------------------------------------------------------------------------
(* The response.                                                           *)

(* What the user may paste: a response to a sheet, with the correlation    *)
(* echoed, altered or left out.                                            *)
Echoes(sheet) == {[some |-> TRUE, of |-> sheet], [some |-> TRUE, of |-> [sheet EXCEPT !.cards = {}]],
                  [some |-> FALSE, of |-> sheet]}

(* verifyAgentResponseCorrelation *)
Correlates(echo) ==
    echo.some => /\ echo.of.doc = doc.id /\ echo.of.stamp = doc.stamp
                 /\ echo.of \in ToSet(ledger)

(* computeAgentProposalReviewFlags, when the response is parsed. *)
Orphaned(p) == KindOf[p] \in {"title", "merge"} /\ CardOf[p] \notin doc.cards

Mismatch(p, echo) == KindOf[p] = "patch" /\ echo.of.stamp # doc.stamp

Review(echo, p) ==
    [key |-> Key(echo.of.task, p), audited |-> echo.some, doc |-> doc.id,
     bundle |-> echo.of, status |-> "pending", orphaned |-> Orphaned(p), mismatch |-> Mismatch(p, echo)]

(* Mutant: a response that is parsed again is listed again. *)
AllProposals(echo) == Proposals

(* Proposals that are listed already are left out. *)
NewProposals(echo) == {p \in Proposals : Key(echo.of.task, p) \notin KeysOf(reviews)}

(* handleParseAgentResponse: strict mode refuses a missing correlation. *)
Parse(echo, strict) ==
    LET new == NewProposals(echo)
    IN  /\ strict => echo.some
        /\ Correlates(echo) /\ new # {}
        /\ Counted
        /\ calls' = calls \cup {[op |-> "parse", n |-> steps, echo |-> echo, left |-> new,
                                 docId |-> doc.id,
                                 list |-> SetToSeq({Review(echo, p) : p \in new})]}
        /\ detours' = IF \E c \in calls : c.op = "parse" THEN detours \cup {<<"parsed twice", NoKey>>}
                      ELSE detours
    /\ UNCHANGED <<doc, past, stored, scope, readOnly, ledger, tasks, sheets, reviews, proposed,
                   decided, seen>>

(* register_external_proposal: the task must be registered with the same   *)
(* block and the stored copy must still be its base.                       *)
RegisterProposal(c, p) ==
    /\ c.op = "parse" /\ p \in c.left /\ c.echo.some
    /\ c.echo.of.stamp = stored[c.docId]
    /\ c.echo.of \in tasks
    /\ proposed' = proposed \cup {[doc |-> c.docId, key |-> Key(c.echo.of.task, p)]}
    /\ calls' = (calls \ {c}) \cup {[c EXCEPT !.left = @ \ {p}]}
    /\ UNCHANGED <<doc, past, stored, scope, readOnly, ledger, tasks, sheets, reviews, decided,
                   steps, seen, detours>>

(* The elements of rs at the indices in at, in their order. *)
Picked(rs, at) ==
    LET upto[n \in 0..Len(rs)] ==
            IF n = 0 THEN <<>>
            ELSE IF n \in at THEN Append(upto[n - 1], rs[n]) ELSE upto[n - 1]
    IN  upto[Len(rs)]

Open(rs) == {i \in DOMAIN rs : rs[i].status = "pending"}

(* The most recent of those that are decided; slice(-0) keeps all of them. *)
Newest(rs) ==
    LET resolved == DOMAIN rs \ Open(rs)
    IN  {i \in resolved :
            ResolvedLimit = 0 \/ Cardinality({j \in resolved : j > i}) < ResolvedLimit}

(* boundResolvedAgentImportedProposalReviews *)
Bounded(rs) == Picked(rs, Open(rs)) \o Picked(rs, Newest(rs))

(* All proposals are registered, or there was nothing to register. *)
ParseDone(c) ==
    /\ c.op = "parse" /\ (c.echo.some => c.left = {})
    /\ reviews' = Bounded(reviews \o c.list)
    /\ seen' = seen \cup KeysOf(c.list)
    /\ detours' = detours \cup {<<"again", k>> : k \in KeysOf(c.list) \cap seen}
    /\ calls' = calls \ {c}
    /\ UNCHANGED <<doc, past, stored, scope, readOnly, ledger, tasks, sheets, proposed, decided,
                   steps>>

(* One failure drops all of them; some may be registered by then. *)
ParseFails(c) ==
    /\ c.op = "parse" /\ c.echo.some
    /\ calls' = calls \ {c}
    /\ UNCHANGED <<doc, past, stored, scope, readOnly, ledger, tasks, sheets, reviews, proposed,
                   decided, steps, seen, detours>>

-----------------------------------------------------------------------------
(* The decisions.                                                          *)

(* The first review of the key counts. *)
ReviewOf(k) == reviews[CHOOSE i \in DOMAIN reviews :
                          reviews[i].key = k /\ \A j \in 1..i - 1 : reviews[j].key # k]

Ask(k, decision) ==
    LET r == ReviewOf(k)
    IN  /\ r.status = "pending" /\ r.audited
        /\ decision = "adopt" => ~r.orphaned /\ ~r.mismatch
        /\ Counted
        /\ calls' = calls \cup {[op |-> decision, n |-> steps, key |-> k, doc |-> doc,
                                 readOnly |-> readOnly, review |-> r]}
        /\ detours' = detours \cup {<<"asked again", k>> : c \in {d \in calls : d.op = "adopt" /\ d.key = k}}
    /\ UNCHANGED <<doc, past, stored, scope, readOnly, ledger, tasks, sheets, reviews, proposed,
                   decided, seen>>

(* handleAdoptAgentImportedProposal, handleRejectAgentImportedProposal. *)
Adopt(k) == Ask(k, "adopt")
Reject(k) == Ask(k, "reject")

(* The server: a decision is final, the same one may be sent again. *)
Decided(c) == [doc |-> c.doc.id, key |-> c.key, as |-> c.op]

Agrees(c) ==
    /\ [doc |-> c.doc.id, key |-> c.key] \in proposed
    /\ \A e \in decided : e.doc = c.doc.id /\ e.key = c.key => e.as = c.op

(* lintPatchAgainstCurrentDoc *)
Applies(c) ==
    LET p == c.key[2]
    IN  CASE KindOf[p] = "patch" -> CardOf[p] \in c.doc.cards
          [] OTHER -> TRUE

(* The document the proposal is worked into is the one of the call. *)
Worked(c) == [c.doc EXCEPT !.work = Append(@, c.key)]

Touches(c) == KindOf[c.key[2]] # "merge" /\ ~c.readOnly

Marked(status, k) == [i \in DOMAIN reviews |->
                        IF reviews[i].key = k THEN [reviews[i] EXCEPT !.status = status] ELSE reviews[i]]

AdoptDone(c) ==
    /\ c.op = "adopt" /\ Agrees(c)
    /\ decided' = decided \cup {Decided(c)}
    /\ IF Applies(c)
       THEN /\ IF Touches(c) THEN Pushed(Worked(c)) ELSE UNCHANGED <<doc, past>>
            /\ reviews' = Marked("adopted", c.key)
            /\ detours' = detours \cup {<<"stale", c.key>> : x \in {y \in {1} : Touches(c) /\ c.doc # doc}}
                                  \cup {<<"not applied", c.key>> : x \in {y \in {1} : c.readOnly}}
       ELSE /\ UNCHANGED <<doc, past, reviews>>
            /\ detours' = detours \cup {<<"stuck", c.key>>}
    /\ calls' = calls \ {c}
    /\ UNCHANGED <<stored, scope, readOnly, ledger, tasks, sheets, proposed, steps, seen>>

RejectDone(c) ==
    /\ c.op = "reject" /\ Agrees(c)
    /\ decided' = decided \cup {Decided(c)}
    /\ reviews' = Marked("rejected", c.key)
    /\ calls' = calls \ {c}
    /\ UNCHANGED <<doc, past, stored, scope, readOnly, ledger, tasks, sheets, proposed, steps,
                   seen, detours>>

(* The server refuses, or its answer is lost after it has decided. *)
DecisionFails(c) ==
    /\ c.op \in {"adopt", "reject"}
    /\ \/ UNCHANGED <<decided, detours>>
       \/ /\ Agrees(c)
          /\ decided' = decided \cup {Decided(c)}
          /\ detours' = detours \cup {<<"stuck", c.key>>}
    /\ calls' = calls \ {c}
    /\ UNCHANGED <<doc, past, stored, scope, readOnly, ledger, tasks, sheets, reviews, proposed,
                   steps, seen>>

-----------------------------------------------------------------------------
Next ==
    \/ Edit \/ Undo \/ Save \/ SetReadOnly \/ SetSafeMode \/ SetDrafts \/ ConfirmScope \/ ExportTask
    \/ \E d \in DocIds : OpenDocument(d)
    \/ \E S \in SUBSET Cards : Select(S)
    \/ \E sheet \in sheets, strict \in BOOLEAN : \E echo \in Echoes(sheet) : Parse(echo, strict)
    \/ \E k \in KeysOf(reviews) : Adopt(k) \/ Reject(k)
    \/ \E c \in calls :
           \/ RegisterTask(c) \/ HandOut(c) \/ ExportFails(c) \/ ParseDone(c) \/ ParseFails(c)
           \/ AdoptDone(c) \/ RejectDone(c) \/ DecisionFails(c)
           \/ \E p \in Proposals : RegisterProposal(c, p)

Spec == Init /\ [][Next]_agentVars

-----------------------------------------------------------------------------
TypeOK ==
    /\ doc.id \in DocIds /\ doc.cards \subseteq Cards
    /\ ledger \in Seq(sheets) /\ Len(ledger) <= LedgerLimit
    /\ \A i \in DOMAIN reviews : reviews[i].status \in Statuses
    /\ steps \in 0..MaxSteps

(* What the panel calls adopted or rejected was decided so at the server,  *)
(* for the document the proposal was registered for, and never both ways.  *)
DecidedAsShown ==
    \A i \in DOMAIN reviews :
        LET r == reviews[i]
            decisions == {e.as : e \in {f \in decided : f.key = r.key}}
        IN  /\ r.status = "adopted" => decisions = {"adopt"}
            /\ r.status = "rejected" => decisions = {"reject"}

(* A proposal that is still open is open at the server too, unless an      *)
(* answer was lost, the decision could not be applied, or the response was *)
(* parsed again after its review had been dropped.                         *)
PendingIsOpen ==
    \A i \in DOMAIN reviews :
        (reviews[i].status = "pending" /\ \E e \in decided : e.key = reviews[i].key)
        => \E why \in {"stuck", "again"} : <<why, reviews[i].key>> \in detours

(* However many responses are parsed, nothing that is open is dropped from *)
(* the list, and no proposal is listed twice but by parsing at once.       *)
OpenWorkKept ==
    /\ \A k \in seen \ KeysOf(reviews) : \E e \in decided : e.key = k
    /\ <<"parsed twice", NoKey>> \in detours \/ Cardinality(KeysOf(reviews)) = Len(reviews)

(* A proposal is worked into a document at most once, unless it was        *)
(* adopted twice at once or after its review had been dropped.             *)
WorkedInOnce ==
    \A i, j \in DOMAIN doc.work :
        (i # j /\ doc.work[i] = doc.work[j] /\ doc.work[i] # NoKey)
        => \E why \in {"asked again", "again", "stuck"} : <<why, doc.work[i]>> \in detours

(* What can be adopted answers a sheet this browser handed out from this   *)
(* document, which the server knows.                                       *)
Accountable ==
    \A i \in DOMAIN reviews :
        reviews[i].audited => /\ reviews[i].bundle \in sheets \cap tasks
                              /\ reviews[i].bundle.doc = reviews[i].doc

(* A sheet shows only what was confirmed, unless the selection or SafeMode *)
(* was changed after the confirmation.                                     *)
ShownAsConfirmed ==
    \A s \in sheets : \A option \in s.asked :
        \/ s.shown \subseteq Exposed(option[1], option[2], option[3])
        \/ <<"unconfirmed", Key(s.task, "none")>> \in detours

AgentInvariant ==
    /\ DecidedAsShown /\ PendingIsOpen /\ OpenWorkKept /\ WorkedInOnce /\ Accountable
    /\ ShownAsConfirmed
=============================================================================
