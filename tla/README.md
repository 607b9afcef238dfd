# Verification of SUI Sensemaking

TLA+ specifications of the parts of SUI Sensemaking (a canvas tool for the KJ
method) whose correctness depends on the order in which things happen: the document
store with its revision history and garbage collection, the audit paths, inquiry
bundles and their panel, decisions on AI proposals, tenant sessions, computation
workers, and the state the browser application keeps about the open document. TLC
checks the specifications on small instances; TLAPS proves the central invariants of fifteen
modules for every instance. Paths are relative to
`03_Implement/backend/src/sui_sensemaking_api/` (backend) and
`03_Implement/frontend/src/` (frontend); `PROJECT.json` maps every definition to the
lines it models and lists components, runs, hazards, findings and theorems.

## 1. The system

The backend is a FastAPI application. Its routes are synchronous functions, so the
framework runs each request in a thread of a pool; a request has one SQLAlchemy
session (`autoflush=False`) and normally one transaction, ended by `commit()` or
rolled back. The database is PostgreSQL, SQLite, MySQL/MariaDB or others
(`02_Architecture/database_portability.md`): where statements of one transaction may
see different commits, the order of the SELECTs matters. Besides the database there
is process state shared by the threads (audit dispatcher, CE4 tracker, rate limiter).

The frontend is a React application. `App.tsx` keeps the open document, its history
and its marks in component state; handlers await the server, a worker, a file or the
browser's database and then write results computed from what they had captured. That
is where most of its hazards are: a late answer meets another document, another
selection or another session.

| Part | State | Operations | What is hard |
|---|---|---|---|
| Document store (`routes/docs.py`, `database_content_store.py`) | `documents` row (text, lifecycle), `main` head, revisions | GET, PUT with `If-Match`, archive, unarchive | two copies of one fact read by separate statements; gates tested before the write; legacy rows without head |
| Generation store and GC (`generation_repository.py`) | revisions, parent edges, pins, blobs, external objects, deletion audit | save, pin, list and delete ephemeral revisions, sweep blobs, prune by reachability | conditions evaluated before a lock is granted; object deleted before the commit that says so; order of a worklist |
| Audit dispatcher (`audit.py`) | bounded queue, pending keys, recently emitted keys | emit, flush, enqueue | no lock; failures in the middle of a flush; retries |
| CE4 context audit (`routes/docs.py`) | events per bundle, eviction counter | record, validate an apply, evict, hand over | eviction while recording; events overtaking one another |
| Inquiry bundle API (`routes/inquiry_bundles.py`) | one row per journey with a revision; deletion audit | create, conditional update and delete, read | check and change in different statements |
| Inquiry panel (`ui/InquiryJourneyPrototypePanel.tsx`, `domain/inquiry_*.ts`) | bundle, last revision seen, journey | start, record, branch, hand over, import, save, load, share, end | lost answers, refused loads, a revision that outlives its journey, results made for another document |
| AI proposal decisions (`proposal_decision_repository.py`, `routes/ai.py`) | proposal, state row with version, decision events | register, decide, resend, system hold | a missing row cannot be locked; idempotency key against state version; one retry |
| Exchange with an outside agent (`App.tsx`, `import/agent_response_import.ts`) | sheets, ledger, reviews | export, paste, review, adopt, reject | the document, selection and server move on between the steps |
| Tenant sessions (`active_tenant_session.py`, `routes/session.py`, frontend `session/`) | session row with version and tenant; pages | resolve, rotate, revoke; switch, broadcast, clean up | tenant and version read apart; several pages; lost broadcasts |
| Frontend workers (`worker/*_client.ts`) | pending requests by id, busy marks | request, abort, fall back, dispose | late or missing answers, crashes, a cancel flag shared by all requests of a client |
| Open document (`App.tsx`) | document, history, ETag, marks | load, save, archive, recover, adopt, undo | an answer for a document that is no longer open, edits made while saving |
| Canvas and view (`App.tsx`, `canvas/`) | cards, islands, links, shelf, selection; collapse, focus, filters, modes | edit, drag, undo; collapse, focus, presets | drags outside the history; view state and document state say the same thing twice; effects that correct one another |
| Review flags, suggestions, cues (`App.tsx`, `domain/`) | review marks, merge decisions, pictures | mark, restore, model calls, decide, apply; draw, adopt, sweep | model answers that meet an edited text; undo that does not touch decisions; two tabs on one picture store |
| Merging, patches, checks (`diff/`, `domain/`) | comparison, patch, traces, reports | select, apply, undo; trace, diagnose | partial application that breaks references; truncation; reports of an earlier document |

Not modelled: see section 7.

Interactions. `put_document` calls the content store, which saves blobs and revisions
through `generation_repository`; GC and pruning work on the same tables from other
transactions. `post_context_audit` records in the tracker under a lock and then emits
to the dispatcher without it. The panel calls the bundle API through `api/client.ts`
and carries the ETag it was last given. `final_judgement` puts a linked proposal on
hold when the provider fails. Every tenant-scoped call of the frontend carries the
session version its page was mounted with.

## 2. Modules

| Module | Models | Proved in |
|---|---|---|
| `DocumentStore` | one document under concurrent requests, one action per SQL statement group; `Isolation` is a constant | `DocumentStoreProofs` |
| `DocumentRegister` | abstract: what the document API promises, a register with conditional writes | refined by `DocumentStore` |
| `GenerationGC` | revision and blob collection against saves, pins and crashes, READ COMMITTED with foreign keys | `GenerationGCProofs` |
| `RetentionPrune` | `prune_ephemeral_history_by_reachability`; reference definition `Fewest` | `RetentionProofs` |
| `AuditDispatcher` | class `AuditDispatcher`, threads interleaving at every send | `RecordsProofs` |
| `Ce4AuditTracker`, `Ce4AuditTrail` | recording, eviction, completeness check; the hand-over to the dispatcher | `RetentionProofs` |
| `InquiryBundles` | the bundle API for clients that send anything | `RecordsProofs` |
| `InquiryPanel` | panels composed with the bundle API; implements the `Spec` of `InquiryBundles` | `RecordsProofs` |
| `InquiryJourney` | rounds, branches, hand-overs, files and shares of a journey | `RecordsProofs` |
| `ProposalDecisions` | decisions, resends, system holds, with and without row locks | `ProposalDecisionsProofs` |
| `AgentExchange` | task sheets, responses, reviews and decisions | `RecordsProofs` |
| `TenantSession` | pages of one login and their session row | `WorkspaceProofs` |
| `WorkerClients` | clients, workers, panels; crash, fallback, abort | `FrontendProofs` |
| `EditorSession` | the open document: loads, saves, archive, recovery, undo | `EditorSessionProofs` |
| `CanvasEditor` | cards, islands, edges, links, shelf, drags, undo | `FrontendProofs` |
| `CanvasView` | collapse, focus, presets, modes; handlers with their effects | `DocumentStoreProofs` |
| `ReviewTrust`, `MergeSuggestions`, `CueAssets` | review flags; merge suggestions; pictures of islands | `EditorSessionProofs` |
| `DocumentMerge` | comparison and patch files applied to the open document | `WorkspaceProofs` |
| `DocumentChecks` | traces along evidence links and structure metrics, with reference definitions | |
| `WorkspaceReports` | relations of islands, diagnostics, voids, reading outline, and when reports are shown | `ProposalDecisionsProofs` |

Components that share no variable are explored by one run, each on its own: a variable
`explored` fixes, from the initial state on, the component whose actions are taken, so
nothing is lost and their states do not multiply. `MCSnapshot` joins `DocumentStore` and
`CanvasView`; `MCGenerationGC` joins `GenerationGC` and `DocumentChecks`; `MCRecords`
joins `InquiryBundles`, `AuditDispatcher` and `AgentExchange`; `MCRetention` joins
`Ce4AuditTrail` and `RetentionPrune`; `MCInquiryPanel` joins `InquiryPanel` and
`InquiryJourney`; `MCWorkspace` joins `TenantSession` and `DocumentMerge`; `MCEditor`
joins `EditorSession`, `ReviewTrust`, `MergeSuggestions` and `CueAssets`;
`MCProposalDecisions` joins `ProposalDecisions` and `WorkspaceReports`. The other `MC`
modules hold model values and symmetry only.

### Server
*DocumentStore.* A request is a transaction with a program counter. Its actions follow
`put_document` and `DatabaseDocumentContentStore.save`: `LoadRow` (first SELECT),
`LoadHead` (head SELECT, projection check, archived and `If-Match` gates), `ReloadRow`
and `ReloadHead` (the store loads again), `GetHead` (the head the revision is based
on), `InsertRow`, `InsertHead`, `FlushRow` (locks), `CommitPut` or `HeadConflict`. The
ORM identity map keeps the row attributes first read while the head is read afresh;
hence `row` and `head` per request. Texts are what ETags tell apart, `Canon` maps a
text to what digests tell apart. `Visible` is external: what a SELECT returns at the
isolation level.

*GenerationGC, RetentionPrune.* A save selects a blob, inserts blob, revision and edge,
and commits with the head CAS. A DELETE evaluates its `NOT EXISTS` conditions
(`SelectRevision`), waits for locks and is still subject to the foreign keys
(`DeleteRevision`). The blob sweep selects, locks, deletes the external object and
finishes or crashes. Pruning starts from every acyclic history, marks with a worklist
popped in any order, cuts boundary edges and deletes children first.

*AuditDispatcher, Ce4AuditTracker, Ce4AuditTrail.* `Emit` makes the three-way decision
of `emit()`; `TakePending` and `ClearQueue` are `list(queue)` and `queue.clear()`;
`SendQueued`, `Send` and `Record` succeed or fail as the external transport does. The
tracker is one atomic action since the code holds a lock; `Evict` is the amortised
sweep, `LongPause` and `Restart` are time and the reset. The trail adds the hand-over
after the lock and the suppression by `DedupKey`.

*InquiryBundles, ProposalDecisions.* A request reads and changes in separate
statements (`Read`, then `Insert`, `UpdateCas`, `DeleteCas`; `ReadKey`, `ReadState`,
`Commit` under unique keys and the version condition, `RetryOrConflict`). A payload is a
number, so that "which write is this" can be asked.

### Browser
*InquiryPanel* restricts requests to what the panel's handlers send and adds the
bundle, `backendEtagRef` and `detours`, the three things after which the guarantee of the
code's comment no longer holds. *TenantSession* takes a request in three server steps
(resolve the tenant, read the version in a second transaction, run), a switch as a
compare and swap, and broadcasts that may be lost. *WorkerClients* has one listener per
request, one cancel flag per client, and lanes for the panels. *EditorSession* keeps a
document as its id and the set of edits in it, so that "an edit was lost" is a
statement about sets; an ETag names a revision of one document. *CanvasEditor* has one
action per handler and a drag of three (start, moves that change the document, a
release that pushes one snapshot). In *CanvasView* an action is a handler followed by
the effects it triggers, run four times: that nothing changes after that is `ComesToRest`,
proved. *ReviewTrust*, *MergeSuggestions*,
*AgentExchange* and *InquiryJourney* keep call and answer apart: the answer is computed
from what the handler captured. *WorkspaceReports* marks stored voids, a run at work and a
report on show with what happened since (`Since`), so that "it was overtaken" is a statement
about state; only another document or option clears a report. The history variables
`detours`, `vouched`, `drift` and the like record what the properties name as exceptions; no
guard but a bound reads them.

## 3. Runs

Twelve runs: eleven pass, one shows a disagreement between code and documentation.

| Run | Checks | Instance |
|---|---|---|
| `docs_read_committed` | `HistoryLinear`, `AcknowledgedSaveKept`, `EveryRequestAnswered` | 2 requests, 3 texts, per-statement reads |
| `docs_snapshot` | `ProjectionMatchesHead`, `DivergenceIsReal`, `ImplementsRegister`; `ViewInvariant` | 3 requests, 3 texts, snapshot reads; islands o around m around i, a second document, 3 operations |
| `docs_lost_update` | violates `NoLostUpdate` | 2 requests, per-statement reads |
| `gc` | `HistoryIntact`, `AuditTellsTheTruth`, `DurableKept`; `ChecksInvariant` | 3 revisions, 3 blobs (a delta, an external one), 1 saver; all link sets of up to 4 links on 4 cards |
| `records` | `RevisionsNameWrites`, `DeletionsAudited`; `DispatcherInvariant`; `AgentInvariant` | 3 clients of 2 owners, 3 payloads; 2 threads, 2 keys, queue of 2, 4 events; 2 documents, 2 proposals, one decided review kept, 4 user steps |
| `retention` | `ApplyComplete`, `RecordedIsAudited`; `PruneInvariant` | 2 keys, 2 sources, 5 events, cap 1; all acyclic histories of 4 revisions |
| `panel` | `NoStaleOverwrite`, `ImplementsServer`; `JourneyInvariant` | 2 panels, 2 journeys, 3 payloads, one detour; 2 documents, 2 cards, 2 rounds, 4 steps |
| `proposals` | `EventsExplainState`, `ReceiptIsReal`, `EveryRequestAnswered`; `ReportsInvariant` | 3 requests, 1 proposal, 2 keys, row locks on and off; 3 cards, 2 islands, 5 edges to draw and 2 at a time; any membership with one edit, one structure with two |
| `workers` | `BusyTruthful`, `AbortedNotShown`, `SettledUnlessLost` | 3 requests, 2 workers |
| `workspace` | `SessionInvariant`, `OneSwitchPerVersion`; `LocalWorkKept`, `ReferencesKept` | 2 pages, 2 tenants, 3 versions; 3 comparison files, 1 edit |
| `editor` | `SessionInvariant`, `NoBlindOverwrite`, `WorkSurvives`; `ReviewInvariant`; `SuggestionsFollowDecisions`; `CueInvariant` | 2 documents, 2 edits, 2 revisions, 2 loads; 2 islands, 2 model calls; 3 cards, 2 groups; 2 tabs, 1 picture |
| `canvas` | `CanvasInvariant`, `DragOnlyMoves` | 2 cards and a new one, an island in an island, 2 places, 2 edits |

Why the bounds are enough. Races on the server are between two transactions; a third
participant is there to win, commit or delete in between. Three texts are a base and two
competing changes. Four revisions give a diamond with a root, the smallest graph on which
the worklist can reach a revision first on the longer path. Three payloads are a
creation, a conflicting save and a save after the conflict; five CE4 events are a whole
sequence with a second proposal; a cap of 1 with a sweep at each event evicts at every
opportunity. Three session versions are the first and two switches, so that a page can
be two versions behind. Two loads, two edits and two revisions let a load or a save be
overtaken by an edit, by another load and by another user. Three requests to workers
are one on show, one that is aborted and its successor; the second worker replaces a
crashed one. Three nested islands and a strange one are what collapse, nested expansion
and focus tell apart. `MaxWrites`, `MaxEvents`, `MaxInFlight`, `MaxDetours`, `MaxSteps`,
`MaxEdits`, `MaxRevs`, `MaxLoads`, `MaxTurns`, `MaxCalls`, `MaxChanges`, `MaxRequests`,
`MaxWorkers`, `MaxVersion`, `MaxHistories`, `MaxActions`, `MaxLinks`, `MaxMixed` and
`MaxRelations` bound what is counted or enumerated; they are guards of the actions that
count, or bound the initial states. `HistoryLimit`, `TrailLimit`, `AttemptLimit`,
`LedgerLimit`, `ResolvedLimit`, `EventLimit`, `MaxEntries`, `EvictEvery`, `QueueSize` and
`KeepPerRoot` are limits of the program, set low so that they are reached. Symmetry sets
permute requests, clients, revisions, tabs and the like, never in a run with liveness.

Deadlock is checked in the `docs_*`, `retention` and `proposals` runs, where it also says
that requests never wait for one another in a circle. Elsewhere the program may really
stop: a collector that finds nothing to collect, an editor whose budget of edits and
loads is spent.

Fairness. `EveryRequestAnswered` is checked under weak fairness of each request's own
step: a pool thread keeps executing the request it has taken, and the database grants a
lock once it is free. No request need arrive. Weak fairness suffices, since a request
waiting for a row is not overtaken for ever by finitely many others.
`SettledUnlessLost` is checked under weak fairness of `WorkerSteps` and `FallbackSteps`:
a browser runs its workers and delivers their messages, and idle callbacks carry a
timeout; crashes, aborts and new requests are not fair.

## 4. What is proved

Every theorem holds for any values of the constants that satisfy the named assumptions,
which TLC evaluates in every run: `RequestAssumption`, `IsolationAssumption` and their like
say that sentinels are not values and bounds are numbers; `BaseAssumption` and
`TargetAssumption` that the delta relation and a worker's target are functions on their
sets; `RevsAssumption` that revisions are finitely many and numbered as they were saved;
`LedgerAssumption` that the ledger holds an entry; `ReviewAssumption`,
`SuggestionsAssumption` and `CueAssumption` that limits are numbers and sentinels no card,
picture or document. `AgentHolds` is about the two proposals
`MCRecords` gives a response. Two theorems about `DocumentStore` assume more and say so in
their statement:
`SnapshotReads` (the isolation level is the snapshot one) and `Injective` (no two texts
share a canonical value). Without them the properties are false (section 5).

Five assumptions describe the data a module works on. `CanvasAssumption`: cards and islands
have different ids, no sentinel is one of them, there are finitely many islands (the code
climbs from an island to its parents) and a place to put a card. `MergeAssumption`: the ends
of edges are cards or islands and those of evidence links cards, the sentinels for an absent
item and for a member list merged from both sides are told apart from contents, and the
documents compared are well formed, which is what the import validates. `ReportsAssumption`:
cards and islands are finitely many and have different ids. `JourneyAssumption`:
there is a document, a text and a stage, the text of an absent card is no text, and times
are numbers with a latest one. `ViewAssumption`: islands are finitely many, the chain around an
island continues as that of the next one does (so no island lies in itself), and a view
metadata file was written by the application, whose export takes level and depth from one
state.

| Module | Theorems | Inductive invariant and why it is needed |
|---|---|---|
| `DocumentStoreProofs` | `TypeCorrect`, `HistoryStaysLinear`, `AcknowledgedSavesStay`, `ProjectionStaysInStep`, `NoFalseDivergence`, `RegisterImplemented`; `ViewHolds`, `ViewStays` | `IInv`: that a save extends the chain at its end depends on the head the session read, so `HeadsOK` (every head held is one the history went through), `RootOK` (a writer that found no head holds the head's key) and `ReqOK` (what a request past a statement has read) are added. `KeptInv` keeps the positions of acknowledged saves; `SnapshotInv` adds that what a session has read is its snapshot and that nothing in that diverges. With it every step maps to a step of `DocumentRegister` or to a stutter. `ViewInv`: the fields of the view have the form the handlers give them (`Shape`), effects leave it alone (`AtRest`), kept and stored documents are well formed, and the view collapses what the document says and beyond that only what lies inside (`InStep`); the last two are what `CollapseInStep` leaves open. That effects come to rest is an argument by rounds: after the first the mode has its way and the depth is clamped (`FirstRound`), after the second the mode's preset changes nothing any more (`SecondRound`), after that only focus and selection may go, and a focus that goes widens what is shown, so that the last round finds nothing to do (`Settled`) |
| `GenerationGCProofs` | `GCTypes`, `HistoryStaysWhole`, `AuditIsTrue`, `DurableRevisionsStay` | `GInv`: `SavesApart` (a save under way has an id no revision bears), `KeysHeld` (what an inserted row references is not deleted before its commit), `SweepApart` (a sweep that holds the lock of a blob shares it with no inserted row, and an outcome other than failure means the object is gone), `SelectedEphemeral` (the row a DELETE selected is still there and ephemeral) |
| `RecordsProofs` | `TypeCorrect`, `BundleChain`, `EveryDeletionAudited`, `ETagIsOfPayload`, `RevisionsHold`; `PanelTypeCorrect`, `ServerImplemented`, `NothingOverwrittenUnseen`, `UpdatesNameTheirJourney`; `DispatcherHolds`; `AgentHolds`; `JourneyHolds` | `IInv`: `LogBounded` says that no accepted payload lies beyond the row's life and revision, so the revision an update writes is free. `PanelInv`: the revision a panel holds was given for an accepted payload, and a payload is at least as many writes old as its revision says, since a panel names a revision only after it has seen it. `DInv`: while emits have not overlapped, an undelivered event is in one place only, in the queue, in a flush or in its sender's hands; a suppressed one is nowhere. `AgentInv`: a task number is given once and a proposal belongs to one task, hence to one document, so that the server decides a key once (`TasksApart`, `DecidedOnce`); a response under way lists keys that are not listed yet, unless two were parsed at once (`Single`, `ReviewsAnswer`); a review that left the list was decided (`Dropped`), since the limit only drops decided ones (`BoundedKeeps`); the open document, its history and the documents held by calls contain decided work only (`WorkFounded`). `JourneyInv`: the bundle on screen, its checkpoint, the results calls will bring and the files kept are each good (`Good`, `FileGood`): ids are those given so far, or those of the strange file, which lie apart; rounds are numbered from their parents; and every card of a snapshot is an input or was recorded by an ancestor. They belong to the open document while nothing strayed. `Ancestors` is the least closed set, reached in as many generations as there are rounds; in an acyclic journey with one leaf everything led to that leaf (`OneLeaf`), so the round recorded next sees all of it (`RecordedGood`); a projection keeps the lineage because a retired edge has no target (`PartTold`) |
| `RetentionProofs` | `AcceptedApplyIsComplete`, `RecordedReachesSink`, `TrailAppliesComplete`; `PruneHolds` | `TrackerIsMemory`: the tracker remembers less than what happened, never something else, and the source of an entry is that of the newest proposal. `NothingSlips`: what was recorded is delivered or on its way, and only what was delivered suppresses anything. `PInv`: `MarkingCloses` and `CountsPaths` (a count that improved and lies within the limit has been passed on or waits, and every count is that of a path), `SweepSafe` (a candidate is reached only from candidates, ids follow the order of saving, so the last candidate is always ready). That the counts are those of the recursive `Fewest` is a well-founded induction on rows: `FewestRows`, `RowsSettle`, `LastRowIsLowerBound` |
| `ProposalDecisionsProofs` | `DecisionTypes`, `NoDecisionLost`, `ReceiptsAreReal`, `TerminalStands`; `ReportsTyped`, `RelationsHold`, `OutlineHolds`, `ReportsStayCurrent`, `ReportsHold` | `Explained`: a row's version counts its events and holds, and a terminal status has exactly one terminal event. `RequestOK`, `ReadOnce`: what a request has read is the row or an older version of it, and a receipt names the one event with its key. `ReportsInv`: a run at work tells as much truth as what is shown (`Told`), since its answer is put on show as it is. That every card has one place in the outline is an argument about places: a finite set of numbers has an ascending order (`InOrderIs`), list after list takes the places behind those before it (`JoinedIs`), and an island's cards stand behind its heading with no other heading between (`IslandPlace`) |
| `WorkspaceProofs` | `SessionTypes`, `OnePageSwitches`, `PreconditionHolds`, `ShownBelongs`, `SwitchingEnds`, `SessionHolds`; `LocalWorkHolds`, `ReferencesHold` | `TInv`: `RowNewest` (the row holds the newest version and its tenant), `AllKnow` (what each page, its request, its switch and its content know of versions and tenants), so the compare and swap that wins from a version was the only one. `MergeInv` only says that documents and patches have the form the code gives them; the rest is about one step. The folds over operations are unfolded by smallest counterexample: what a patch puts at an id is what its last applied operation on it says, the cascade removes an edge or link only with one of its ends, and lint has seen every reference the document will have, so that a fix it proposes names a card that will be there |
| `FrontendProofs` | `BusyMarksTrue`, `AbortedStayHidden`; `CanvasHolds`, `DragsOnlyMove` | `WInv`: `LanesKept` and `WaitingIsCurrent` (a request that waits is current in its lane, or was superseded, hence aborted), `AbortsNoted` (aborting settles what waits for a worker and leaves the cancel flag raised for the main thread). `CanvasInv`: the open document and every document of the history is whole (`PagesWhole`): members, ends, parents, the order and the shelf name what was there, and no island lies in itself; a drag's starting document differs from the present one in places only (`DragOK`); what a handler reads from the selection existed once (`Chosen`). That no nesting closes a circle is an argument about the climb to the parents, by the least number of steps that reaches an island |
| `EditorSessionProofs` | `EditorHolds`, `SessionHolds`, `SavesReplaceWhatWasSeen`, `WorkSurvivesHolds`; `CuesHold`; `ReviewHolds`; `SuggestionsHold` | `EInv`, eleven parts: what loads under way found was issued by the server (`LoadsOK`); the loading mark stands for the newest load (`LoadingOK`); an acknowledged save is the revision its new ETag names, and one sent without ETag is of a document the server does not have (`SaveOK`); a document from the server has its ETag, and a new one has none until its first save is answered (`OriginOK`); the history is no longer than edits and merges (`HistoryOK`). `CInv`: a picture in an editor's hands belongs to that editor alone and is named nowhere yet (`InHand`, `NewInHand`), no pending sweep dooms a named picture unless it is exposed (`KeptUnlessExposed`), a record of a shown document is named, doomed or in hand (`SweptUnlessNamed`). `RInv`: the documents calls have captured are as sound as those of the history, an adoption in a trail stays an adoption, and one layout call at a time is within the stopper. `MInv`: decisions of a document are ordered by their numbers, so that an application changes one entry; two neighbours in the history differ by one step (`PastLeads`, `FutureLeads`), so that redo brings back a representative only as it was created; the audit events are the newest numbers in order (`EventsOK`) |

`InquiryPanel`'s `RevisionOfThisJourney` and `ProposalDecisions`' `TerminalKept` are proved and
not part of a run. The lemmas follow one layout: what `Init` gives, one lemma per group of
actions, one step per conjunct an action disturbs, and PTL last.

Only model-checked: `ChecksInvariant`, and the liveness properties `EveryRequestAnswered`
and `SettledUnlessLost`. Liveness and ENABLED are outside the prover. `ChecksInvariant`
compares the traces, recursive walks themselves, with reference definitions that are
RECURSIVE operators, for which the prover has no SMT backend.

Induction over data in general needs the induction theorems of the library, which take an
operator that no prover instantiates. Where the proofs need it they take the least element of
a set of numbers (`LeastNumber`) and refute the smallest counterexample, one proof for each
fact; the models write what is proved about that way as recursive functions or folds:
the worklist of pruning, the filter of the review list (`Picked`), the climb of an island to
its parents, the application of a patch, the ancestors of a round.

## 5. Findings

`docs_lost_update` (details and quotations in `PROJECT.json`): ADR-0070 says a change
after the `If-Match` comparison is caught by the head CAS. The CAS is based on a head read
after the comparison, so with per-statement reads a save that commits just before that
read is overwritten with 200.

Disagreements met while modelling that have no run of their own. The property named is
defined in the module, and TLC finds it violated when it is checked:

- `ProjectionMatchesHead` under per-statement reads or non-canonical texts:
  `_materialize_revision` returns before `advance_revision_head` when the digest equals
  that of the head read; a text that differs in key order only is then written over a
  document whose head has moved, and later reads answer 503.
- `LostOnlyByOverflow` (`AuditDispatcher`): `_flush_queue` (`audit.py:380-401`) clears the
  queue first and stops at the first failure, putting back only the event that failed; the
  rest of the batch is lost even with one thread and room in the queue.
- `ServedAsMounted` (`TenantSession`): ADR-0061, gate 1 (line 56) wants row and version read
  together; `trusted_auth_edge.py:572` and `active_tenant_session.py:114` read them apart.
  `BlockedUntilReload`: ADR-0061:22 says a blocked page stays blocked; `App.tsx:3030` sets it
  back to idle when the save it waited for is refused.
- `ReadOnlyHasNoHistory` (`EditorSession`): a read-only session keeps its history
  (`App.tsx:6945-6947`).
- Comments that promise more than the code does: `inquiry_bundle_projection.ts:39-45` against
  :88 (the round-scoped projection includes retired edges of a sibling branch);
  `App.tsx:9318-9320` (changing selection or SafeMode does not reset
  `agentTaskScopeConfirmed`); `context_bundle_projection.ts:26-31` (the card ids of voids are
  not filtered, ~221-227); `issue-DOMAIN-EXPR-02…:65` (shelf names) and
  `issue-DOMAIN-VISUAL-CUE-01…:95` (cue pictures).

## 6. Limits of what holds

Properties that pass are stated with the exceptions the code has; these are part of the
models, each at the line given in the module.

- *Documents.* A PUT that passed the archived gate changes a document archived in between
  (`routes/docs.py:724`). With per-statement reads a GET or PUT racing a save can answer 503
  for a document that has not diverged.
- *Generations.* A pin committed between the evaluation of a revision DELETE and its row
  lock cascades away (`generation_repository.py:238`); a revision committed between the blob
  sweep's evaluation and its lock leaves its blob in state `deleting` (`:353`). References stay
  intact; the first is not the "fail closed" of ADR-0070, decision 16.
- *Audit.* Two threads with one key both send when neither has recorded it, and two
  flushers can take one list. The CE4 sweep may evict the entry in use; the apply that
  follows is answered `missing_event`, never accepted wrongly. `DedupKey` leaves out the
  source hash.
- *Bundles and panel.* Two concurrent creations both find no row; the second is answered
  500. `NoStaleOverwrite` ends with a refused load (the revision is stored before the payload
  is parsed), with reuse (`backendEtagRef` is not reset) and with a deletion (a new journey
  restarts at revision 1). In the journey, late digests put a result on screen that was made
  for an earlier bundle or document (`strayed` names each case).
- *Proposals and agents.* A resend that looked up its key before the original committed is
  answered 409 instead of the receipt. An adoption is worked into the document captured at
  the call (`App.tsx:9526-9600`), a decision whose application fails stays open on screen,
  and a response parsed twice at once is listed twice.
- *Workers.* The runner of traces and diagnostics forgets a cancellation when the next
  request clears the shared flag; the busy mark of a comparison is cleared by the handlers
  of an aborted one (`App.tsx:1745`).
- *Open document.* A save's answer discards edits made while it was under way; a recovered
  document keeps the ETag of the one before; a late load destroys recovered work;
  imported, sample and recovered documents are saved without `If-Match`, and the PUT after
  a 404 is unconditional.
- *Canvas and view.* Shelf entries survive their card (`App.tsx:9186`); undo leaves the
  selection dangling; edges of deleted islands dangle (5238); an edit or undo in the middle
  of a drag loses the position before it (2747, 2840). The mode effect puts the preset of the
  mode back whenever one of the things it watches changes (10891); undo, redo and reload
  restore the collapse flags of the document but not of the view (6850); expanding an island
  leaves nested ones collapsed in the view only; presets or files with unknown island ids
  make collapse switches refused (`collapse_visibility.ts:100`); a metadata file read for one
  document is applied to the next (4231); a file whose level disagrees with its depth,
  which the application does not write, is taken as it is (3873).
- *Merging.* Lint judges the whole patch, also when a part is applied (1776-1783, 4701-4728);
  an operation equal to the baseline reverts a local edit (`conflict_detect.ts:122-140`); one
  selected field copies the whole card; undoing a merge drops later edits.
- *Review, suggestions, cues.* Model answers are judged against the document captured at the
  call (3219, 8228, 7700, 3292, 7687, 5384); the panel keeps showing a decision that
  undo took back, and a merge follows the document's latest one (3653); a clock that goes back reorders decisions
  (`merge_suggestion_decisions.ts:163`); a picture swept by one tab while another names it
  (5591, 3116), which includes the picture of a copy swept by a tab that opens the original;
  the attempt to prove `CueInvariant` brought that case up (three documents, four turns), and
  `exposed` now names it.
- *Checks.* The evidence trace does not continue a card that was first reached at the depth
  limit (`evidence_trace.ts:208`) and marks truncation early; similar marks at
  `contradiction_trace.ts:253`, `trace_analytics.ts:109`, `structural_metrics.ts:135`,
  `void_detection.ts:126`, `reading_path.ts:88`; reports of an earlier document can be shown
  (`App.tsx:8552`, `8601`), and `resolved` marks of voids are dropped (8592).

## 7. Not modelled

AI prompts and response parsing (text around an external model), guest admission,
token verification, access decision rules (stateless; they enter as requests that were
allowed), administration and model registry records, the rate limiter, the context API and
the MCP adapter (read only), merge decision logs, settings and start-up, external content
backends (only their deletions appear), rendering, layout and wording, validation of file
formats, pointer handling of the canvas, review packs. Header syntax errors and payload
validation are answered before any state is read. Delta encoding is the relation `Base`.

## 8. Plan

1. Proofs: the traces of `DocumentChecks`, written as recursive functions and compared with
   reachability.
2. Modules: `GuestAdmission` (pending, active, revoked; one-time redemption; one redemption per
   state, no session without an active principal); `ReviewPacks`; pointer gestures and polygon
   editing of the canvas; the rate limiter's window and the JWKS cache.

## 9. Running

    tlc -config DocumentStore_snapshot.cfg MCSnapshot
    tlapm DocumentStoreProofs.tla

Every pair of module and configuration is listed in `PROJECT.json`. The runs take up to four
minutes each with two workers; the proofs of a module up to fifteen.
