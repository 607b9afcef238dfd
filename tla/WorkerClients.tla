--------------------------- MODULE WorkerClients ---------------------------
(***************************************************************************)
(* The clients of the computation workers and the panels that call them.   *)
(* A client owns one worker; every request registers listeners on it that  *)
(* filter by request id.  A request the worker cannot serve is computed    *)
(* again on the main thread by the runner of the client, whose single      *)
(* cancel flag all requests of the client share.  Each panel (a lane)      *)
(* shows the last result it accepted and a busy mark.                      *)
(***************************************************************************)
EXTENDS Naturals, Sequences, FiniteSets

CONSTANTS
    MaxRequests,   \* bound on the requests issued
    MaxWorkers     \* bound on the workers created

ASSUME WorkerBoundsAssumption == MaxRequests \in Nat \ {0} /\ MaxWorkers \in Nat \ {0}

VARIABLES
    client,     \* which client this is; it never changes
    issued,     \* number of requests issued so far
    req,        \* per request: its lane, where it is computed, its fate
    current,    \* per lane: the request its AbortController belongs to
    busy,       \* per lane: isDiffComputing, isDiagnosticsRunning, ...
    shown,      \* per lane: the request whose result is displayed
    worker,     \* the worker the client holds, 0 when it holds none
    machine,    \* per worker: its life, the messages to and from it
    cancelled   \* the cancel flag of the fallback runner

vars == <<client, issued, req, current, busy, shown, worker, machine, cancelled>>

Clients == {"diff", "diagnostics", "trace", "import", "zip"}
Lanes == {"main", "analytics"}
LanesOf(c) == IF c = "trace" THEN Lanes ELSE {"main"}

Requests == 1..MaxRequests
Workers == 1..MaxWorkers
NoRequest == [lane |-> "main", via |-> "none", worker |-> 0, aborted |-> FALSE,
              saw |-> FALSE, revived |-> FALSE, out |-> "none"]
NoMachine == [life |-> "none", inbox |-> <<>>, outbox |-> <<>>, active |-> {}, flagged |-> {}]

TypeOK ==
    /\ client \in Clients
    /\ issued \in 0..MaxRequests
    /\ req \in [Requests -> [lane : Lanes, via : {"none", "worker", "fallback", "done"},
                             worker : 0..MaxWorkers, aborted : BOOLEAN, saw : BOOLEAN,
                             revived : BOOLEAN, out : {"none", "completed", "cancelled"}]]
    /\ \A r \in Requests : req[r].via = "none" <=> r > issued
    /\ current \in [Lanes -> 0..issued] /\ shown \in [Lanes -> 0..issued]
    /\ busy \in [Lanes -> BOOLEAN]
    /\ worker \in 0..MaxWorkers
    /\ \A w \in Workers : machine[w].life \in {"none", "loading", "up", "dead", "terminated"}
    /\ worker # 0 => machine[worker].life \in {"loading", "up", "dead"}
    /\ cancelled \in BOOLEAN

Init ==
    /\ client \in Clients
    /\ issued = 0
    /\ req = [r \in Requests |-> NoRequest]
    /\ current = [l \in Lanes |-> 0]
    /\ busy = [l \in Lanes |-> FALSE]
    /\ shown = [l \in Lanes |-> 0]
    /\ worker = 0
    /\ machine = [w \in Workers |-> NoMachine]
    /\ cancelled = FALSE

Waiting(r) == req[r].via \in {"worker", "fallback"}

-----------------------------------------------------------------------------
(* What the caller of a request does when its promise settles.             *)

\* The diff effect drops an aborted request whatever its outcome; the other
\* callers look at the outcome only.
AcceptsCompleted(r, out, aborted) == out = "completed"
Accepts(r, out, aborted) == out = "completed" /\ (client = "diff" => ~aborted)

\* Only the diagnostics and trace panels test whether they are still the
\* current request before they clear the busy mark.
ClearsBusyAlways(r, cur) == TRUE
ClearsBusy(r, cur) == client \in {"diagnostics", "trace"} => cur = r

\* Request r settles as out, when cur is the current request of its lane.
SettledBusy(r, cur, b) == IF ClearsBusy(r, cur) THEN FALSE ELSE b

Settle(r, out) ==
    /\ req' = [req EXCEPT ![r].via = "done", ![r].out = out]
    /\ shown' = IF Accepts(r, out, req[r].aborted)
                THEN [shown EXCEPT ![req[r].lane] = r] ELSE shown
    /\ busy' = [busy EXCEPT ![req[r].lane] = SettledBusy(r, current[req[r].lane], @)]
    /\ UNCHANGED <<client, issued, current>>

-----------------------------------------------------------------------------
(* Aborting a request.                                                     *)

\* Aborting a request that waits for the worker settles it as cancelled at
\* once; one in the fallback only raises the shared flag.
Aborted(r) == [req EXCEPT ![r].aborted = TRUE,
                          ![r].via = IF @ = "worker" THEN "done" ELSE @,
                          ![r].out = IF req[r].via = "worker" THEN "cancelled" ELSE @]

FlagAfterAbort(r) == cancelled \/ (req[r].via = "fallback" /\ client # "import")

\* The client tells its worker; the import client terminates it instead.
MachineAfterAbort(r) ==
    IF req[r].via # "worker" \/ worker = 0 THEN machine
    ELSE IF client = "import" THEN [machine EXCEPT ![worker].life = "terminated"]
    ELSE [machine EXCEPT ![worker].inbox = Append(@, <<"cancel", r>>)]

WorkerAfterAbort(r) == IF client = "import" /\ req[r].via = "worker" THEN 0 ELSE worker

\* The cancel button of a panel.
Cancel(l) ==
    /\ current[l] # 0
    /\ LET r == current[l] IN
       /\ Waiting(r) /\ ~req[r].aborted
       /\ req' = Aborted(r)
       /\ machine' = MachineAfterAbort(r)
       /\ worker' = WorkerAfterAbort(r)
       /\ cancelled' = FlagAfterAbort(r)
       /\ busy' = [busy EXCEPT ![l] = @ /\ req[r].via # "worker"]
    /\ UNCHANGED <<client, issued, current, shown>>

-----------------------------------------------------------------------------
(* Issuing a request.                                                      *)

\* run() clears the flag, also for the requests that were cancelled by it.
Revive(rq, flag) == [r \in Requests |->
    IF rq[r].via = "fallback" /\ rq[r].aborted /\ flag THEN [rq[r] EXCEPT !.revived = TRUE] ELSE rq[r]]

StartFallbackFlagged(rq, flag, r) == req' = [rq EXCEPT ![r].via = "fallback"] /\ cancelled' = flag
StartFallback(rq, flag, r) ==
    /\ req' = IF client = "import" THEN [rq EXCEPT ![r].via = "fallback"]
              ELSE [Revive(rq, flag) EXCEPT ![r].via = "fallback"]
    /\ cancelled' = (client = "import" /\ flag)

\* Import and export refuse a second request while one is busy; the others
\* abort the request before.
Supersedes(l) == client \in {"diff", "diagnostics", "trace"} /\ current[l] # 0 /\ Waiting(current[l])

ReqAfterIssue(l, r) == [(IF Supersedes(l) THEN Aborted(current[l]) ELSE req) EXCEPT ![r].lane = l]

\* The caller sets the busy mark before the aborted request's handlers run.
BusyAfterIssue(l, r) ==
    IF Supersedes(l) /\ req[current[l]].via = "worker"
    THEN SettledBusy(current[l], r, TRUE) ELSE TRUE

\* ensureWorker: the worker of the client, or the next one to be created.
Fresh == Cardinality({w \in Workers : machine[w].life # "none"}) + 1
EnsuredWorker == IF worker # 0 THEN worker ELSE Fresh

PostUnensured(m, w, r) == [m EXCEPT ![w].inbox = Append(@, <<"request", r>>)]
Post(m, w, r) == [m EXCEPT ![w].life = IF @ = "none" THEN "loading" ELSE @,
                           ![w].inbox = Append(@, <<"request", r>>)]

Issue(l) ==
    /\ l \in LanesOf(client)
    /\ issued < MaxRequests
    /\ client \in {"import", "zip"} => ~busy[l]
    /\ LET r == issued + 1
           told == IF Supersedes(l) THEN MachineAfterAbort(current[l]) ELSE machine
           flag == IF Supersedes(l) THEN FlagAfterAbort(current[l]) ELSE cancelled
           w == EnsuredWorker
       IN
       /\ issued' = r
       /\ current' = [current EXCEPT ![l] = r]
       /\ busy' = [busy EXCEPT ![l] = BusyAfterIssue(l, r)]
       /\ \/ /\ w \in Workers
             /\ worker' = w
             /\ req' = [ReqAfterIssue(l, r) EXCEPT ![r].via = "worker", ![r].worker = w]
             /\ machine' = Post(told, w, r)
             /\ cancelled' = flag
          \/ /\ worker = 0     \* the Worker constructor throws
             /\ StartFallback(ReqAfterIssue(l, r), flag, r)
             /\ machine' = told
             /\ UNCHANGED worker
       /\ UNCHANGED <<client, shown>>

\* The comparison is closed: the request is aborted and the items cleared.
CloseComparison ==
    /\ client = "diff" /\ current["main"] # 0
    /\ LET r == current["main"] IN
       /\ req' = Aborted(r)
       /\ machine' = MachineAfterAbort(r)
       /\ cancelled' = FlagAfterAbort(r)
    /\ current' = [current EXCEPT !["main"] = 0]
    /\ shown' = [shown EXCEPT !["main"] = 0]
    /\ busy' = [busy EXCEPT !["main"] = FALSE]
    /\ UNCHANGED <<client, issued, worker>>

-----------------------------------------------------------------------------
(* The client is disposed: the worker is terminated with what it holds.    *)

\* The editor disposes both of its clients whenever an abstract map or a
\* summary view opens or closes, without aborting; a panel that unmounts
\* and an export that ends have nothing waiting.
Dispose ==
    /\ worker # 0
    /\ client \in {"diff", "diagnostics"} \/ \A r \in Requests : req[r].via # "worker"
    /\ machine' = [machine EXCEPT ![worker] = [NoMachine EXCEPT !.life = "terminated"]]
    /\ worker' = 0
    /\ UNCHANGED <<client, issued, req, current, busy, shown, cancelled>>

-----------------------------------------------------------------------------
(* The worker.                                                             *)

Load(w) ==
    /\ machine[w].life = "loading"
    /\ machine' = [machine EXCEPT ![w].life = "up"]
    /\ UNCHANGED <<client, issued, req, current, busy, shown, worker, cancelled>>

\* The diff, diagnostics and trace workers answer within one message event;
\* zip and import await, so that later messages are seen meanwhile.
Synchronous == client \in {"diff", "diagnostics", "trace"}

AnswersNoError(m, r, kind) == [m EXCEPT !.outbox = IF kind = "error" THEN @ ELSE Append(@, <<kind, r>>),
                                        !.active = @ \ {r}, !.flagged = @ \ {r}]
Answers(m, r, kind) == [m EXCEPT !.outbox = Append(@, <<kind, r>>),
                                 !.active = @ \ {r}, !.flagged = @ \ {r}]

HandleRequest(w) ==
    /\ machine[w].life = "up" /\ machine[w].inbox # <<>>
    /\ Head(machine[w].inbox)[1] = "request"
    /\ LET r == Head(machine[w].inbox)[2]
           m == [machine[w] EXCEPT !.inbox = Tail(@), !.active = @ \cup {r}, !.flagged = @ \ {r}]
       IN IF Synchronous
          THEN \E kind \in {"result", "error"} : machine' = [machine EXCEPT ![w] = Answers(m, r, kind)]
          ELSE machine' = [machine EXCEPT ![w] = m]
    /\ UNCHANGED <<client, issued, req, current, busy, shown, worker, cancelled>>

HandleCancel(w) ==
    /\ machine[w].life = "up" /\ machine[w].inbox # <<>>
    /\ Head(machine[w].inbox)[1] = "cancel"
    /\ machine' = [machine EXCEPT ![w].inbox = Tail(@),
                                  ![w].flagged = @ \cup ({Head(machine[w].inbox)[2]} \cap machine[w].active)]
    /\ UNCHANGED <<client, issued, req, current, busy, shown, worker, cancelled>>

FinishAsync(w, r) ==
    /\ machine[w].life = "up" /\ r \in machine[w].active
    /\ \E kind \in {"result", "error", "cancelled"} :
          /\ kind = "result" => r \notin machine[w].flagged
          /\ kind = "cancelled" => r \in machine[w].flagged
          /\ machine' = [machine EXCEPT ![w] = Answers(@, r, kind)]
    /\ UNCHANGED <<client, issued, req, current, busy, shown, worker, cancelled>>

-----------------------------------------------------------------------------
(* Answers reach the listeners of the request they name.                   *)

Listens(w, r) == req[r].via = "worker" /\ req[r].worker = w

Receive(w) ==
    /\ machine[w].life = "up" /\ machine[w].outbox # <<>>
    /\ machine' = [machine EXCEPT ![w].outbox = Tail(@)]
    /\ UNCHANGED worker
    /\ LET kind == Head(machine[w].outbox)[1]
           r == Head(machine[w].outbox)[2]
       IN \/ /\ ~Listens(w, r)
             /\ UNCHANGED <<client, issued, req, current, busy, shown, cancelled>>
          \/ /\ Listens(w, r) /\ kind = "error"
             /\ StartFallback(req, cancelled, r)
             /\ UNCHANGED <<client, issued, current, busy, shown>>
          \/ /\ Listens(w, r) /\ kind # "error"
             /\ Settle(r, IF kind = "result" THEN "completed" ELSE "cancelled")
             /\ UNCHANGED cancelled

\* The script of the worker cannot be loaded: one error event reaches the
\* requests that wait now.  The client keeps the dead worker.
LoadFails(w) ==
    /\ machine[w].life = "loading"
    /\ machine' = [machine EXCEPT ![w] = [NoMachine EXCEPT !.life = "dead"]]
    /\ LET runs == client # "import" /\ \E r \in Requests : Listens(w, r)
           rq == Revive(req, cancelled /\ runs)
       IN /\ req' = [r \in Requests |-> IF Listens(w, r) THEN [req[r] EXCEPT !.via = "fallback"] ELSE rq[r]]
          /\ cancelled' = (cancelled /\ ~runs)
    /\ UNCHANGED <<client, issued, current, busy, shown, worker>>

-----------------------------------------------------------------------------
(* The main-thread fallback.                                               *)

\* Between two stages the computation looks at the flag.
ObserveCancel(r) ==
    /\ req[r].via = "fallback" /\ cancelled /\ ~req[r].saw /\ client # "import"
    /\ req' = [req EXCEPT ![r].saw = TRUE]
    /\ UNCHANGED <<client, issued, current, busy, shown, worker, machine, cancelled>>

\* buildMergeItemsIncremental returns an empty list where the others return
\* null, so a diff that saw the flag is completed if it was cleared again.
FallbackOutcome(r) ==
    IF \/ client = "import" /\ req[r].aborted
       \/ client # "import" /\ (cancelled \/ (req[r].saw /\ client # "diff"))
    THEN "cancelled" ELSE "completed"

FinishFallback(r) ==
    /\ req[r].via = "fallback"
    /\ Settle(r, FallbackOutcome(r))
    /\ UNCHANGED <<worker, machine, cancelled>>

-----------------------------------------------------------------------------
WorkerSteps == \E w \in Workers :
    \/ Load(w) \/ LoadFails(w) \/ HandleRequest(w) \/ HandleCancel(w)
    \/ Receive(w)
    \/ \E r \in Requests : FinishAsync(w, r)

FallbackSteps == \E r \in Requests : ObserveCancel(r) \/ FinishFallback(r)

Next ==
    \/ \E l \in Lanes : Issue(l) \/ Cancel(l)
    \/ CloseComparison
    \/ Dispose
    \/ WorkerSteps
    \/ FallbackSteps

\* The browser runs workers, message events and idle callbacks.
Spec == Init /\ [][Next]_vars /\ WF_vars(WorkerSteps) /\ WF_vars(FallbackSteps)

-----------------------------------------------------------------------------
\* A result becomes the shown one only if its request was not aborted, so an
\* older computation never replaces the answer to a newer question.  The
\* diff effect ensures it by looking at its own signal.  The diagnostics and
\* trace panels rely on the runner, which forgets a cancellation when the
\* next request starts its fallback: exactly such a request may be shown.
AbortedNotShown ==
    [][\A l \in Lanes : (shown'[l] # shown[l] /\ shown'[l] # 0) =>
          \/ ~req[shown'[l]].aborted
          \/ client \in {"diagnostics", "trace"} /\ req[shown'[l]].revived]_vars

\* A request reported as cancelled was aborted by its own panel.  Only the
\* two lanes of the trace panel share a runner, and there aborting a trace
\* also cancels the analytics that nobody aborted (and conversely).
CancelledWasAborted ==
    \A r \in Requests : req[r].out = "cancelled" =>
        \/ req[r].aborted
        \/ client = "trace" /\ \E q \in Requests : req[q].aborted /\ req[q].lane # req[r].lane

\* A busy mark stands for a request that is being computed; and a current
\* request is marked busy, except that a diff that superseded another one
\* loses its mark to the handlers of the aborted request.
BusyTruthful ==
    \A l \in Lanes :
        /\ busy[l] => current[l] # 0 /\ Waiting(current[l])
        /\ (current[l] # 0 /\ Waiting(current[l])) =>
              busy[l] \/ (client = "diff" /\ \E r \in Requests : r < current[l] /\ req[r].aborted)

\* The listeners of r are on a worker that will never send anything again.
Lost(r) == req[r].via = "worker" /\ machine[req[r].worker].life \in {"dead", "terminated"}

\* Every request settles or was lost with its worker; it is lost only when
\* the client was disposed under it or its worker could not be loaded.
SettledUnlessLost == \A r \in Requests : Waiting(r) ~> (req[r].via = "done" \/ Lost(r))
=============================================================================
