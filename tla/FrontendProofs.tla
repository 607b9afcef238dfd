--------------------------- MODULE FrontendProofs ---------------------------
(***************************************************************************)
(* Proofs about two parts of the frontend that share nothing.              *)
(*                                                                         *)
(* WorkerClients, for every client and any bounds on requests and workers: *)
(* the busy marks, and which results are shown.                            *)
(*                                                                         *)
(* CanvasEditor, for any finite sets of cards and islands, any places and  *)
(* any length of the history: no handler of the canvas leaves a reference  *)
(* without the thing it names, the shelf agrees with the marks of the      *)
(* cards, and a drag only moves.                                           *)
(***************************************************************************)
EXTENDS WorkerClients, MCCanvasEditor, FiniteSetTheorems, WellFoundedInduction, TLAPS

Record == [lane : Lanes, via : {"none", "worker", "fallback", "done"},
           worker : 0..MaxWorkers, aborted : BOOLEAN, saw : BOOLEAN,
           revived : BOOLEAN, out : {"none", "completed", "cancelled"}]

Machine == [life : {"none", "loading", "up", "dead", "terminated"},
            inbox : Seq({"request", "cancel"} \X Requests),
            outbox : Seq({"result", "error", "cancelled"} \X Requests),
            active : SUBSET Requests, flagged : SUBSET Requests]

ClientTypes ==
    /\ client \in Clients /\ issued \in 0..MaxRequests
    /\ req \in [Requests -> Record]
    /\ \A r \in Requests : req[r].via = "none" <=> r > issued
    /\ current \in [Lanes -> 0..issued] /\ shown \in [Lanes -> 0..issued]
    /\ busy \in [Lanes -> BOOLEAN] /\ cancelled \in BOOLEAN

MachineTypes == worker \in 0..MaxWorkers /\ machine \in [Workers -> Machine]

(* A request is issued in a lane of its client, and a lane's current       *)
(* request is its own.                                                     *)
LanesKept ==
    /\ client # "trace" => \A r \in Requests : req[r].lane = "main"
    /\ \A l \in Lanes : current[l] # 0 => req[current[l]].lane = l

(* What waits is current in its lane, or was superseded, hence aborted.    *)
WaitingIsCurrent ==
    \A r \in Requests : Waiting(r) =>
        \/ r = current[req[r].lane]
        \/ /\ client \in {"diff", "diagnostics", "trace"} /\ req[r].aborted
           /\ current[req[r].lane] # 0 => r < current[req[r].lane]

(* Aborting settles what waits for a worker, and leaves the flag raised    *)
(* for what is computed on the main thread, unless a later run() cleared   *)
(* it; an export never has two requests for that to happen.                *)
AbortsNoted ==
    /\ \A r \in Requests : req[r].via \in {"none", "worker"} => ~req[r].aborted
    /\ client # "import" =>
         \A r \in Requests : (req[r].via = "fallback" /\ req[r].aborted) => cancelled \/ req[r].revived
    /\ client = "zip" => \A r \in Requests : ~req[r].revived

WInv == ClientTypes /\ MachineTypes /\ LanesKept /\ WaitingIsCurrent /\ AbortsNoted /\ BusyTruthful

LEMMA InitWInv == Init => WInv
  <1> SUFFICES ASSUME Init PROVE WInv
    OBVIOUS
  <1> USE WorkerBoundsAssumption
  <1>1. /\ NoRequest \in Record /\ NoRequest.via = "none" /\ NoRequest.lane = "main"
        /\ ~NoRequest.revived /\ ~NoRequest.aborted
    BY DEF NoRequest, Record, Lanes
  <1>2. NoMachine \in Machine
    BY DEF NoMachine, Machine
  <1>3. ClientTypes /\ MachineTypes
    <2>1. req \in [Requests -> Record] /\ \A r \in Requests : req[r].via = "none" /\ r > 0
      BY <1>1 DEF Init, Requests
    <2>2. issued = 0 /\ 0 \in 0..MaxRequests /\ 0 \in 0..0 /\ 0 \in 0..MaxWorkers
      BY DEF Init
    <2>3. MachineTypes
      BY <1>2, <2>2 DEF Init, MachineTypes
    <2>4. QED
      BY <2>1, <2>2, <2>3 DEF Init, ClientTypes
  <1>4. LanesKept /\ WaitingIsCurrent /\ AbortsNoted /\ BusyTruthful
    BY <1>1 DEF Init, LanesKept, WaitingIsCurrent, AbortsNoted, BusyTruthful, Waiting
  <1>5. QED
    BY <1>3, <1>4 DEF WInv

(* A step that settles nothing: requests may move to the main thread.      *)
LEMMA UnsettledKeeps ==
    ASSUME WInv, req' \in [Requests -> Record],
           \A r \in Requests :
              /\ req'[r].lane = req[r].lane /\ req'[r].aborted = req[r].aborted
              /\ \/ req'[r].via = req[r].via
                 \/ req[r].via = "worker" /\ req'[r].via = "fallback",
           UNCHANGED <<client, issued, current, busy, shown>>, cancelled' \in BOOLEAN
    PROVE  ClientTypes' /\ LanesKept' /\ WaitingIsCurrent' /\ BusyTruthful'
  <1> USE DEF WInv
  <1>1. ClientTypes'
    BY DEF ClientTypes
  <1>2. \A l \in Lanes : current[l] # 0 => current[l] \in Requests
    BY WorkerBoundsAssumption DEF ClientTypes, Requests
  <1>3. LanesKept'
    BY <1>2 DEF LanesKept
  <1>4. \A r \in Requests : Waiting(r)' <=> Waiting(r)
    BY DEF Waiting
  <1>5. WaitingIsCurrent'
    BY <1>4 DEF WaitingIsCurrent
  <1>6. BusyTruthful'
    BY <1>2, <1>4 DEF BusyTruthful
  <1>7. QED
    BY <1>1, <1>3, <1>5, <1>6

(* A request settles: its mark is cleared, and with the diff client also   *)
(* that of the request that superseded it.                                 *)
LEMMA SettleKeeps ==
    ASSUME WInv, NEW r \in Requests, Waiting(r), NEW out \in {"completed", "cancelled"},
           Settle(r, out), cancelled' = cancelled
    PROVE  ClientTypes' /\ LanesKept' /\ WaitingIsCurrent' /\ BusyTruthful' /\ AbortsNoted'
  <1> USE DEF WInv
  <1> DEFINE q == [req[r] EXCEPT !.via = "done", !.out = out]
             l == req[r].lane
  <1>1. /\ req[r] \in Record /\ l \in Lanes /\ r <= issued /\ r # 0
    BY DEF ClientTypes, Record, Waiting, Requests
  <1>2. req' = [req EXCEPT ![r] = q]
    BY DEF Settle, ClientTypes
  <1>3. /\ q \in Record /\ q.via = "done" /\ q.lane = l
        /\ q.aborted = req[r].aborted /\ q.revived = req[r].revived
    BY <1>1 DEF Record
  <1> HIDE DEF q
  <1>4. /\ UNCHANGED <<client, issued, current>>
        /\ shown' = shown \/ shown' = [shown EXCEPT ![l] = r]
        /\ busy' = [busy EXCEPT ![l] = IF ClearsBusy(r, current[l]) THEN FALSE ELSE busy[l]]
    BY DEF Settle, SettledBusy
  <1>5. ClientTypes'
    <2>1. req' \in [Requests -> Record] /\ busy' \in [Lanes -> BOOLEAN]
      BY <1>1, <1>2, <1>3, <1>4 DEF ClientTypes
    <2>2. r \in 0..issued
      BY <1>1, WorkerBoundsAssumption DEF ClientTypes, Requests
    <2>3. shown' \in [Lanes -> 0..issued]
      BY <1>4, <2>2 DEF ClientTypes
    <2>4. \A s \in Requests : req'[s].via = "none" <=> s > issued
      <3>1. req[r].via # "none"
        BY DEF Waiting
      <3>2. QED
        BY <1>2, <1>3, <3>1 DEF ClientTypes
    <2>5. QED
      BY <1>4, <2>1, <2>3, <2>4 DEF ClientTypes
  <1>6. \A s \in Requests : s # r => req'[s] = req[s]
    BY <1>2 DEF ClientTypes
  <1>7. req'[r] = q
    BY <1>2 DEF ClientTypes
  <1>8. \A k \in Lanes : current[k] # 0 => current[k] \in Requests
    BY WorkerBoundsAssumption DEF ClientTypes, Requests
  <1>9. LanesKept'
    BY <1>3, <1>4, <1>6, <1>7, <1>8 DEF LanesKept
  <1>10. \A s \in Requests : Waiting(s)' <=> (s # r /\ Waiting(s))
    BY <1>3, <1>6, <1>7 DEF Waiting
  <1>11. WaitingIsCurrent'
    BY <1>4, <1>6, <1>10 DEF WaitingIsCurrent
  <1>12. AbortsNoted'
    BY <1>3, <1>4, <1>6, <1>7 DEF AbortsNoted
  <1>13. BusyTruthful'
    <2>1. ASSUME NEW k \in Lanes, k # l
          PROVE  busy'[k] = busy[k] /\ current[k] # r
      BY <1>1, <1>4, <2>1 DEF LanesKept, ClientTypes
    <2>2. CASE r = current[l]
      <3>1. busy'[l] = FALSE
        BY <1>1, <1>4, <2>2 DEF ClearsBusy, ClientTypes
      <3>2. QED
        BY <1>1, <1>3, <1>4, <1>6, <1>7, <1>8, <1>10, <2>1, <2>2, <3>1 DEF BusyTruthful
    <2>3. CASE r # current[l]
      <3>1. /\ client \in {"diff", "diagnostics", "trace"} /\ req[r].aborted
            /\ current[l] # 0 => r < current[l]
        BY <2>3 DEF WaitingIsCurrent
      <3>2. client # "diff" => busy'[l] = busy[l]
        BY <1>1, <1>4, <2>3, <3>1 DEF ClearsBusy, ClientTypes
      <3>3. busy'[l] => busy[l]
        BY <1>1, <1>4 DEF ClientTypes
      <3>4. req'[r].aborted /\ \A s \in Requests : req'[s].aborted = req[s].aborted
        BY <1>3, <1>6, <1>7, <3>1
      <3>5. QED
        BY <1>1, <1>4, <1>8, <1>10, <2>1, <2>3, <3>1, <3>2, <3>3, <3>4 DEF BusyTruthful
    <2>4. QED
      BY <2>2, <2>3
  <1>14. QED
    BY <1>5, <1>9, <1>11, <1>12, <1>13
----------------------------------------------------------------------------
(* The queues of a worker only ever name requests. *)
LEMMA AnswersTyped ==
    ASSUME NEW m \in Machine, NEW r \in Requests, NEW kind \in {"result", "error", "cancelled"}
    PROVE  Answers(m, r, kind) \in Machine
  <1>1. Append(m.outbox, <<kind, r>>) \in Seq({"result", "error", "cancelled"} \X Requests)
    BY DEF Machine
  <1>2. QED
    BY <1>1 DEF Answers, Machine

LEMMA MachineStepsTyped ==
    ASSUME WInv, NEW w \in Workers,
           \/ Load(w) \/ HandleRequest(w) \/ HandleCancel(w) \/ Dispose
           \/ \E r \in Requests : FinishAsync(w, r)
    PROVE  MachineTypes' /\ UNCHANGED <<client, issued, req, current, busy, shown, cancelled>>
  <1> USE DEF WInv, MachineTypes
  <1>1. UNCHANGED <<client, issued, req, current, busy, shown, cancelled>>
    BY DEF Load, HandleRequest, HandleCancel, Dispose, FinishAsync
  <1>2. machine[w] \in Machine
    OBVIOUS
  <1>3. CASE Load(w)
    BY <1>1, <1>2, <1>3 DEF Load, Machine
  <1>4. CASE HandleRequest(w)
    <2> DEFINE r == Head(machine[w].inbox)[2]
               m == [machine[w] EXCEPT !.inbox = Tail(@), !.active = @ \cup {r}, !.flagged = @ \ {r}]
    <2>1. r \in Requests
      BY <1>2, <1>4 DEF HandleRequest, Machine
    <2>2. Tail(machine[w].inbox) \in Seq({"request", "cancel"} \X Requests)
      BY <1>2, <1>4 DEF HandleRequest, Machine
    <2> HIDE DEF r
    <2>3. m \in Machine
      BY <1>2, <2>1, <2>2 DEF Machine
    <2>4. \/ machine' = [machine EXCEPT ![w] = m]
          \/ \E kind \in {"result", "error"} : machine' = [machine EXCEPT ![w] = Answers(m, r, kind)]
      BY <1>4 DEF HandleRequest, r
    <2> HIDE DEF m
    <2>5. worker' = worker
      BY <1>4 DEF HandleRequest
    <2>6. QED
      BY <1>1, <2>1, <2>3, <2>4, <2>5, AnswersTyped
  <1>5. CASE HandleCancel(w)
    <2>1. Tail(machine[w].inbox) \in Seq({"request", "cancel"} \X Requests)
      BY <1>2, <1>5 DEF HandleCancel, Machine
    <2> DEFINE f == machine[w].flagged \cup ({Head(machine[w].inbox)[2]} \cap machine[w].active)
               m == [machine[w] EXCEPT !.inbox = Tail(@), !.flagged = f]
    <2>2. f \in SUBSET Requests
      BY <1>2 DEF Machine
    <2>3. machine' = [machine EXCEPT ![w] = m] /\ worker' = worker
      BY <1>5 DEF HandleCancel
    <2> HIDE DEF f
    <2>4. m \in Machine
      BY <1>2, <2>1, <2>2 DEF Machine
    <2> HIDE DEF m
    <2>5. QED
      BY <1>1, <2>3, <2>4
  <1>6. CASE Dispose
    <2>1. [NoMachine EXCEPT !.life = "terminated"] \in Machine
      <3>1. NoMachine \in Machine
        BY DEF NoMachine, Machine
      <3>2. QED
        BY <3>1 DEF Machine
    <2>2. worker \in Workers /\ 0 \in 0..MaxWorkers
      BY <1>6, WorkerBoundsAssumption DEF Dispose, Workers
    <2> DEFINE gone == [NoMachine EXCEPT !.life = "terminated"]
    <2>3. machine' = [machine EXCEPT ![worker] = gone] /\ worker' = 0
      BY <1>6 DEF Dispose
    <2> HIDE DEF gone
    <2>4. MachineTypes'
      BY <2>1, <2>2, <2>3 DEF gone
    <2>5. QED
      BY <1>1, <2>4
  <1>7. ASSUME NEW r \in Requests, FinishAsync(w, r) PROVE MachineTypes'
    <2>1. PICK kind \in {"result", "error", "cancelled"} :
             machine' = [machine EXCEPT ![w] = Answers(machine[w], r, kind)]
      BY <1>7 DEF FinishAsync
    <2>2. worker' = worker
      BY <1>7 DEF FinishAsync
    <2>3. QED
      BY <1>2, <2>1, <2>2, AnswersTyped
  <1>8. QED
    BY <1>1, <1>3, <1>4, <1>5, <1>6, <1>7

LEMMA MachineStepsKeep ==
    ASSUME WInv, MachineTypes', UNCHANGED <<client, issued, req, current, busy, shown, cancelled>>
    PROVE  WInv'
  BY DEF WInv, ClientTypes, LanesKept, WaitingIsCurrent, AbortsNoted, BusyTruthful, Waiting

(* Requests that fall back to the main thread: r alone, or all that listen *)
(* to a worker that cannot be loaded.                                      *)
LEMMA FallbackKeepsNotes ==
    ASSUME WInv, NEW F \in SUBSET Requests, \A r \in F : req[r].via = "worker",
           req' \in [Requests -> Record], client' = client,
           \A r \in Requests :
              /\ req'[r].via = (IF r \in F THEN "fallback" ELSE req[r].via)
              /\ req'[r].aborted = req[r].aborted
              /\ r \in F => req'[r].revived = req[r].revived
              /\ client # "import" /\ r \notin F =>
                   req'[r].revived = (req[r].revived \/ (F # {} /\ req[r].via = "fallback" /\ req[r].aborted /\ cancelled)),
           client # "import" => cancelled' = (cancelled /\ F = {})
    PROVE  AbortsNoted'
  <1> USE DEF WInv, AbortsNoted
  <1>1. \A r \in F : ~req[r].aborted
    OBVIOUS
  <1>2. \A r \in Requests : req[r].revived \in BOOLEAN /\ req[r].aborted \in BOOLEAN
    BY DEF ClientTypes, Record
  <1>3. cancelled \in BOOLEAN
    BY DEF ClientTypes
  <1>4. \A r \in Requests : req'[r].via \in {"none", "worker"} => ~req'[r].aborted
    OBVIOUS
  <1>5. client # "import" =>
          \A r \in Requests : (req'[r].via = "fallback" /\ req'[r].aborted) => cancelled' \/ req'[r].revived
    BY <1>1, <1>2, <1>3
  <1>6. ASSUME client = "zip", NEW r \in Requests
        PROVE  ~req'[r].revived
    <2>1. ASSUME F # {}, r \notin F, req[r].via = "fallback"
          PROVE  FALSE
      <3>1. PICK s \in F : TRUE
        BY <2>1
      <3>2. Waiting(r) /\ Waiting(s) /\ r # s
        BY <2>1, <3>1 DEF Waiting
      <3>3. r = current["main"] /\ s = current["main"]
        BY <1>6, <3>2 DEF WaitingIsCurrent, LanesKept
      <3>4. QED
        BY <3>2, <3>3
    <2>2. QED
      BY <1>6, <2>1
  <1>7. QED
    BY <1>4, <1>5, <1>6
LEMMA ReceiveKeepsWInv ==
    ASSUME WInv, NEW w \in Workers, Receive(w)
    PROVE  WInv'
  <1> USE DEF WInv
  <1> DEFINE kind == Head(machine[w].outbox)[1]
             r == Head(machine[w].outbox)[2]
  <1>1. r \in Requests /\ kind \in {"result", "error", "cancelled"}
    BY DEF MachineTypes, Machine, Receive
  <1>2. MachineTypes'
    <2>1. Tail(machine[w].outbox) \in Seq({"result", "error", "cancelled"} \X Requests)
      BY DEF MachineTypes, Machine, Receive
    <2>2. [machine[w] EXCEPT !.outbox = Tail(@)] \in Machine
      BY <2>1 DEF MachineTypes, Machine
    <2>3. QED
      BY <2>2 DEF MachineTypes, Receive
  <1>3. CASE UNCHANGED <<client, issued, req, current, busy, shown, cancelled>>
    BY <1>2, <1>3, MachineStepsKeep
  <1>4. CASE Listens(w, r) /\ kind # "error"
    <2>1. Waiting(r)
      BY <1>4 DEF Listens, Waiting
    <2>2. PICK out \in {"completed", "cancelled"} : Settle(r, out)
      BY <1>4 DEF Receive
    <2>3. cancelled' = cancelled
      BY <1>4 DEF Receive
    <2>4. QED
      BY <1>1, <1>2, <2>1, <2>2, <2>3, SettleKeeps
  <1>5. CASE Listens(w, r) /\ kind = "error"
    <2>1. StartFallback(req, cancelled, r) /\ UNCHANGED <<client, issued, current, busy, shown>>
      BY <1>5 DEF Receive
    <2> HIDE DEF r
    <2>2. req[r].via = "worker" /\ req[r] \in Record /\ ~req[r].aborted /\ cancelled \in BOOLEAN
      BY <1>1, <1>5 DEF Listens, ClientTypes, AbortsNoted
    <2>3. /\ req' \in [Requests -> Record]
          /\ \A s \in Requests :
               /\ req'[s].via = (IF s = r THEN "fallback" ELSE req[s].via)
               /\ req'[s].aborted = req[s].aborted /\ req'[s].lane = req[s].lane
               /\ s = r => req'[s].revived = req[s].revived
               /\ client # "import" /\ s # r =>
                    req'[s].revived = (req[s].revived \/ (req[s].via = "fallback" /\ req[s].aborted /\ cancelled))
      <3>1. CASE client = "import"
        <4>1. req' = [req EXCEPT ![r] = [req[r] EXCEPT !.via = "fallback"]]
          BY <2>1, <3>1 DEF StartFallback
        <4>2. /\ [req[r] EXCEPT !.via = "fallback"] \in Record
              /\ [req[r] EXCEPT !.via = "fallback"].via = "fallback"
              /\ [req[r] EXCEPT !.via = "fallback"].aborted = req[r].aborted
              /\ [req[r] EXCEPT !.via = "fallback"].lane = req[r].lane
              /\ [req[r] EXCEPT !.via = "fallback"].revived = req[r].revived
          BY <2>2 DEF Record
        <4>3. QED
          BY <1>1, <3>1, <4>1, <4>2 DEF ClientTypes
      <3>2. CASE client # "import"
        <4> DEFINE rq == Revive(req, cancelled)
        <4>1. /\ rq \in [Requests -> Record]
              /\ \A s \in Requests :
                   /\ rq[s].via = req[s].via /\ rq[s].aborted = req[s].aborted /\ rq[s].lane = req[s].lane
                   /\ rq[s].revived = (req[s].revived \/ (req[s].via = "fallback" /\ req[s].aborted /\ cancelled))
          BY DEF Revive, ClientTypes, Record
        <4>2. req' = [rq EXCEPT ![r] = [rq[r] EXCEPT !.via = "fallback"]]
          BY <2>1, <3>2 DEF StartFallback
        <4> HIDE DEF rq
        <4>3. /\ [rq[r] EXCEPT !.via = "fallback"] \in Record
              /\ [rq[r] EXCEPT !.via = "fallback"].via = "fallback"
              /\ [rq[r] EXCEPT !.via = "fallback"].aborted = rq[r].aborted
              /\ [rq[r] EXCEPT !.via = "fallback"].lane = rq[r].lane
              /\ [rq[r] EXCEPT !.via = "fallback"].revived = rq[r].revived
          BY <1>1, <4>1 DEF Record
        <4>4. rq[r].revived = req[r].revived
          <5>1. req[r].via # "fallback" /\ req[r].revived \in BOOLEAN
            BY <2>2 DEF Record
          <5>2. QED
            BY <1>1, <4>1, <5>1
        <4>5. QED
          BY <1>1, <3>2, <4>1, <4>2, <4>3, <4>4
      <3>3. QED
        BY <3>1, <3>2
    <2>4. cancelled' = (client = "import" /\ cancelled)
      BY <2>1 DEF StartFallback
    <2>5. AbortsNoted'
      <3>1. {r} \in SUBSET Requests /\ \A s \in {r} : req[s].via = "worker"
        BY <1>1, <2>2
      <3>2. QED
        BY <2>1, <2>2, <2>3, <2>4, <3>1, FallbackKeepsNotes
    <2>6. ClientTypes' /\ LanesKept' /\ WaitingIsCurrent' /\ BusyTruthful'
      BY <2>1, <2>2, <2>3, <2>4, UnsettledKeeps
    <2>7. QED
      BY <1>2, <2>5, <2>6
  <1>6. QED
    BY <1>3, <1>4, <1>5 DEF Receive
LEMMA LoadFailsKeepsWInv ==
    ASSUME WInv, NEW w \in Workers, LoadFails(w)
    PROVE  WInv'
  <1> USE DEF WInv
  <1> DEFINE F == {r \in Requests : Listens(w, r)}
             runs == client # "import" /\ \E r \in Requests : Listens(w, r)
             rq == Revive(req, cancelled /\ runs)
  <1>1. /\ req' = [r \in Requests |-> IF Listens(w, r) THEN [req[r] EXCEPT !.via = "fallback"] ELSE rq[r]]
        /\ cancelled' = (cancelled /\ ~runs)
        /\ machine' = [machine EXCEPT ![w] = [NoMachine EXCEPT !.life = "dead"]]
        /\ UNCHANGED <<client, issued, current, busy, shown, worker>>
    BY DEF LoadFails
  <1>2. F \in SUBSET Requests /\ \A r \in F : req[r].via = "worker"
    BY DEF Listens
  <1>3. runs <=> client # "import" /\ F # {}
    OBVIOUS
  <1>4. /\ rq \in [Requests -> Record]
        /\ \A s \in Requests :
             /\ rq[s].via = req[s].via /\ rq[s].aborted = req[s].aborted /\ rq[s].lane = req[s].lane
             /\ rq[s].revived = (req[s].revived \/ (req[s].via = "fallback" /\ req[s].aborted /\ cancelled /\ runs))
    <2> DEFINE flag == cancelled /\ runs
               up(s) == [req[s] EXCEPT !.revived = TRUE]
    <2>1. \A s \in Requests :
            /\ up(s) \in Record /\ up(s).revived = TRUE /\ up(s).via = req[s].via
            /\ up(s).aborted = req[s].aborted /\ up(s).lane = req[s].lane
            /\ req[s] \in Record /\ req[s].revived \in BOOLEAN
      BY DEF ClientTypes, Record
    <2>2. rq = [s \in Requests |-> IF req[s].via = "fallback" /\ req[s].aborted /\ flag THEN up(s) ELSE req[s]]
      BY DEF Revive
    <2> HIDE DEF rq, up, flag
    <2>3. \A s \in Requests :
            rq[s] = IF req[s].via = "fallback" /\ req[s].aborted /\ flag THEN up(s) ELSE req[s]
      BY <2>2
    <2>4. rq \in [Requests -> Record]
      BY <2>1, <2>2
    <2>5. \A s \in Requests :
             /\ rq[s].via = req[s].via /\ rq[s].aborted = req[s].aborted /\ rq[s].lane = req[s].lane
             /\ rq[s].revived = (req[s].revived \/ (req[s].via = "fallback" /\ req[s].aborted /\ flag))
      BY <2>1, <2>3
    <2> USE DEF flag
    <2>6. QED
      BY <2>4, <2>5
  <1>5. \A r \in Requests :
          /\ [req[r] EXCEPT !.via = "fallback"] \in Record
          /\ [req[r] EXCEPT !.via = "fallback"].via = "fallback"
          /\ [req[r] EXCEPT !.via = "fallback"].aborted = req[r].aborted
          /\ [req[r] EXCEPT !.via = "fallback"].lane = req[r].lane
          /\ [req[r] EXCEPT !.via = "fallback"].revived = req[r].revived
    BY DEF ClientTypes, Record
  <1>6. \A r \in Requests : r \in F <=> Listens(w, r)
    OBVIOUS
  <1> HIDE DEF F, rq, runs
  <1>7. /\ req' \in [Requests -> Record]
        /\ \A s \in Requests :
             /\ req'[s].via = (IF s \in F THEN "fallback" ELSE req[s].via)
             /\ req'[s].aborted = req[s].aborted /\ req'[s].lane = req[s].lane
             /\ s \in F => req'[s].revived = req[s].revived
             /\ client # "import" /\ s \notin F =>
                  req'[s].revived = (req[s].revived \/ (F # {} /\ req[s].via = "fallback" /\ req[s].aborted /\ cancelled))
    <2>1. \A s \in Requests : req'[s] = IF s \in F THEN [req[s] EXCEPT !.via = "fallback"] ELSE rq[s]
      BY <1>1, <1>6
    <2>2. req' \in [Requests -> Record]
      BY <1>1, <1>4, <1>5, <1>6
    <2>3. ASSUME NEW s \in Requests, s \in F
          PROVE  /\ req'[s].via = "fallback" /\ req'[s].aborted = req[s].aborted
                 /\ req'[s].lane = req[s].lane /\ req'[s].revived = req[s].revived
      BY <1>5, <2>1, <2>3
    <2>4. ASSUME NEW s \in Requests, s \notin F
          PROVE  /\ req'[s].via = req[s].via /\ req'[s].aborted = req[s].aborted
                 /\ req'[s].lane = req[s].lane
                 /\ client # "import" =>
                      req'[s].revived = (req[s].revived \/ (F # {} /\ req[s].via = "fallback" /\ req[s].aborted /\ cancelled))
      <3>1. req'[s] = rq[s]
        BY <2>1, <2>4
      <3>2. client # "import" => (runs <=> F # {})
        BY <1>3
      <3>3. rq[s].revived = (req[s].revived \/ (req[s].via = "fallback" /\ req[s].aborted /\ cancelled /\ runs))
        BY <1>4
      <3>4. client # "import" =>
                req'[s].revived = (req[s].revived \/ (F # {} /\ req[s].via = "fallback" /\ req[s].aborted /\ cancelled))
        BY <3>1, <3>2, <3>3, Zenon
      <3>5. QED
        BY <1>4, <3>1, <3>4
    <2>5. QED
      BY <2>2, <2>3, <2>4
  <1>8. AbortsNoted'
    <2>1. client # "import" => cancelled' = (cancelled /\ F = {})
      BY <1>1, <1>3
    <2>2. QED
      BY <1>1, <1>2, <1>7, <2>1, FallbackKeepsNotes
  <1>9. ClientTypes' /\ LanesKept' /\ WaitingIsCurrent' /\ BusyTruthful'
    <2>1. cancelled' \in BOOLEAN
      BY <1>1
    <2>2. QED
      BY <1>1, <1>2, <1>7, <2>1, UnsettledKeeps
  <1>10. MachineTypes'
    <2>1. NoMachine \in Machine
      BY DEF NoMachine, Machine
    <2>2. [NoMachine EXCEPT !.life = "dead"] \in Machine
      BY <2>1 DEF Machine
    <2>3. QED
      BY <1>1, <2>2 DEF MachineTypes
  <1>11. QED
    BY <1>8, <1>9, <1>10

LEMMA FallbackStepKeepsWInv ==
    ASSUME WInv, NEW r \in Requests, ObserveCancel(r) \/ FinishFallback(r)
    PROVE  WInv'
  <1> USE DEF WInv
  <1>1. CASE ObserveCancel(r)
    <2> DEFINE q == [req[r] EXCEPT !.saw = TRUE]
    <2>1. /\ req' = [req EXCEPT ![r] = q]
          /\ UNCHANGED <<client, issued, current, busy, shown, worker, machine, cancelled>>
      BY <1>1 DEF ObserveCancel
    <2>2. req[r] \in Record
      BY DEF ClientTypes
    <2>3. /\ q \in Record /\ q.via = req[r].via /\ q.lane = req[r].lane
          /\ q.aborted = req[r].aborted /\ q.revived = req[r].revived
      BY <2>2 DEF Record
    <2> HIDE DEF q
    <2>4. /\ req' \in [Requests -> Record]
          /\ \A s \in Requests : /\ req'[s].via = req[s].via /\ req'[s].lane = req[s].lane
                                  /\ req'[s].aborted = req[s].aborted /\ req'[s].revived = req[s].revived
      BY <2>1, <2>3 DEF ClientTypes
    <2>5. AbortsNoted' /\ MachineTypes'
      BY <2>1, <2>4 DEF AbortsNoted, MachineTypes
    <2>6. cancelled' \in BOOLEAN
      BY <2>1 DEF ClientTypes
    <2>7. QED
      BY <2>1, <2>4, <2>5, <2>6, UnsettledKeeps
  <1>2. CASE FinishFallback(r)
    <2>1. Waiting(r) /\ FallbackOutcome(r) \in {"completed", "cancelled"}
      BY <1>2 DEF FinishFallback, Waiting, FallbackOutcome
    <2>2. Settle(r, FallbackOutcome(r)) /\ UNCHANGED <<worker, machine, cancelled>>
      BY <1>2 DEF FinishFallback
    <2>3. MachineTypes'
      BY <2>2 DEF MachineTypes
    <2>4. QED
      BY <2>1, <2>2, <2>3, SettleKeeps
  <1>3. QED
    BY <1>1, <1>2
----------------------------------------------------------------------------
(* What aborting does to the request, the worker and the flag. *)
LEMMA AbortedFacts ==
    ASSUME WInv, NEW r \in Requests
    PROVE  /\ Aborted(r) \in [Requests -> Record]
           /\ \A s \in Requests : s # r => Aborted(r)[s] = req[s]
           /\ Aborted(r)[r].aborted /\ Aborted(r)[r].lane = req[r].lane
           /\ Aborted(r)[r].revived = req[r].revived
           /\ Aborted(r)[r].via = IF req[r].via = "worker" THEN "done" ELSE req[r].via
  <1> DEFINE v == IF req[r].via = "worker" THEN "done" ELSE req[r].via
             o == IF req[r].via = "worker" THEN "cancelled" ELSE req[r].out
             a == [req[r] EXCEPT !.aborted = TRUE]
             b == [a EXCEPT !.via = v]
             c == [b EXCEPT !.out = o]
  <1>1. req \in [Requests -> Record] /\ req[r] \in Record
    BY DEF WInv, ClientTypes
  <1>2. /\ v \in {"none", "worker", "fallback", "done"}
        /\ o \in {"none", "completed", "cancelled"}
    BY <1>1 DEF Record
  <1>3. /\ a \in Record /\ a.aborted /\ a.via = req[r].via /\ a.lane = req[r].lane
        /\ a.revived = req[r].revived /\ a.out = req[r].out
    BY <1>1 DEF Record
  <1>4. Aborted(r) = [req EXCEPT ![r] = c]
    BY <1>1, <1>3 DEF Aborted
  <1> HIDE DEF a
  <1>5. b \in Record /\ b.aborted /\ b.via = v /\ b.lane = a.lane /\ b.revived = a.revived
    <2> HIDE DEF v
    <2>1. QED
      BY <1>2, <1>3 DEF Record
  <1> HIDE DEF b
  <1>6. c \in Record /\ c.aborted /\ c.via = v /\ c.lane = b.lane /\ c.revived = b.revived
    <2> HIDE DEF o
    <2>1. QED
      BY <1>2, <1>5 DEF Record
  <1> HIDE DEF c
  <1>7. QED
    BY <1>1, <1>3, <1>4, <1>5, <1>6

LEMMA MachineAfterAbortTyped ==
    ASSUME WInv, NEW r \in Requests
    PROVE  MachineAfterAbort(r) \in [Workers -> Machine] /\ WorkerAfterAbort(r) \in 0..MaxWorkers
  <1>1. machine \in [Workers -> Machine] /\ worker \in 0..MaxWorkers
    BY DEF WInv, MachineTypes
  <1>2. ASSUME worker # 0
        PROVE  /\ [machine EXCEPT ![worker].life = "terminated"] \in [Workers -> Machine]
               /\ [machine EXCEPT ![worker].inbox = Append(@, <<"cancel", r>>)] \in [Workers -> Machine]
    <2>1. worker \in Workers /\ machine[worker] \in Machine
      BY <1>1, <1>2, WorkerBoundsAssumption DEF Workers
    <2>2. Append(machine[worker].inbox, <<"cancel", r>>) \in Seq({"request", "cancel"} \X Requests)
      BY <2>1 DEF Machine
    <2>3. /\ [machine[worker] EXCEPT !.life = "terminated"] \in Machine
          /\ [machine[worker] EXCEPT !.inbox = Append(@, <<"cancel", r>>)] \in Machine
      BY <2>1, <2>2 DEF Machine
    <2>4. QED
      BY <1>1, <2>3
  <1>3. QED
    BY <1>1, <1>2, WorkerBoundsAssumption DEF MachineAfterAbort, WorkerAfterAbort

LEMMA CancelKeepsWInv ==
    ASSUME WInv, NEW l \in Lanes, Cancel(l)
    PROVE  WInv'
  <1> USE DEF WInv
  <1> DEFINE r == current[l]
  <1>1. /\ r \in Requests /\ r <= issued /\ r # 0 /\ Waiting(r) /\ ~req[r].aborted /\ req[r].lane = l
    BY WorkerBoundsAssumption DEF Cancel, ClientTypes, LanesKept, Requests
  <1>2. /\ req' = Aborted(r) /\ machine' = MachineAfterAbort(r) /\ worker' = WorkerAfterAbort(r)
        /\ cancelled' = FlagAfterAbort(r)
        /\ busy' = [busy EXCEPT ![l] = busy[l] /\ req[r].via # "worker"]
        /\ UNCHANGED <<client, issued, current, shown>>
    BY DEF Cancel
  <1>3. /\ req' \in [Requests -> Record]
        /\ \A s \in Requests : s # r => req'[s] = req[s]
        /\ req'[r].aborted /\ req'[r].lane = l
        /\ req'[r].revived = req[r].revived
        /\ req'[r].via = IF req[r].via = "worker" THEN "done" ELSE req[r].via
    BY <1>1, <1>2, AbortedFacts
  <1> HIDE DEF r
  <1>4. MachineTypes'
    BY <1>1, <1>2, MachineAfterAbortTyped DEF MachineTypes
  <1>5. cancelled' \in BOOLEAN /\ (cancelled => cancelled')
        /\ (req[r].via = "fallback" /\ client # "import" => cancelled')
    BY <1>2 DEF FlagAfterAbort, ClientTypes
  <1>6. ClientTypes'
    BY <1>1, <1>2, <1>3, <1>5 DEF ClientTypes, Waiting
  <1>7. \A k \in Lanes : current[k] # 0 => current[k] \in Requests
    BY WorkerBoundsAssumption DEF ClientTypes, Requests
  <1>8. LanesKept'
    BY <1>1, <1>2, <1>3, <1>7 DEF LanesKept
  <1>9. \A s \in Requests : Waiting(s)' <=> Waiting(s) /\ (s # r \/ req[r].via # "worker")
    BY <1>3 DEF Waiting
  <1>10. \A s \in Requests : req'[s].lane = req[s].lane /\ (req[s].aborted => req'[s].aborted)
    BY <1>1, <1>3
  <1>11. WaitingIsCurrent'
    BY <1>2, <1>9, <1>10 DEF WaitingIsCurrent
  <1>12. AbortsNoted'
    BY <1>1, <1>2, <1>3, <1>5 DEF AbortsNoted, Waiting
  <1>13. BusyTruthful'
    <2>1. ASSUME NEW k \in Lanes, k # l
          PROVE  busy'[k] = busy[k] /\ (current[k] # 0 => current[k] # r)
      BY <1>1, <1>2, <2>1 DEF LanesKept, ClientTypes
    <2>2. busy'[l] = (busy[l] /\ req[r].via # "worker") /\ busy[l] \in BOOLEAN
      BY <1>2 DEF ClientTypes
    <2>3. current[l] = r
      BY DEF r
    <2>4. QED
      BY <1>1, <1>2, <1>7, <1>9, <1>10, <2>1, <2>2, <2>3 DEF BusyTruthful
  <1>14. QED
    BY <1>4, <1>6, <1>8, <1>11, <1>12, <1>13

LEMMA CloseKeepsWInv ==
    ASSUME WInv, CloseComparison
    PROVE  WInv'
  <1> USE DEF WInv
  <1> DEFINE r == current["main"]
  <1>0. "main" \in Lanes
    BY DEF Lanes
  <1>1. r \in Requests /\ r <= issued /\ r # 0 /\ req[r].lane = "main" /\ client = "diff"
    BY <1>0, WorkerBoundsAssumption DEF CloseComparison, ClientTypes, LanesKept, Requests
  <1>2. /\ req' = Aborted(r) /\ machine' = MachineAfterAbort(r) /\ worker' = worker
        /\ cancelled' = FlagAfterAbort(r)
        /\ current' = [current EXCEPT !["main"] = 0] /\ shown' = [shown EXCEPT !["main"] = 0]
        /\ busy' = [busy EXCEPT !["main"] = FALSE]
        /\ UNCHANGED <<client, issued>>
    BY DEF CloseComparison
  <1>3. /\ req' \in [Requests -> Record]
        /\ \A s \in Requests : s # r => req'[s] = req[s]
        /\ req'[r].aborted /\ req'[r].lane = req[r].lane
        /\ req'[r].revived = req[r].revived
        /\ req'[r].via = IF req[r].via = "worker" THEN "done" ELSE req[r].via
    BY <1>1, <1>2, AbortedFacts
  <1> HIDE DEF r
  <1>4. MachineTypes'
    BY <1>1, <1>2, MachineAfterAbortTyped DEF MachineTypes
  <1>5. cancelled' \in BOOLEAN /\ (cancelled => cancelled') /\ (req[r].via = "fallback" => cancelled')
    BY <1>1, <1>2 DEF FlagAfterAbort, ClientTypes
  <1>6. ClientTypes'
    <2>1. \A s \in Requests : req'[s].via = "none" <=> s > issued
      BY <1>1, <1>3 DEF ClientTypes
    <2>2. current' \in [Lanes -> 0..issued] /\ shown' \in [Lanes -> 0..issued] /\ busy' \in [Lanes -> BOOLEAN]
      <3>1. 0 \in 0..issued
        BY WorkerBoundsAssumption DEF ClientTypes
      <3>2. QED
        BY <1>2, <3>1 DEF ClientTypes
    <2>3. QED
      BY <1>2, <1>3, <1>5, <2>1, <2>2 DEF ClientTypes
  <1>7. \A s \in Requests : req'[s].lane = req[s].lane /\ req[s].lane = "main"
    BY <1>1, <1>3 DEF LanesKept
  <1>8. /\ current'["main"] = 0
        /\ \A k \in Lanes : /\ current[k] # 0 => current[k] \in Requests
                            /\ k # "main" => current'[k] = current[k]
    BY <1>0, <1>2, WorkerBoundsAssumption DEF ClientTypes, Requests
  <1>9. LanesKept'
    BY <1>1, <1>2, <1>7, <1>8 DEF LanesKept
  <1>10. \A s \in Requests : Waiting(s)' => Waiting(s)
    BY <1>3 DEF Waiting
  <1>11. \A s \in Requests : Waiting(s)' => req'[s].aborted
    BY <1>1, <1>3, <1>7, <1>10 DEF WaitingIsCurrent, r
  <1>12. WaitingIsCurrent'
    <2>1. client' = "diff"
      BY <1>1, <1>2
    <2>2. ASSUME NEW s \in Requests, Waiting(s)'
          PROVE  req'[s].aborted /\ current'[req'[s].lane] = 0
      BY <1>7, <1>8, <1>11, <2>2 DEF Waiting
    <2>3. QED
      BY <2>1, <2>2 DEF WaitingIsCurrent
  <1>13. AbortsNoted'
    <2>1. req[r].via # "none"
      BY <1>1, WorkerBoundsAssumption DEF ClientTypes, Requests
    <2>2. \A s \in Requests : req'[s].via \in {"none", "worker"} => ~req'[s].aborted
      BY <1>1, <1>3, <2>1 DEF AbortsNoted
    <2>3. \A s \in Requests : (req'[s].via = "fallback" /\ req'[s].aborted) => cancelled' \/ req'[s].revived
      BY <1>1, <1>3, <1>5 DEF AbortsNoted
    <2>4. client' = "diff"
      BY <1>1, <1>2
    <2>5. QED
      BY <2>2, <2>3, <2>4 DEF AbortsNoted
  <1>14. BusyTruthful'
    <2>1. ASSUME NEW k \in Lanes, k # "main"
          PROVE  current[k] = 0
      BY <1>7, <1>8, <2>1 DEF LanesKept
    <2>2. \A k \in Lanes : busy'[k] = (IF k = "main" THEN FALSE ELSE busy[k])
      BY <1>2 DEF ClientTypes
    <2>3. QED
      BY <1>8, <2>1, <2>2 DEF BusyTruthful
  <1>15. QED
    BY <1>4, <1>6, <1>9, <1>12, <1>13, <1>14
(* A new request: the one it supersedes is aborted, and of an import or an *)
(* export there was none.                                                  *)
LEMMA IssueKeepsWInv ==
    ASSUME WInv, NEW l \in Lanes, Issue(l)
    PROVE  WInv'
  <1> USE DEF WInv
  <1> DEFINE r == issued + 1
             c == current[l]
             sup == Supersedes(l)
             base == ReqAfterIssue(l, r)
             flag == IF sup THEN FlagAfterAbort(c) ELSE cancelled
             told == IF sup THEN MachineAfterAbort(c) ELSE machine
             w == EnsuredWorker
             sent == [base EXCEPT ![r].via = "worker", ![r].worker = w]
  <1>1. /\ l \in LanesOf(client) /\ issued < MaxRequests
        /\ client \in {"import", "zip"} => ~busy[l]
        /\ issued' = r /\ current' = [current EXCEPT ![l] = r]
        /\ busy' = [busy EXCEPT ![l] = BusyAfterIssue(l, r)]
        /\ \/ /\ w \in Workers /\ worker' = w /\ req' = sent
              /\ machine' = Post(told, w, r) /\ cancelled' = flag
           \/ /\ worker = 0 /\ StartFallback(base, flag, r)
              /\ machine' = told /\ worker' = worker
        /\ UNCHANGED <<client, shown>>
    BY DEF Issue
  <1>2. /\ r \in Requests /\ issued \in Nat /\ r \in 0..MaxRequests
        /\ req[r].via = "none" /\ ~req[r].aborted /\ req[r] \in Record
    BY <1>1, WorkerBoundsAssumption DEF ClientTypes, Requests, AbortsNoted
  <1>3. sup => c \in Requests /\ c # r /\ c < r /\ Waiting(c) /\ req[c].lane = l
               /\ client \in {"diff", "diagnostics", "trace"}
    BY <1>1, WorkerBoundsAssumption DEF Supersedes, ClientTypes, Requests, LanesKept
  <1>4. flag \in BOOLEAN /\ (cancelled => flag)
        /\ (sup /\ req[c].via = "fallback" /\ client # "import" => flag)
    BY DEF FlagAfterAbort, ClientTypes
  <1>5. /\ base \in [Requests -> Record]
        /\ base[r].via = "none" /\ base[r].lane = l /\ ~base[r].aborted /\ base[r].revived = req[r].revived
        /\ \A s \in Requests :
             /\ s # r /\ ~(sup /\ s = c) => base[s] = req[s]
             /\ sup /\ s = c => /\ base[s].aborted /\ base[s].lane = l /\ base[s].revived = req[s].revived
                                /\ base[s].via = IF req[s].via = "worker" THEN "done" ELSE req[s].via
    <2> DEFINE before == IF sup THEN Aborted(c) ELSE req
    <2>1. before \in [Requests -> Record] /\ before[r] = req[r]
      BY <1>2, <1>3, AbortedFacts DEF ClientTypes
    <2>2. base = [before EXCEPT ![r] = [before[r] EXCEPT !.lane = l]]
      BY DEF ReqAfterIssue
    <2>3. /\ [req[r] EXCEPT !.lane = l] \in Record
          /\ [req[r] EXCEPT !.lane = l].lane = l /\ [req[r] EXCEPT !.lane = l].via = req[r].via
          /\ [req[r] EXCEPT !.lane = l].aborted = req[r].aborted
          /\ [req[r] EXCEPT !.lane = l].revived = req[r].revived
      BY <1>2 DEF Record
    <2>4. \A s \in Requests :
             /\ s # r /\ ~(sup /\ s = c) => before[s] = req[s]
             /\ sup /\ s = c => /\ before[s].aborted /\ before[s].lane = l /\ before[s].revived = req[s].revived
                                /\ before[s].via = IF req[s].via = "worker" THEN "done" ELSE req[s].via
      BY <1>3, AbortedFacts
    <2> HIDE DEF base, before
    <2>5. QED
      BY <1>2, <1>3, <2>1, <2>2, <2>3, <2>4
  <1> HIDE DEF base
  <1> DEFINE fell == req'[r].via = "fallback"
             Carried(s) ==
                /\ req'[s].lane = base[s].lane /\ req'[s].aborted = base[s].aborted
                /\ req'[s].via = base[s].via
                /\ base[s].revived => req'[s].revived
                /\ client # "import" /\ fell /\ base[s].via = "fallback" /\ base[s].aborted /\ flag => req'[s].revived
                /\ req'[s].revived => base[s].revived \/ (fell /\ base[s].via = "fallback")
  <1>6. /\ req' \in [Requests -> Record] /\ cancelled' \in BOOLEAN
        /\ req'[r].via \in {"worker", "fallback"} /\ req'[r].lane = l /\ ~req'[r].aborted
        /\ req'[r].revived = req[r].revived
        /\ \A s \in Requests : s # r => Carried(s)
        /\ client # "import" => (cancelled' <=> flag /\ ~fell)
    <2> HIDE DEF flag
    <2>1. CASE w \in Workers /\ req' = sent /\ cancelled' = flag
      <3> HIDE DEF w
      <3> DEFINE a == [base[r] EXCEPT !.via = "worker"]
                 b == [a EXCEPT !.worker = w]
      <3>1. w \in 0..MaxWorkers
        BY <2>1, WorkerBoundsAssumption DEF Workers
      <3>2. /\ a \in Record /\ a.via = "worker" /\ a.lane = base[r].lane /\ a.aborted = base[r].aborted
            /\ a.revived = base[r].revived
        BY <1>2, <1>5 DEF Record
      <3>3. req' = [base EXCEPT ![r] = b]
        BY <1>2, <1>5, <2>1
      <3> HIDE DEF a
      <3>4. /\ b \in Record /\ b.via = "worker" /\ b.lane = a.lane /\ b.aborted = a.aborted
            /\ b.revived = a.revived
        BY <3>1, <3>2 DEF Record
      <3> HIDE DEF b
      <3>5. req'[r] = b /\ ~fell /\ \A s \in Requests : s # r => req'[s] = base[s]
        BY <1>2, <1>5, <3>3, <3>4
      <3>6. req' \in [Requests -> Record]
        BY <1>5, <3>3, <3>4
      <3>7. \A s \in Requests : s # r => Carried(s)
        BY <3>5
      <3>8. QED
        BY <1>4, <1>5, <2>1, <3>2, <3>4, <3>5, <3>6, <3>7
    <2>2. CASE StartFallback(base, flag, r)
      <3> DEFINE rq == IF client = "import" THEN base ELSE Revive(base, flag)
                 a == [rq[r] EXCEPT !.via = "fallback"]
      <3>1. /\ rq \in [Requests -> Record]
            /\ \A s \in Requests :
                 /\ rq[s].lane = base[s].lane /\ rq[s].aborted = base[s].aborted /\ rq[s].via = base[s].via
                 /\ base[s].revived => rq[s].revived
                 /\ client # "import" /\ base[s].via = "fallback" /\ base[s].aborted /\ flag => rq[s].revived
                 /\ base[s].via # "fallback" => rq[s] = base[s]
        <4>1. CASE client = "import"
          BY <1>5, <4>1
        <4>2. CASE client # "import"
          <5>1. rq = [s \in Requests |-> IF base[s].via = "fallback" /\ base[s].aborted /\ flag
                                         THEN [base[s] EXCEPT !.revived = TRUE] ELSE base[s]]
            BY <4>2 DEF Revive
          <5>2. \A s \in Requests :
                  /\ base[s] \in Record /\ [base[s] EXCEPT !.revived = TRUE] \in Record
                  /\ [base[s] EXCEPT !.revived = TRUE].revived
                  /\ [base[s] EXCEPT !.revived = TRUE].lane = base[s].lane
                  /\ [base[s] EXCEPT !.revived = TRUE].aborted = base[s].aborted
                  /\ [base[s] EXCEPT !.revived = TRUE].via = base[s].via
            BY <1>5 DEF Record
          <5> HIDE DEF rq
          <5>3. QED
            BY <5>1, <5>2
        <4>3. QED
          BY <4>1, <4>2
      <3>2. req' = [rq EXCEPT ![r] = a] /\ cancelled' = (client = "import" /\ flag)
        BY <2>2 DEF StartFallback
      <3> HIDE DEF rq
      <3>3. rq[r] = base[r]
        BY <1>2, <1>5, <3>1
      <3>4. /\ a \in Record /\ a.via = "fallback" /\ a.lane = base[r].lane /\ a.aborted = base[r].aborted
            /\ a.revived = base[r].revived
        BY <1>2, <1>5, <3>3 DEF Record
      <3> HIDE DEF a
      <3>5. req'[r] = a /\ fell /\ \A s \in Requests : s # r => req'[s] = rq[s]
        BY <1>2, <3>1, <3>2, <3>4
      <3>6. req' \in [Requests -> Record]
        BY <3>1, <3>2, <3>4
      <3>7. ASSUME NEW s \in Requests, s # r PROVE Carried(s)
        <4>1. req'[s] = rq[s]
          BY <3>5, <3>7
        <4>2. QED
          BY <3>1, <3>5, <4>1
      <3>8. QED
        BY <1>4, <1>5, <3>2, <3>4, <3>5, <3>6, <3>7
    <2>3. QED
      BY <1>1, <2>1, <2>2
  <1>7. MachineTypes'
    <2>1. told \in [Workers -> Machine]
      BY <1>3, MachineAfterAbortTyped DEF MachineTypes
    <2> HIDE DEF told
    <2>2. CASE machine' = told /\ worker' = worker
      BY <2>1, <2>2 DEF MachineTypes
    <2>3. CASE w \in Workers /\ worker' = w /\ machine' = Post(told, w, r)
      <3> HIDE DEF w
      <3> DEFINE m == told[w]
                 a == [m EXCEPT !.life = IF @ = "none" THEN "loading" ELSE @]
                 b == [a EXCEPT !.inbox = Append(@, <<"request", r>>)]
      <3>1. m \in Machine
        BY <2>1, <2>3
      <3>2. Append(m.inbox, <<"request", r>>) \in Seq({"request", "cancel"} \X Requests)
        BY <1>2, <3>1 DEF Machine
      <3>3. a \in Machine /\ a.inbox = m.inbox
        <4> HIDE DEF m
        <4>1. QED
          BY <3>1 DEF Machine
      <3>4. Post(told, w, r) = [told EXCEPT ![w] = b]
        BY <2>1, <2>3 DEF Post
      <3>5. b \in Machine
        <4> HIDE DEF a
        <4>1. QED
          BY <3>2, <3>3 DEF Machine
      <3> HIDE DEF b
      <3>6. w \in 0..MaxWorkers
        BY <2>3, WorkerBoundsAssumption DEF Workers
      <3>7. QED
        BY <2>1, <2>3, <3>4, <3>5, <3>6 DEF MachineTypes
    <2>4. QED
      BY <1>1, <2>2, <2>3
  <1>8. \A s \in Requests : s # r =>
          /\ req'[s].lane = req[s].lane
          /\ req'[s].aborted = (req[s].aborted \/ (sup /\ s = c))
          /\ req'[s].via = IF sup /\ s = c /\ req[s].via = "worker" THEN "done" ELSE req[s].via
    <2>1. \A s \in Requests : req[s].aborted \in BOOLEAN
      BY DEF ClientTypes, Record
    <2> HIDE DEF sup, c, flag, fell
    <2>2. ASSUME NEW s \in Requests, s # r, sup, s = c
          PROVE  req'[s].aborted = TRUE
      <3>1. base[s].aborted = TRUE
        BY <1>5, <2>2 DEF Record
      <3>2. QED
        BY <1>6, <2>2, <3>1
    <2>3. ASSUME NEW s \in Requests, s # r, sup, s = c
          PROVE  /\ req'[s].lane = req[s].lane
                 /\ req'[s].via = IF req[s].via = "worker" THEN "done" ELSE req[s].via
      BY <1>3, <1>5, <1>6, <2>3
    <2>4. ASSUME NEW s \in Requests, s # r, ~(sup /\ s = c)
          PROVE  req'[s].lane = req[s].lane /\ req'[s].aborted = req[s].aborted /\ req'[s].via = req[s].via
      BY <1>5, <1>6, <2>4
    <2>5. QED
      BY <2>1, <2>2, <2>3, <2>4
  <1>9. /\ BusyAfterIssue(l, r) \in BOOLEAN
        /\ ~BusyAfterIssue(l, r) => sup /\ client = "diff"
    BY <1>3 DEF BusyAfterIssue, SettledBusy, ClearsBusy, Clients
  <1> HIDE DEF sup, w, told, flag, sent, fell
  <1>10. ClientTypes'
    <2>1. current' \in [Lanes -> 0..r] /\ shown' \in [Lanes -> 0..r] /\ busy' \in [Lanes -> BOOLEAN]
      <3>1. r \in 0..r /\ 0..issued \subseteq 0..r
        BY <1>2
      <3>2. QED
        BY <1>1, <1>9, <3>1 DEF ClientTypes
    <2>2. \A s \in Requests : req'[s].via = "none" <=> s > r
      <3>1. \A s \in Requests : s # r => (s > issued <=> s > r)
        BY <1>2 DEF Requests
      <3>2. ~(r > r)
        BY <1>2
      <3>3. QED
        BY <1>6, <1>8, <3>1, <3>2 DEF ClientTypes
    <2>3. QED
      BY <1>1, <1>2, <1>6, <2>1, <2>2 DEF ClientTypes
  <1>11. /\ current'[l] = r
         /\ \A k \in Lanes : /\ current[k] # 0 => current[k] \in Requests /\ current[k] < r
                             /\ k # l => current'[k] = current[k]
    BY <1>1, <1>2, WorkerBoundsAssumption DEF ClientTypes, Requests
  <1>12. LanesKept'
    <2>1. client # "trace" => l = "main"
      BY <1>1 DEF LanesOf
    <2>2. \A k \in Lanes : k # l /\ current[k] # 0 => current[k] # r
      BY <1>2, <1>11
    <2>3. QED
      BY <1>1, <1>6, <1>8, <1>11, <2>1, <2>2 DEF LanesKept
  <1>13. ASSUME NEW s \in Requests, s # r
         PROVE  Waiting(s)' <=> Waiting(s) /\ ~(sup /\ s = c /\ req[s].via = "worker")
    BY <1>8, <1>13 DEF Waiting
  <1> DEFINE After(s) == req'[s].via \in {"worker", "fallback"}
  <1>14. After(r) /\ \A s \in Requests : Waiting(s)' <=> After(s)
    BY <1>6 DEF Waiting
  <1> HIDE DEF After
  <1>15. \A k \in Lanes : (current[k] # 0 /\ Waiting(current[k])) =>
             busy[k] \/ (client = "diff" /\ \E q \in Requests : q < current[k] /\ req[q].aborted)
    BY DEF BusyTruthful
  <1>16. WaitingIsCurrent'
    <2>1. ASSUME NEW s \in Requests, s # r, Waiting(s)'
          PROVE  \/ s = current'[req[s].lane]
                 \/ /\ client \in {"diff", "diagnostics", "trace"} /\ req'[s].aborted
                    /\ current'[req[s].lane] # 0 => s < current'[req[s].lane]
      <3>1. Waiting(s) /\ req[s].lane \in Lanes
        BY <1>13, <2>1 DEF ClientTypes, Record
      <3>2. CASE req[s].lane # l
        BY <1>8, <1>11, <2>1, <3>1, <3>2 DEF WaitingIsCurrent
      <3>3. CASE req[s].lane = l
        <4>1. s < r
          <5>1. s <= issued
            BY <1>2, <3>1 DEF Waiting, ClientTypes, Requests
          <5>2. QED
            BY <1>2, <5>1 DEF Requests
        <4>2. CASE s = c
          <5>1. client \in {"diff", "diagnostics", "trace"}
            <6>1. c # 0
              BY <1>2, <4>2 DEF Requests
            <6>2. QED
              BY <1>1, <1>15, <3>1, <4>2, <6>1 DEF ClientTypes, Clients
          <5>2. sup
            BY <3>1, <4>2, <5>1 DEF sup, Supersedes, Requests
          <5>3. QED
            BY <1>8, <1>11, <2>1, <3>3, <4>1, <4>2, <5>1, <5>2
        <4>3. CASE s # c
          <5>1. client \in {"diff", "diagnostics", "trace"} /\ req[s].aborted
            BY <3>1, <3>3, <4>3 DEF WaitingIsCurrent
          <5>2. QED
            BY <1>8, <1>11, <2>1, <3>3, <4>1, <5>1
        <4>4. QED
          BY <4>2, <4>3
      <3>4. QED
        BY <3>2, <3>3
    <2>2. QED
      BY <1>1, <1>6, <1>8, <1>11, <2>1 DEF WaitingIsCurrent
  <1>17. AbortsNoted'
    <2>1. ASSUME NEW s \in Requests, req'[s].via \in {"none", "worker"}
          PROVE  ~req'[s].aborted
      <3>1. CASE s = r
        BY <1>6, <3>1
      <3>2. CASE s # r /\ ~(sup /\ s = c)
        <4>1. req[s].via \in {"none", "worker"} /\ req'[s].aborted = req[s].aborted
          <5>1. req'[s].via = req[s].via /\ req'[s].aborted = base[s].aborted /\ base[s] = req[s]
            BY <1>5, <1>6, <1>8, <3>2
          <5>2. QED
            BY <2>1, <5>1
        <4>2. QED
          BY <4>1 DEF AbortsNoted
      <3>3. CASE s # r /\ sup /\ s = c
        <4>1. req[s].via \in {"worker", "fallback"}
          BY <1>3, <3>3 DEF Waiting
        <4>2. req'[s].via \in {"done", "fallback"}
          BY <1>8, <3>3, <4>1
        <4>3. QED
          BY <2>1, <4>2
      <3>4. QED
        BY <3>1, <3>2, <3>3
    <2>2. ASSUME client # "import", NEW s \in Requests, req'[s].via = "fallback", req'[s].aborted
          PROVE  cancelled' \/ req'[s].revived
      <3>1. s # r /\ Carried(s)
        BY <1>6, <2>2
      <3>2. base[s].via = "fallback" /\ base[s].aborted
        BY <2>2, <3>1
      <3>3. flag \/ base[s].revived
        <4>1. CASE sup /\ s = c
          BY <1>4, <1>5, <2>2, <3>2, <4>1
        <4>2. CASE ~(sup /\ s = c)
          BY <1>4, <1>5, <2>2, <3>1, <3>2, <4>2 DEF AbortsNoted
        <4>3. QED
          BY <4>1, <4>2
      <3>4. QED
        BY <1>6, <2>2, <3>1, <3>2, <3>3
    <2>3. ASSUME client = "zip", NEW s \in Requests
          PROVE  ~req'[s].revived
      <3>1. CASE s = r
        BY <1>6, <2>3, <3>1 DEF AbortsNoted
      <3>2. CASE s # r
        <4>1. Carried(s)
          BY <1>6, <3>2
        <4>2. ~sup /\ base[s] = req[s] /\ ~req[s].revived
          BY <1>3, <1>5, <2>3, <3>2 DEF AbortsNoted
        <4>3. req[s].via # "fallback"
          <5>1. SUFFICES ASSUME req[s].via = "fallback" PROVE FALSE
            OBVIOUS
          <5>2. Waiting(s) /\ req[s].lane = "main" /\ l = "main"
            BY <1>1, <2>3, <5>1 DEF Waiting, LanesKept, LanesOf
          <5>3. s = current[l]
            BY <2>3, <5>2 DEF WaitingIsCurrent
          <5>4. s # 0
            BY DEF Requests
          <5>5. QED
            BY <1>1, <1>15, <2>3, <5>2, <5>3, <5>4
        <4>4. QED
          BY <4>1, <4>2, <4>3
      <3>3. QED
        BY <3>1, <3>2
    <2>4. client' = client
      BY <1>1
    <2>5. QED
      BY <2>1, <2>2, <2>3, <2>4 DEF AbortsNoted
  <1>18. BusyTruthful'
    <2>1. ASSUME NEW k \in Lanes, k # l
          PROVE  /\ busy'[k] = busy[k] /\ current'[k] = current[k]
                 /\ current[k] # 0 => (After(current[k]) <=> Waiting(current[k]))
      <3>1. busy'[k] = busy[k] /\ current'[k] = current[k]
        BY <1>1, <2>1 DEF ClientTypes
      <3>2. ASSUME current[k] # 0
            PROVE  After(current[k]) <=> Waiting(current[k])
        <4>1. current[k] \in Requests /\ current[k] # r
          BY <1>2, <1>11, <3>2
        <4>2. ~(sup /\ current[k] = c)
          BY <1>3, <2>1, <3>2 DEF LanesKept
        <4>3. QED
          BY <1>13, <1>14, <4>1, <4>2
      <3>3. QED
        BY <3>1, <3>2
    <2>2. \A q \in Requests : req[q].aborted => q # r /\ req'[q].aborted
      BY <1>2, <1>8
    <2>3. busy'[l] = BusyAfterIssue(l, r)
      BY <1>1 DEF ClientTypes
    <2>4. ~busy'[l] => client = "diff" /\ \E q \in Requests : q < r /\ req'[q].aborted
      BY <1>3, <1>8, <1>9, <2>3
    <2>5. r # 0
      BY <1>2
    <2>6. ASSUME NEW k \in Lanes
          PROVE  /\ busy'[k] => current'[k] # 0 /\ After(current'[k])
                 /\ (current'[k] # 0 /\ After(current'[k])) =>
                       busy'[k] \/ (client' = "diff" /\ \E q \in Requests : q < current'[k] /\ req'[q].aborted)
      <3>1. CASE k = l
        BY <1>1, <1>11, <1>14, <2>4, <2>5, <3>1
      <3>2. CASE k # l
        <4>1. busy'[k] = busy[k] /\ current'[k] = current[k] /\ client' = client
          BY <1>1, <2>1, <3>2
        <4>2. CASE current[k] = 0
          BY <4>1, <4>2 DEF BusyTruthful
        <4>3. CASE current[k] # 0
          <5>1. After(current[k]) <=> Waiting(current[k])
            BY <2>1, <3>2, <4>3
          <5>2. busy[k] => Waiting(current[k])
            BY DEF BusyTruthful
          <5>3. Waiting(current[k]) => busy[k] \/ (client = "diff" /\ \E q \in Requests : q < current[k] /\ req[q].aborted)
            BY <1>15, <4>3
          <5>4. (\E q \in Requests : q < current[k] /\ req[q].aborted)
                  => \E q \in Requests : q < current[k] /\ req'[q].aborted
            BY <2>2
          <5>5. QED
            BY <4>1, <4>3, <5>1, <5>2, <5>3, <5>4
        <4>4. QED
          BY <4>2, <4>3
      <3>3. QED
        BY <3>1, <3>2
    <2>7. QED
      BY <2>6 DEF BusyTruthful, Waiting, After
  <1>19. QED
    BY <1>7, <1>10, <1>12, <1>16, <1>17, <1>18
-----------------------------------------------------------------------------
LEMMA NextWInv == WInv /\ [Next]_vars => WInv'
  <1> SUFFICES ASSUME WInv, [Next]_vars PROVE WInv'
    OBVIOUS
  <1>1. CASE UNCHANGED vars
    <2>1. MachineTypes'
      BY <1>1 DEF vars, WInv, MachineTypes
    <2>2. QED
      BY <1>1, <2>1, MachineStepsKeep DEF vars
  <1>2. ASSUME NEW l \in Lanes, Issue(l) PROVE WInv'
    BY <1>2, IssueKeepsWInv
  <1>3. ASSUME NEW l \in Lanes, Cancel(l) PROVE WInv'
    BY <1>3, CancelKeepsWInv
  <1>4. CASE CloseComparison
    BY <1>4, CloseKeepsWInv
  <1>5. CASE Dispose
    <2>1. 1 \in Workers
      BY WorkerBoundsAssumption DEF Workers
    <2>2. QED
      BY <1>5, <2>1, MachineStepsTyped, MachineStepsKeep
  <1>6. CASE WorkerSteps
    <2>1. PICK w \in Workers :
             \/ Load(w) \/ LoadFails(w) \/ HandleRequest(w) \/ HandleCancel(w) \/ Receive(w)
             \/ \E r \in Requests : FinishAsync(w, r)
      BY <1>6 DEF WorkerSteps
    <2>2. CASE LoadFails(w)
      BY <2>2, LoadFailsKeepsWInv
    <2>3. CASE Receive(w)
      BY <2>3, ReceiveKeepsWInv
    <2>4. CASE Load(w) \/ HandleRequest(w) \/ HandleCancel(w) \/ \E r \in Requests : FinishAsync(w, r)
      BY <2>4, MachineStepsTyped, MachineStepsKeep
    <2>5. QED
      BY <2>1, <2>2, <2>3, <2>4
  <1>7. CASE FallbackSteps
    BY <1>7, FallbackStepKeepsWInv DEF FallbackSteps
  <1>8. QED
    BY <1>1, <1>2, <1>3, <1>4, <1>5, <1>6, <1>7 DEF Next

(* A busy mark always stands for a request that is being computed, and     *)
(* what is computed for a lane is marked, but for a diff that superseded   *)
(* another: every client, any number of requests and workers.              *)
THEOREM BusyMarksTrue == Spec => []BusyTruthful
  <1>1. WInv => BusyTruthful
    BY DEF WInv
  <1>2. QED
    BY <1>1, InitWInv, NextWInv, PTL DEF Spec

(* Whoever settles a request with a result knows that it was not aborted,  *)
(* or is a panel whose runner forgot the cancellation.                     *)
LEMMA ShownWasAsked ==
    ASSUME WInv, [Next]_vars
    PROVE  \A l \in Lanes : (shown'[l] # shown[l] /\ shown'[l] # 0) =>
             \/ ~req[shown'[l]].aborted
             \/ client \in {"diagnostics", "trace"} /\ req[shown'[l]].revived
  <1> USE DEF WInv
  <1> SUFFICES ASSUME NEW l \in Lanes, shown'[l] # shown[l], shown'[l] # 0
               PROVE  \/ ~req[shown'[l]].aborted
                      \/ client \in {"diagnostics", "trace"} /\ req[shown'[l]].revived
    OBVIOUS
  <1>1. ASSUME NEW r \in Requests, NEW out \in {"completed", "cancelled"}, Settle(r, out)
        PROVE  shown'[l] = r /\ out = "completed" /\ (client = "diff" => ~req[r].aborted)
    <2>1. shown' = IF Accepts(r, out, req[r].aborted) THEN [shown EXCEPT ![req[r].lane] = r] ELSE shown
      BY <1>1 DEF Settle
    <2>2. Accepts(r, out, req[r].aborted)
      BY <2>1
    <2>3. QED
      BY <2>1, <2>2 DEF Accepts, ClientTypes
  <1>2. ASSUME NEW w \in Workers, Receive(w) PROVE ~req[shown'[l]].aborted
    <2> DEFINE kind == Head(machine[w].outbox)[1]
               r == Head(machine[w].outbox)[2]
               out == IF kind = "result" THEN "completed" ELSE "cancelled"
    <2>1. Listens(w, r) /\ Settle(r, out)
      BY <1>2 DEF Receive
    <2>2. r \in Requests
      BY <1>2 DEF MachineTypes, Machine, Receive
    <2>3. ~req[r].aborted
      BY <2>1, <2>2 DEF Listens, AbortsNoted
    <2> HIDE DEF r, kind
    <2>4. QED
      BY <1>1, <2>1, <2>2, <2>3
  <1>3. ASSUME NEW r \in Requests, FinishFallback(r)
        PROVE  \/ ~req[shown'[l]].aborted
               \/ client \in {"diagnostics", "trace"} /\ req[shown'[l]].revived
    <2>1. Settle(r, FallbackOutcome(r)) /\ req[r].via = "fallback"
      BY <1>3 DEF FinishFallback
    <2>2. FallbackOutcome(r) \in {"completed", "cancelled"}
      BY DEF FallbackOutcome
    <2>3. shown'[l] = r /\ FallbackOutcome(r) = "completed" /\ (client = "diff" => ~req[r].aborted)
      BY <1>1, <2>1, <2>2
    <2>4. /\ client = "import" => ~req[r].aborted
          /\ client # "import" => ~cancelled
      BY <2>3 DEF FallbackOutcome
    <2>5. ASSUME req[r].aborted PROVE client \in {"diagnostics", "trace"} /\ req[r].revived
      <3>1. client \notin {"diff", "import"} /\ ~cancelled
        BY <2>3, <2>4, <2>5
      <3>2. req[r].revived
        BY <2>1, <2>5, <3>1 DEF AbortsNoted
      <3>3. client # "zip"
        BY <3>2 DEF AbortsNoted
      <3>4. QED
        BY <3>1, <3>2, <3>3 DEF ClientTypes, Clients
    <2>6. QED
      BY <2>3, <2>5
  <1>4. CASE CloseComparison
    <2>1. shown' = [shown EXCEPT !["main"] = 0]
      BY <1>4 DEF CloseComparison
    <2>2. QED
      BY <2>1 DEF ClientTypes
  <1>5. CASE shown' = shown
    BY <1>5
  <1>6. (\E k \in Lanes : Issue(k) \/ Cancel(k)) => shown' = shown
    BY DEF Issue, Cancel
  <1>7. Dispose => shown' = shown
    BY DEF Dispose
  <1>8. WorkerSteps => shown' = shown \/ \E w \in Workers : Receive(w)
    BY DEF WorkerSteps, Load, LoadFails, HandleRequest, HandleCancel, FinishAsync
  <1>9. FallbackSteps => shown' = shown \/ \E r \in Requests : FinishFallback(r)
    BY DEF FallbackSteps, ObserveCancel
  <1>10. UNCHANGED vars => shown' = shown
    BY DEF vars
  <1>11. QED
    BY <1>2, <1>3, <1>4, <1>5, <1>6, <1>7, <1>8, <1>9, <1>10 DEF Next

(* No panel shows the result of a request it aborted, except the two whose *)
(* runner forgets a cancellation when the next request starts.             *)
THEOREM AbortedStayHidden == Spec => AbortedNotShown
  <1>1. Spec => []WInv
    BY InitWInv, NextWInv, PTL DEF Spec
  <1> DEFINE A == \A l \in Lanes : (shown'[l] # shown[l] /\ shown'[l] # 0) =>
                    \/ ~req[shown'[l]].aborted
                    \/ client \in {"diagnostics", "trace"} /\ req[shown'[l]].revived
  <1>2. WInv /\ [Next]_vars => [A]_vars
    BY ShownWasAsked
  <1> HIDE DEF A
  <1>3. []WInv /\ [][Next]_vars => [][A]_vars
    BY <1>2, PTL
  <1>4. Spec => [][A]_vars
    BY <1>1, <1>3, PTL DEF Spec
  <1>5. QED
    BY <1>4 DEF AbortedNotShown, A

-----------------------------------------------------------------------------
(* The canvas.                                                              *)

Node == CardIds \cup IslandIds

Paper ==
    [cards : SUBSET CardIds, note : [CardIds -> BOOLEAN], place : [CardIds -> Places],
     hold : [CardIds -> {None, "held", "shelved"}], into : [CardIds -> CardIds \cup {None}],
     shelf : SUBSET CardIds, islands : SUBSET IslandIds, member : [IslandIds -> SUBSET CardIds],
     parent : [IslandIds -> IslandIds \cup {None}], edges : SUBSET (Node \X Node),
     links : SUBSET (CardIds \X CardIds \X Kinds), order : Seq(Node)]

Linked(d) == \A l \in d.links : l[1] \in d.cards /\ l[2] \in d.cards /\ l[1] # l[2]

Once(s) == \A m, n \in DOMAIN s : s[m] = s[n] => m = n

Ordered(d) == (\A n \in DOMAIN d.order : d.order[n] \in Things(d)) /\ Once(d.order)

(* A set that holds what its islands lie in. *)
Closed(d, C) == \A j \in C \cap d.islands : d.parent[j] \in C

(* An island lies in nothing that lies in it: something closed holds its    *)
(* parent and not the island itself.                                        *)
Apart(d, i) ==
    d.parent[i] # None =>
        \E C \in SUBSET (IslandIds \cup {None}) : Closed(d, C) /\ d.parent[i] \in C /\ i \notin C

(* What is no island of the document lies in nothing.                       *)
Nested(d) ==
    /\ \A i \in d.islands : Apart(d, i)
    /\ \A i \in IslandIds \ d.islands : d.parent[i] = None

(* Identifiers that are not given yet are on no shelf and carry no mark.    *)
Marked(d, u) ==
    /\ \A c \in d.cards : c \in d.shelf <=> d.hold[c] = "shelved"
    /\ \A c \in CardIds \ u : c \notin d.shelf /\ d.hold[c] # "shelved"

Whole(d, u) ==
    d \in Paper /\ Things(d) \subseteq u /\ Linked(d) /\ Ordered(d) /\ Nested(d) /\ Marked(d, u)

PagesOK ==
    /\ past \in Seq(Paper) /\ Len(past) <= HistoryLimit /\ future \in Seq(Paper)
    /\ edits \in 0..MaxEdits /\ used \subseteq Node

PagesWhole ==
    /\ Whole(doc, used)
    /\ \A n \in DOMAIN past : Whole(past[n], used)
    /\ \A n \in DOMAIN future : Whole(future[n], used)

DragOK ==
    \/ snap = {}
    \/ \E s \in Paper : snap = {s} /\ Whole(s, used) /\ [s EXCEPT !.place = doc.place] = doc

Chosen ==
    /\ dragged \in CardIds \cup {None} /\ cards \subseteq CardIds \cap used
    /\ island \in doc.islands \cup {None} /\ picking \in BOOLEAN
    /\ editing \in CardIds \cup {None}

CanvasInv == PagesOK /\ PagesWhole /\ DragOK /\ Chosen

LEMMA CanvasBounds ==
  /\ HistoryLimit \in Nat /\ MaxEdits \in Nat /\ None \notin CardIds /\ None \notin IslandIds
  /\ CardIds \cap IslandIds = {}
  BY CanvasAssumption

-----------------------------------------------------------------------------
(* One change of a document at a time.                                      *)

LEMMA WholeGrows ==
  ASSUME NEW d, NEW u, NEW v, Whole(d, u), u \subseteq v
  PROVE  Whole(d, v)
  BY DEF Whole, Marked

(* What a change that touches neither cards nor islands as such, nor links, *)
(* order, parents and marks, leaves as it was.                              *)
LEMMA Redrawn ==
  ASSUME NEW d, NEW u, Whole(d, u), NEW e \in Paper,
         e.cards = d.cards, e.islands = d.islands, e.parent = d.parent, e.links = d.links,
         e.order = d.order, e.hold = d.hold, e.shelf = d.shelf
  PROVE  Whole(e, u)
  <1>1. Things(e) = Things(d) /\ Things(d) \subseteq u
    BY DEF Whole, Things
  <1>2. Linked(e) /\ Marked(e, u)
    BY DEF Whole, Linked, Marked
  <1>3. Ordered(e)
    BY <1>1 DEF Whole, Ordered
  <1>4. Nested(e)
    BY DEF Whole, Nested, Apart, Closed
  <1>5. QED
    BY <1>1, <1>2, <1>3, <1>4 DEF Whole

LEMMA AnnotatedWhole ==
  ASSUME NEW d, NEW u, Whole(d, u), NEW f \in [CardIds -> BOOLEAN]
  PROVE  Whole([d EXCEPT !.note = f], u)
  <1>1. [d EXCEPT !.note = f] \in Paper
    BY DEF Whole, Paper
  <1>2. QED
    BY <1>1, Redrawn DEF Whole, Paper

LEMMA PlacedWhole ==
  ASSUME NEW d, NEW u, Whole(d, u), NEW f \in [CardIds -> Places]
  PROVE  Whole([d EXCEPT !.place = f], u)
  <1>1. [d EXCEPT !.place = f] \in Paper
    BY DEF Whole, Paper
  <1>2. QED
    BY <1>1, Redrawn DEF Whole, Paper

LEMMA MembersWhole ==
  ASSUME NEW d, NEW u, Whole(d, u), NEW f \in [IslandIds -> SUBSET CardIds]
  PROVE  Whole([d EXCEPT !.member = f], u)
  <1>1. [d EXCEPT !.member = f] \in Paper
    BY DEF Whole, Paper
  <1>2. QED
    BY <1>1, Redrawn DEF Whole, Paper

LEMMA ConnectedWhole ==
  ASSUME NEW d, NEW u, Whole(d, u), NEW S \in SUBSET (Node \X Node)
  PROVE  Whole([d EXCEPT !.edges = S], u)
  <1>1. [d EXCEPT !.edges = S] \in Paper
    BY DEF Whole, Paper
  <1>2. QED
    BY <1>1, Redrawn DEF Whole, Paper

(* A mark follows the card, the shelf the identifier: they agree on cards.  *)
LEMMA HeldWhole ==
  ASSUME NEW d, NEW u, Whole(d, u), NEW S \in SUBSET CardIds, S \subseteq u,
         NEW h \in {None, "held", "shelved"}
  PROVE  Whole(Hold(d, S, h), u)
  <1> DEFINE f == [c \in CardIds |-> IF c \in S \cap d.cards THEN h ELSE d.hold[c]]
             s == IF h = "shelved" THEN d.shelf \cup S ELSE d.shelf \ S
             e == [d EXCEPT !.hold = f, !.shelf = s]
  <1>1. Hold(d, S, h) = e
    BY DEF Hold
  <1>2. f \in [CardIds -> {None, "held", "shelved"}] /\ s \in SUBSET CardIds
    BY DEF Whole, Paper
  <1> HIDE DEF f, s
  <1>3. /\ e \in Paper /\ e.cards = d.cards /\ e.islands = d.islands /\ e.parent = d.parent
        /\ e.links = d.links /\ e.order = d.order /\ e.hold = f /\ e.shelf = s
    BY <1>2 DEF Whole, Paper
  <1> HIDE DEF e
  <1>4. Things(e) = Things(d) /\ Things(d) \subseteq u
    BY <1>3 DEF Whole, Things
  <1>5. Linked(e)
    BY <1>3 DEF Whole, Linked
  <1>6. Ordered(e)
    BY <1>3, <1>4 DEF Whole, Ordered
  <1>7. Nested(e)
    BY <1>3 DEF Whole, Nested, Apart, Closed
  <1>8. Marked(e, u)
    <2>1. ASSUME NEW c \in e.cards PROVE c \in e.shelf <=> e.hold[c] = "shelved"
      <3>1. c \in d.cards /\ c \in CardIds /\ (c \in d.shelf <=> d.hold[c] = "shelved")
        BY <1>3 DEF Whole, Marked, Paper
      <3>2. CASE c \in S
        BY <3>1, <3>2, <1>3, CanvasBounds DEF f, s, None
      <3>3. CASE c \notin S
        BY <3>1, <3>3, <1>3 DEF f, s
      <3>4. QED
        BY <3>2, <3>3
    <2>2. ASSUME NEW c \in CardIds \ u PROVE c \notin e.shelf /\ e.hold[c] # "shelved"
      BY <1>3 DEF f, s, Whole, Marked
    <2>3. QED
      BY <2>1, <2>2 DEF Marked
  <1>9. QED
    BY <1>1, <1>3, <1>4, <1>5, <1>6, <1>7, <1>8 DEF Whole

-----------------------------------------------------------------------------
(* Reading orders.                                                          *)

LEMMA LeastNumber == \A T \in SUBSET Nat : T # {} => \E x \in T : \A y \in T : x <= y
  <1> SUFFICES ASSUME NEW T \in SUBSET Nat, T # {} PROVE \E x \in T : \A y \in T : x <= y
    OBVIOUS
  <1>1. PICK x \in T : \A y \in T : ~(<<y, x>> \in OpToRel(<, Nat))
    BY NatLessThanWellFounded, WFMin
  <1>2. ASSUME NEW y \in T PROVE x <= y
    <2>1. ~(y < x)
      BY <1>1, Zenon DEF OpToRel
    <2>2. QED
      BY <2>1
  <1>3. QED
    BY <1>2

(* The rows Keeping goes through exist: a first one that did not would have *)
(* a predecessor to be made of.                                             *)
LEMMA KeepingRows ==
  ASSUME NEW S, NEW s \in Seq(S), NEW T
  PROVE  \E g : /\ g = [n \in 0..Len(s) |-> IF n = 0 THEN <<>>
                            ELSE IF s[n] \in T THEN Append(g[n - 1], s[n]) ELSE g[n - 1]]
               /\ Keeping(s, T) = g[Len(s)]
  <1> DEFINE Step(n, t) == IF s[n] \in T THEN Append(t, s[n]) ELSE t
             Rows(g, k) == g = [n \in 0..k |-> IF n = 0 THEN <<>> ELSE Step(n, g[n - 1])]
             Unbuilt == {k \in Nat : ~\E g : Rows(g, k)}
  <1> HIDE DEF Step
  <1>1. Unbuilt = {}
    <2> SUFFICES ASSUME Unbuilt # {} PROVE FALSE
      OBVIOUS
    <2>1. PICK k \in Unbuilt : \A i \in Unbuilt : k <= i
      <3>1. Unbuilt \in SUBSET Nat
        OBVIOUS
      <3>2. QED
        BY <3>1, LeastNumber
    <2>2. k \in Nat /\ ~\E g : Rows(g, k)
      BY <2>1
    <2>3. CASE k = 0
      <3> DEFINE g == [n \in 0..0 |-> <<>>]
      <3>1. Rows(g, 0)
        OBVIOUS
      <3>2. QED
        BY <3>1, <2>2, <2>3
    <2>4. CASE k # 0
      <3>1. k - 1 \in Nat /\ k - 1 \notin Unbuilt
        <4> HIDE DEF Unbuilt
        <4>1. k - 1 \in Nat /\ k - 1 < k
          BY <2>2, <2>4
        <4>2. QED
          BY <4>1, <2>1, <2>2
      <3>2. PICK g : Rows(g, k - 1)
        BY <3>1
      <3> DEFINE h == [n \in 0..k |-> IF n = k THEN Step(k, g[k - 1]) ELSE g[n]]
      <3>3. ASSUME NEW n \in 0..k
            PROVE  h[n] = IF n = 0 THEN <<>> ELSE Step(n, h[n - 1])
        <4>1. CASE n = k
          <5>1. h[n] = Step(k, g[k - 1]) /\ h[n - 1] = g[k - 1] /\ n # 0
            BY <4>1, <2>2, <2>4
          <5>2. QED
            BY <5>1, <4>1
        <4>2. CASE n # k
          <5>1. n \in 0..(k - 1) /\ h[n] = g[n] /\ (n # 0 => h[n - 1] = g[n - 1])
            BY <4>2, <2>2, <3>3
          <5>2. g[n] = IF n = 0 THEN <<>> ELSE Step(n, g[n - 1])
            BY <5>1, <3>2
          <5>3. QED
            BY <5>1, <5>2
        <4>3. QED
          BY <4>1, <4>2
      <3>4. Rows(h, k)
        BY <3>3
      <3>5. QED
        BY <3>4, <2>2
    <2>5. QED
      BY <2>3, <2>4
  <1>2. \E g : Rows(g, Len(s))
    <2>1. Len(s) \in Nat
      OBVIOUS
    <2>2. QED
      BY <1>1, <2>1
  <1> DEFINE U == CHOOSE g : Rows(g, Len(s))
  <1>3. Rows(U, Len(s))
    BY <1>2
  <1>4. Keeping(s, T) = U[Len(s)]
    BY Zenon DEF Keeping, Step
  <1> HIDE DEF U
  <1>5. QED
    BY <1>3, <1>4 DEF Step

(* Keeping keeps what it should, all of it, and each entry once.            *)
LEMMA KeepingIs ==
  ASSUME NEW S, NEW s \in Seq(S), NEW T
  PROVE  /\ Keeping(s, T) \in Seq(S)
         /\ \A n \in DOMAIN Keeping(s, T) : Keeping(s, T)[n] \in T /\ \E m \in DOMAIN s : s[m] = Keeping(s, T)[n]
         /\ \A m \in DOMAIN s : s[m] \in T => \E n \in DOMAIN Keeping(s, T) : Keeping(s, T)[n] = s[m]
         /\ Once(s) => Once(Keeping(s, T))
  <1>1. PICK g : /\ g = [n \in 0..Len(s) |-> IF n = 0 THEN <<>>
                            ELSE IF s[n] \in T THEN Append(g[n - 1], s[n]) ELSE g[n - 1]]
                 /\ Keeping(s, T) = g[Len(s)]
    BY KeepingRows
  <1> DEFINE Good(n) ==
               /\ g[n] \in Seq(S)
               /\ \A i \in DOMAIN g[n] : g[n][i] \in T /\ \E m \in 1..n : s[m] = g[n][i]
               /\ \A m \in 1..n : s[m] \in T => \E i \in DOMAIN g[n] : g[n][i] = s[m]
               /\ Once(s) => Once(g[n])
             Bad == {n \in 0..Len(s) : ~Good(n)}
  <1>2. Len(s) \in Nat /\ DOMAIN s = 1..Len(s) /\ \A n \in 1..Len(s) : s[n] \in S
    OBVIOUS
  <1>3. Good(0)
    <2>1. g[0] = <<>>
      BY <1>1, <1>2
    <2>2. QED
      BY <2>1 DEF Once
  <1>4. ASSUME NEW k \in 1..Len(s), Good(k - 1) PROVE Good(k)
    <2>1. PICK t \in Seq(S) : t = g[k - 1]
      BY <1>4
    <2>2. /\ \A i \in DOMAIN t : t[i] \in T /\ \E m \in 1..(k - 1) : s[m] = t[i]
          /\ \A m \in 1..(k - 1) : s[m] \in T => \E i \in DOMAIN t : t[i] = s[m]
          /\ Once(s) => Once(t)
      BY <1>4, <2>1
    <2>3. g[k] = IF s[k] \in T THEN Append(t, s[k]) ELSE t
      <3>1. k \in 0..Len(s) /\ k # 0
        BY <1>2
      <3>2. g[k] = IF s[k] \in T THEN Append(g[k - 1], s[k]) ELSE g[k - 1]
        BY <1>1, <3>1, Zenon
      <3>3. QED
        BY <2>1, <3>2, Zenon
    <2> HIDE DEF Good
    <2>4. k \in Nat /\ k - 1 \in Nat /\ s[k] \in S /\ k \in DOMAIN s /\ \A m \in 1..k : m \in 1..(k - 1) \/ m = k
      BY <1>2
    <2>5. CASE s[k] \notin T
      <3>1. g[k] = t /\ \A m \in 1..(k - 1) : m \in 1..k
        BY <2>3, <2>4, <2>5
      <3>2. QED
        BY <2>2, <2>4, <2>5, <3>1 DEF Good
    <2>6. CASE s[k] \in T
      <3> DEFINE a == Append(t, s[k])
      <3>1. /\ a \in Seq(S) /\ DOMAIN a = 1..(Len(t) + 1) /\ DOMAIN t = 1..Len(t) /\ Len(t) \in Nat
            /\ \A i \in DOMAIN t : a[i] = t[i] /\ i \in DOMAIN a
            /\ a[Len(t) + 1] = s[k] /\ Len(t) + 1 \in DOMAIN a
            /\ \A i \in DOMAIN a : i \in DOMAIN t \/ i = Len(t) + 1
        BY <2>4
      <3> HIDE DEF a
      <3>2. g[k] = a
        BY <2>3, <2>6 DEF a
      <3>3. \A i \in DOMAIN a : a[i] \in T /\ \E m \in 1..k : s[m] = a[i]
        <4> TAKE i \in DOMAIN a
        <4>1. CASE i \in DOMAIN t
          <5>1. PICK m \in 1..(k - 1) : s[m] = t[i]
            BY <4>1, <2>2
          <5>2. m \in 1..k
            BY <2>4
          <5>3. QED
            BY <4>1, <2>2, <3>1, <5>1, <5>2
        <4>2. CASE i = Len(t) + 1
          BY <4>2, <2>4, <2>6, <3>1
        <4>3. QED
          BY <4>1, <4>2, <3>1
      <3>4. \A m \in 1..k : s[m] \in T => \E i \in DOMAIN a : a[i] = s[m]
        BY <2>2, <2>4, <3>1
      <3>5. ASSUME Once(s) PROVE Once(a)
        <4>1. \A i \in DOMAIN t : t[i] # s[k]
          <5> SUFFICES ASSUME NEW i \in DOMAIN t, t[i] = s[k] PROVE FALSE
            OBVIOUS
          <5>1. PICK m \in 1..(k - 1) : s[m] = t[i]
            BY <2>2
          <5>2. m \in DOMAIN s /\ m # k /\ k \in DOMAIN s /\ s[m] = s[k]
            BY <5>1, <1>2, <2>4
          <5>3. QED
            BY <5>2, <3>5 DEF Once
        <4>2. Once(t)
          BY <2>2, <3>5
        <4>3. ASSUME NEW m \in DOMAIN a, NEW n \in DOMAIN a, a[m] = a[n] PROVE m = n
          <5>1. CASE m \in DOMAIN t /\ n \in DOMAIN t
            BY <5>1, <4>2, <4>3, <3>1 DEF Once
          <5>2. CASE m \in DOMAIN t /\ n = Len(t) + 1
            BY <5>2, <4>1, <4>3, <3>1
          <5>3. CASE m = Len(t) + 1 /\ n \in DOMAIN t
            BY <5>3, <4>1, <4>3, <3>1
          <5>4. QED
            BY <5>1, <5>2, <5>3, <3>1
        <4>4. QED
          BY <4>3 DEF Once
      <3>6. QED
        BY <3>1, <3>2, <3>3, <3>4, <3>5 DEF Good
    <2>7. QED
      BY <2>5, <2>6
  <1> HIDE DEF Good
  <1>5. Bad = {}
    <2> SUFFICES ASSUME Bad # {} PROVE FALSE
      OBVIOUS
    <2>1. PICK k \in Bad : \A i \in Bad : k <= i
      <3>1. Bad \in SUBSET Nat
        BY <1>2
      <3>2. QED
        BY <3>1, LeastNumber
    <2>2. k \in 0..Len(s) /\ ~Good(k) /\ k # 0
      BY <2>1, <1>3
    <2>3. k \in 1..Len(s) /\ k - 1 \in 0..Len(s) /\ k - 1 < k
      BY <2>2, <1>2
    <2>4. Good(k - 1)
      BY <2>1, <2>3
    <2>5. QED
      BY <1>4, <2>2, <2>3, <2>4
  <1>6. Good(Len(s))
    BY <1>2, <1>5
  <1>7. QED
    BY <1>1, <1>2, <1>6 DEF Good

LEMMA ToSetIs ==
  ASSUME NEW S, NEW s \in Seq(S)
  PROVE  ToSet(s) \subseteq S /\ \A x : x \in ToSet(s) <=> \E n \in DOMAIN s : s[n] = x
  <1>1. \A n \in DOMAIN s : s[n] \in S
    OBVIOUS
  <1>2. QED
    BY <1>1 DEF ToSet

(* A reading order that names what is there, each once.                     *)
LEMMA OrderedWhole ==
  ASSUME NEW d, NEW u, Whole(d, u), NEW s \in Seq(Node), Once(s),
         \A n \in DOMAIN s : s[n] \in Things(d)
  PROVE  Whole([d EXCEPT !.order = s], u)
  <1> DEFINE e == [d EXCEPT !.order = s]
  <1>1. /\ e \in Paper /\ e.cards = d.cards /\ e.islands = d.islands /\ e.parent = d.parent
        /\ e.links = d.links /\ e.order = s /\ e.hold = d.hold /\ e.shelf = d.shelf
    BY DEF Whole, Paper
  <1> HIDE DEF e
  <1>2. Things(e) = Things(d) /\ Things(d) \subseteq u
    BY <1>1 DEF Whole, Things
  <1>3. Linked(e) /\ Marked(e, u)
    BY <1>1 DEF Whole, Linked, Marked
  <1>4. Ordered(e)
    BY <1>1, <1>2 DEF Ordered
  <1>5. Nested(e)
    BY <1>1 DEF Whole, Nested, Apart, Closed
  <1>6. QED
    BY <1>1, <1>2, <1>3, <1>4, <1>5 DEF Whole, e

LEMMA KeptOrder ==
  ASSUME NEW d, NEW u, Whole(d, u), NEW T
  PROVE  /\ Keeping(d.order, T) \in Seq(Node) /\ Once(Keeping(d.order, T))
         /\ \A n \in DOMAIN Keeping(d.order, T) :
                Keeping(d.order, T)[n] \in T \cap Things(d)
  <1>1. d.order \in Seq(Node) /\ Once(d.order) /\ \A n \in DOMAIN d.order : d.order[n] \in Things(d)
    BY DEF Whole, Paper, Ordered
  <1>2. QED
    BY <1>1, KeepingIs

LEMMA DroppedOrder ==
  ASSUME NEW d, NEW u, Whole(d, u), NEW x
  PROVE  /\ Dropping(d.order, x) \in Seq(Node) /\ Once(Dropping(d.order, x))
         /\ \A n \in DOMAIN Dropping(d.order, x) :
                Dropping(d.order, x)[n] \in Things(d) /\ Dropping(d.order, x)[n] # x
  <1> DEFINE T == ToSet(d.order) \ {x}
  <1>1. d.order \in Seq(Node) /\ Dropping(d.order, x) = Keeping(d.order, T)
    BY DEF Whole, Paper, Dropping
  <1>4. x \notin T
    OBVIOUS
  <1> HIDE DEF T
  <1>5. \A n \in DOMAIN Keeping(d.order, T) : Keeping(d.order, T)[n] \in T \cap Things(d)
    BY KeptOrder
  <1> DEFINE q == Keeping(d.order, T)
  <1>6. q \in Seq(Node) /\ Once(q)
    BY KeptOrder
  <1>7. \A n \in DOMAIN q : q[n] \in T /\ q[n] \in Things(d) /\ q[n] # x
    BY <1>4, <1>5
  <1>8. Dropping(d.order, x) = q
    BY <1>1
  <1> HIDE DEF q
  <1>9. QED
    BY <1>6, <1>7, <1>8 DEF T

LEMMA DroppedLeft ==
  ASSUME NEW d, NEW u, Whole(d, u), NEW x, NEW y \in ToSet(d.order), y # x
  PROVE  \E n \in DOMAIN Dropping(d.order, x) : Dropping(d.order, x)[n] = y
  <1> DEFINE T == ToSet(d.order) \ {x}
  <1>1. d.order \in Seq(Node) /\ Dropping(d.order, x) = Keeping(d.order, T)
    BY DEF Whole, Paper, Dropping
  <1>2. \E m \in DOMAIN d.order : d.order[m] = y /\ d.order[m] \in T
    BY <1>1, ToSetIs
  <1> HIDE DEF T
  <1>3. \E n \in DOMAIN Keeping(d.order, T) : Keeping(d.order, T)[n] = y
    BY <1>1, <1>2, KeepingIs
  <1>4. QED
    BY <1>1, <1>3

LEMMA AppendedOnce ==
  ASSUME NEW S, NEW s \in Seq(S), Once(s), NEW e \in S, \A n \in DOMAIN s : s[n] # e
  PROVE  /\ Append(s, e) \in Seq(S) /\ Once(Append(s, e))
         /\ \A n \in DOMAIN Append(s, e) : Append(s, e)[n] = e \/ \E m \in DOMAIN s : Append(s, e)[n] = s[m]
  <1> DEFINE a == Append(s, e)
  <1>1. /\ a \in Seq(S) /\ DOMAIN a = 1..(Len(s) + 1) /\ DOMAIN s = 1..Len(s) /\ Len(s) \in Nat
        /\ \A i \in DOMAIN s : a[i] = s[i] /\ i \in DOMAIN a
        /\ a[Len(s) + 1] = e
        /\ \A i \in DOMAIN a : i \in DOMAIN s \/ i = Len(s) + 1
    OBVIOUS
  <1> HIDE DEF a
  <1>2. Once(a)
    <2>1. ASSUME NEW m \in DOMAIN a, NEW n \in DOMAIN a, a[m] = a[n] PROVE m = n
      <3>1. CASE m \in DOMAIN s /\ n \in DOMAIN s
        BY <3>1, <2>1, <1>1 DEF Once
      <3>2. CASE m \in DOMAIN s /\ n = Len(s) + 1
        BY <3>2, <2>1, <1>1
      <3>3. CASE m = Len(s) + 1 /\ n \in DOMAIN s
        BY <3>3, <2>1, <1>1
      <3>4. QED
        BY <3>1, <3>2, <3>3, <1>1
    <2>2. QED
      BY <2>1 DEF Once
  <1>3. \A n \in DOMAIN a : a[n] = e \/ \E m \in DOMAIN s : a[n] = s[m]
    BY <1>1
  <1>4. QED
    BY <1>1, <1>2, <1>3 DEF a

LEMMA InsertedOnce ==
  ASSUME NEW S, NEW s \in Seq(S), Once(s), NEW e \in S, \A n \in DOMAIN s : s[n] # e,
         NEW k \in 1..(Len(s) + 1)
  PROVE  /\ InsertAt(s, k, e) \in Seq(S) /\ Once(InsertAt(s, k, e))
         /\ \A n \in DOMAIN InsertAt(s, k, e) :
                InsertAt(s, k, e)[n] = e \/ \E m \in DOMAIN s : InsertAt(s, k, e)[n] = s[m]
  <1> DEFINE a == InsertAt(s, k, e)
             At(n) == IF n < k THEN n ELSE n - 1
  <1>1. /\ a \in Seq(S) /\ DOMAIN a = 1..(Len(s) + 1) /\ DOMAIN s = 1..Len(s) /\ Len(s) \in Nat
        /\ \A n \in DOMAIN a : n # k => At(n) \in DOMAIN s /\ a[n] = s[At(n)]
        /\ a[k] = e
    <2> DEFINE l == SubSeq(s, 1, k - 1)
               r == SubSeq(s, k, Len(s))
    <2>1. /\ l \in Seq(S) /\ Len(l) = k - 1 /\ \A n \in 1..(k - 1) : l[n] = s[n]
      OBVIOUS
    <2>2. /\ r \in Seq(S) /\ Len(r) = Len(s) - k + 1
          /\ \A n \in 1..(Len(s) - k + 1) : r[n] = s[k + n - 1]
      OBVIOUS
    <2> HIDE DEF l, r
    <2> DEFINE b == l \o <<e>>
    <2>3. b \in Seq(S) /\ Len(b) = k /\ b[k] = e /\ \A n \in 1..(k - 1) : b[n] = s[n]
      BY <2>1
    <2> HIDE DEF b
    <2>4. a = b \o r
      BY DEF InsertAt, b, l, r
    <2>5. /\ b \o r \in Seq(S) /\ Len(b \o r) = Len(s) + 1 /\ Len(s) \in Nat
          /\ \A n \in 1..k : (b \o r)[n] = b[n]
          /\ \A n \in (k + 1)..(Len(s) + 1) : (b \o r)[n] = r[n - k]
      BY <2>2, <2>3
    <2> DEFINE c == b \o r
    <2> HIDE DEF c
    <2>6. /\ c \in Seq(S) /\ Len(c) = Len(s) + 1 /\ Len(s) \in Nat
          /\ \A n \in 1..k : c[n] = b[n]
          /\ \A n \in (k + 1)..(Len(s) + 1) : c[n] = r[n - k]
      BY <2>5 DEF c
    <2>7. DOMAIN c = 1..(Len(s) + 1) /\ DOMAIN s = 1..Len(s)
      BY <2>6
    <2>8. ASSUME NEW n \in 1..(Len(s) + 1), n # k
          PROVE  At(n) \in 1..Len(s) /\ c[n] = s[At(n)]
      <3>1. CASE n < k
        <4>1. n \in 1..k /\ n \in 1..(k - 1) /\ n \in 1..Len(s)
          BY <3>1, <2>6
        <4>2. QED
          BY <4>1, <3>1, <2>3, <2>6
      <3>2. CASE ~(n < k)
        <4>1. /\ n \in (k + 1)..(Len(s) + 1) /\ n - k \in 1..(Len(s) - k + 1)
              /\ k + (n - k) - 1 = n - 1 /\ n - 1 \in 1..Len(s)
          BY <3>2, <2>8, <2>6
        <4>2. c[n] = r[n - k] /\ r[n - k] = s[k + (n - k) - 1]
          BY <4>1, <2>2, <2>6
        <4>3. QED
          BY <4>1, <4>2, <3>2
      <3>3. QED
        BY <3>1, <3>2
    <2>9. a = c /\ c[k] = e
      BY <2>3, <2>4, <2>6 DEF c
    <2> HIDE DEF At, a
    <2>10. QED
      BY <2>6, <2>7, <2>8, <2>9
  <1> HIDE DEF a
  <1>2. \A m, n \in DOMAIN a : m # k /\ n # k /\ At(m) = At(n) => m = n
    BY <1>1
  <1> HIDE DEF At
  <1>3. Once(a)
    <2>1. ASSUME NEW m \in DOMAIN a, NEW n \in DOMAIN a, a[m] = a[n] PROVE m = n
      <3>1. CASE m # k /\ n # k
        <4>1. At(m) \in DOMAIN s /\ At(n) \in DOMAIN s /\ s[At(m)] = s[At(n)]
          BY <3>1, <2>1, <1>1
        <4>2. At(m) = At(n)
          BY <4>1 DEF Once
        <4>3. QED
          BY <4>2, <3>1, <1>2
      <3>2. CASE m # k /\ n = k
        BY <3>2, <2>1, <1>1
      <3>3. CASE m = k /\ n # k
        BY <3>3, <2>1, <1>1
      <3>4. QED
        BY <3>1, <3>2, <3>3
    <2>2. QED
      BY <2>1 DEF Once
  <1>4. \A n \in DOMAIN a : a[n] = e \/ \E m \in DOMAIN s : a[n] = s[m]
    BY <1>1
  <1>5. QED
    BY <1>1, <1>3, <1>4 DEF a

(* A move puts the entry before or after the other, both of the order.      *)
LEMMA MovedWhole ==
  ASSUME NEW d, NEW u, Whole(d, u), NEW e \in ToSet(d.order), NEW t \in ToSet(d.order), e # t,
         NEW before \in BOOLEAN
  PROVE  LET rest == Dropping(d.order, e)
             at == CHOOSE n \in 1..Len(rest) : rest[n] = t
         IN  Whole([d EXCEPT !.order = InsertAt(rest, IF before THEN at ELSE at + 1, e)], u)
  <1> DEFINE rest == Dropping(d.order, e)
             at == CHOOSE n \in 1..Len(rest) : rest[n] = t
             k == IF before THEN at ELSE at + 1
             s == InsertAt(rest, k, e)
  <1>1. /\ rest \in Seq(Node) /\ Once(rest)
        /\ \A n \in DOMAIN rest : rest[n] \in Things(d) /\ rest[n] # e
        /\ \E n \in DOMAIN rest : rest[n] = t
    <2> HIDE DEF at, k, s
    <2>2. rest \in Seq(Node) /\ Once(rest)
      BY DroppedOrder
    <2>3. \A n \in DOMAIN rest : rest[n] \in Things(d) /\ rest[n] # e
      BY DroppedOrder
    <2>4. \E n \in DOMAIN rest : rest[n] = t
      BY DroppedLeft
    <2> HIDE DEF rest
    <2>5. QED
      BY <2>2, <2>3, <2>4
  <1>2. d.order \in Seq(Node) /\ e \in Node /\ e \in Things(d)
    <2>1. d.order \in Seq(Node)
      BY DEF Whole, Paper
    <2>2. PICK n \in DOMAIN d.order : d.order[n] = e
      BY <2>1, ToSetIs
    <2>3. QED
      BY <2>1, <2>2 DEF Whole, Ordered
  <1> HIDE DEF rest
  <1>3. DOMAIN rest = 1..Len(rest) /\ Len(rest) \in Nat
    BY <1>1
  <1>4. \E n \in 1..Len(rest) : rest[n] = t
    BY <1>1, <1>3
  <1>5. at \in 1..Len(rest)
    BY <1>4
  <1> HIDE DEF at
  <1>6. k \in 1..(Len(rest) + 1)
    BY <1>3, <1>5
  <1> HIDE DEF k
  <1>7. /\ s \in Seq(Node) /\ Once(s)
        /\ \A n \in DOMAIN s : s[n] = e \/ \E m \in DOMAIN rest : s[n] = rest[m]
    BY <1>1, <1>2, <1>6, InsertedOnce
  <1> HIDE DEF s
  <1>8. \A n \in DOMAIN s : s[n] \in Things(d)
    BY <1>1, <1>2, <1>7
  <1>9. Whole([d EXCEPT !.order = s], u)
    BY <1>7, <1>8, OrderedWhole
  <1>10. QED
    BY <1>9 DEF s, k, at, rest

(* Evidence between two different cards that are there.                     *)
LEMMA LinkedWhole ==
  ASSUME NEW d, NEW u, Whole(d, u), NEW L \in SUBSET (CardIds \X CardIds \X Kinds),
         \A l \in L : l[1] \in d.cards /\ l[2] \in d.cards /\ l[1] # l[2]
  PROVE  Whole([d EXCEPT !.links = L], u)
  <1> DEFINE e == [d EXCEPT !.links = L]
  <1>1. /\ e \in Paper /\ e.cards = d.cards /\ e.islands = d.islands /\ e.parent = d.parent
        /\ e.links = L /\ e.order = d.order /\ e.hold = d.hold /\ e.shelf = d.shelf
    BY DEF Whole, Paper
  <1> HIDE DEF e
  <1>2. Things(e) = Things(d) /\ Things(d) \subseteq u
    BY <1>1 DEF Whole, Things
  <1>3. Linked(e) /\ Marked(e, u)
    BY <1>1 DEF Whole, Linked, Marked
  <1>4. Ordered(e)
    BY <1>1, <1>2 DEF Whole, Ordered
  <1>5. Nested(e)
    BY <1>1 DEF Whole, Nested, Apart, Closed
  <1>6. QED
    BY <1>1, <1>2, <1>3, <1>4, <1>5 DEF Whole, e

(* A card with an identifier nothing had.                                   *)
LEMMA CardAdded ==
  ASSUME NEW d, NEW u, Whole(d, u), NEW r \in CardIds \ u, NEW e \in Paper,
         e.cards = d.cards \cup {r}, e.islands = d.islands, e.parent = d.parent,
         e.links = d.links, e.order = d.order, e.hold = d.hold, e.shelf = d.shelf
  PROVE  Whole(e, u \cup {r})
  <1>1. Things(d) \subseteq u /\ Things(e) = Things(d) \cup {r}
    BY DEF Whole, Things
  <1>2. Linked(e)
    BY DEF Whole, Linked
  <1>3. Ordered(e)
    BY <1>1 DEF Whole, Ordered
  <1>4. Nested(e)
    BY DEF Whole, Nested, Apart, Closed
  <1>5. Marked(e, u \cup {r})
    <2>1. r \notin d.shelf /\ d.hold[r] # "shelved"
      BY DEF Whole, Marked
    <2>2. QED
      BY <2>1 DEF Whole, Marked
  <1>6. QED
    BY <1>1, <1>2, <1>3, <1>4, <1>5 DEF Whole

-----------------------------------------------------------------------------
(* Islands in islands.                                                      *)

(* An island with an identifier nothing had lies in nothing.                *)
LEMMA IslandAdded ==
  ASSUME NEW d, NEW u, Whole(d, u), NEW i \in IslandIds \ u, NEW S \in SUBSET CardIds
  PROVE  Whole([d EXCEPT !.islands = @ \cup {i}, !.member[i] = S], u \cup {i})
  <1> DEFINE e == [d EXCEPT !.islands = @ \cup {i}, !.member[i] = S]
  <1>1. /\ e \in Paper /\ e.cards = d.cards /\ e.islands = d.islands \cup {i}
        /\ e.parent = d.parent /\ e.links = d.links /\ e.order = d.order
        /\ e.hold = d.hold /\ e.shelf = d.shelf
    BY DEF Whole, Paper
  <1> HIDE DEF e
  <1>2. Things(d) \subseteq u /\ Things(e) = Things(d) \cup {i} /\ i \notin d.islands
    BY <1>1 DEF Whole, Things
  <1>3. Linked(e) /\ Marked(e, u \cup {i})
    BY <1>1 DEF Whole, Linked, Marked
  <1>4. Ordered(e)
    BY <1>1, <1>2 DEF Whole, Ordered
  <1>5. d.parent[i] = None /\ d.islands \subseteq IslandIds
    BY <1>2 DEF Whole, Nested, Paper
  <1>6. ASSUME NEW j \in e.islands PROVE Apart(e, j)
    <2>1. CASE j = i
      BY <2>1, <1>1, <1>5 DEF Apart
    <2>2. CASE j # i
      <3>1. SUFFICES ASSUME d.parent[j] # None
                     PROVE  \E C \in SUBSET (IslandIds \cup {None}) :
                                Closed(e, C) /\ d.parent[j] \in C /\ j \notin C
        BY <1>1 DEF Apart
      <3>2. PICK C \in SUBSET (IslandIds \cup {None}) :
                    Closed(d, C) /\ d.parent[j] \in C /\ j \notin C
        BY <2>2, <3>1, <1>1 DEF Whole, Nested, Apart
      <3>3. Closed(e, C \cup {None})
        BY <3>2, <1>1, <1>5, CanvasBounds DEF Closed
      <3>4. j \in IslandIds /\ j \notin C \cup {None}
        BY <3>2, <1>1, <1>5, CanvasBounds
      <3>5. QED
        BY <3>2, <3>3, <3>4
    <2>3. QED
      BY <2>1, <2>2
  <1>7. Nested(e)
    BY <1>1, <1>6 DEF Whole, Nested
  <1>8. QED
    BY <1>1, <1>2, <1>3, <1>4, <1>7 DEF Whole, e

(* What is left when islands go, and those that lay in them are let go of   *)
(* nothing else.                                                            *)
LEMMA NestedLeft ==
  ASSUME NEW d, NEW u, Whole(d, u), NEW gone, NEW e, e.islands = d.islands \ gone,
         e.parent = [i \in IslandIds |-> IF i \in gone THEN None ELSE d.parent[i]]
  PROVE  Nested(e)
  <1>1. d.islands \subseteq IslandIds
    BY DEF Whole, Paper
  <1>2. ASSUME NEW j \in e.islands PROVE Apart(e, j)
    <2>1. SUFFICES ASSUME d.parent[j] # None
                   PROVE  \E C \in SUBSET (IslandIds \cup {None}) :
                              Closed(e, C) /\ d.parent[j] \in C /\ j \notin C
      BY <1>1 DEF Apart
    <2>2. PICK C \in SUBSET (IslandIds \cup {None}) :
                  Closed(d, C) /\ d.parent[j] \in C /\ j \notin C
      BY <2>1 DEF Whole, Nested, Apart
    <2>3. Closed(e, C)
      BY <2>2, <1>1 DEF Closed
    <2>4. QED
      BY <2>2, <2>3
  <1>3. QED
    BY <1>1, <1>2 DEF Whole, Nested

LEMMA IslandDeleted ==
  ASSUME NEW d, NEW u, Whole(d, u), NEW i
  PROVE  Whole([Without(d, {i}) EXCEPT !.order = Dropping(@, i)], u)
  <1> DEFINE e == [Without(d, {i}) EXCEPT !.order = Dropping(@, i)]
             q == Dropping(d.order, i)
             f == [j \in IslandIds |-> IF j \in {i} THEN {} ELSE d.member[j]]
             g == [j \in IslandIds |-> IF j \in {i} THEN None ELSE d.parent[j]]
  <1>1. /\ q \in Seq(Node) /\ Once(q) /\ \A n \in DOMAIN q : q[n] \in Things(d) /\ q[n] # i
    BY DroppedOrder
  <1>2. e = [d EXCEPT !.islands = d.islands \ {i},
                      !.member = f, !.parent = g, !.order = q]
    BY DEF Without, Whole, Paper
  <1>10. f \in [IslandIds -> SUBSET CardIds] /\ g \in [IslandIds -> IslandIds \cup {None}]
    BY DEF Whole, Paper
  <1> HIDE DEF q, e, f, g
  <1>3. /\ e \in Paper /\ e.cards = d.cards /\ e.islands = d.islands \ {i}
        /\ e.parent = g
        /\ e.links = d.links /\ e.order = q /\ e.hold = d.hold /\ e.shelf = d.shelf
    BY <1>1, <1>2, <1>10 DEF Whole, Paper
  <1>4. Things(d) \subseteq u /\ Things(d) \ {i} \subseteq Things(e) /\ Things(e) \subseteq u
    BY <1>3 DEF Whole, Things
  <1>5. Linked(e) /\ Marked(e, u)
    BY <1>3 DEF Whole, Linked, Marked
  <1>6. Ordered(e)
    BY <1>1, <1>3, <1>4 DEF Ordered
  <1>7. Nested(e)
    BY <1>3, NestedLeft DEF g
  <1>8. QED
    BY <1>3, <1>4, <1>5, <1>6, <1>7 DEF Whole, e

(* The rows Above goes through exist.                                       *)
LEMMA AboveRows ==
  ASSUME NEW d, NEW p
  PROVE  \E g : /\ g = [n \in 0..Cardinality(IslandIds) |-> IF n = 0 THEN {p}
                            ELSE g[n - 1] \cup {d.parent[j] : j \in g[n - 1] \cap d.islands}]
               /\ Above(d, p) = g[Cardinality(IslandIds)]
  <1> DEFINE N == Cardinality(IslandIds)
             Step(T) == T \cup {d.parent[j] : j \in T \cap d.islands}
             Rows(g, k) == g = [n \in 0..k |-> IF n = 0 THEN {p} ELSE Step(g[n - 1])]
             Unbuilt == {k \in Nat : ~\E g : Rows(g, k)}
  <1> HIDE DEF Step
  <1>1. Unbuilt = {}
    <2> SUFFICES ASSUME Unbuilt # {} PROVE FALSE
      OBVIOUS
    <2>1. PICK k \in Unbuilt : \A i \in Unbuilt : k <= i
      <3>1. Unbuilt \in SUBSET Nat
        OBVIOUS
      <3>2. QED
        BY <3>1, LeastNumber
    <2>2. k \in Nat /\ ~\E g : Rows(g, k)
      BY <2>1
    <2>3. CASE k = 0
      <3> DEFINE g == [n \in 0..0 |-> {p}]
      <3>1. Rows(g, 0)
        OBVIOUS
      <3>2. QED
        BY <3>1, <2>2, <2>3
    <2>4. CASE k # 0
      <3>1. k - 1 \in Nat /\ k - 1 \notin Unbuilt
        <4> HIDE DEF Unbuilt
        <4>1. k - 1 \in Nat /\ k - 1 < k
          BY <2>2, <2>4
        <4>2. QED
          BY <4>1, <2>1, <2>2
      <3>2. PICK g : Rows(g, k - 1)
        BY <3>1
      <3> DEFINE h == [n \in 0..k |-> IF n = k THEN Step(g[k - 1]) ELSE g[n]]
      <3>3. ASSUME NEW n \in 0..k
            PROVE  h[n] = IF n = 0 THEN {p} ELSE Step(h[n - 1])
        <4>1. CASE n = k
          <5>1. h[n] = Step(g[k - 1]) /\ h[n - 1] = g[k - 1] /\ n # 0
            BY <4>1, <2>2, <2>4
          <5>2. QED
            BY <5>1, <4>1
        <4>2. CASE n # k
          <5>1. n \in 0..(k - 1) /\ h[n] = g[n] /\ (n # 0 => h[n - 1] = g[n - 1])
            BY <4>2, <2>2, <3>3
          <5>2. g[n] = IF n = 0 THEN {p} ELSE Step(g[n - 1])
            BY <5>1, <3>2
          <5>3. QED
            BY <5>1, <5>2
        <4>3. QED
          BY <4>1, <4>2
      <3>4. Rows(h, k)
        BY <3>3
      <3>5. QED
        BY <3>4, <2>2
    <2>5. QED
      BY <2>3, <2>4
  <1>2. N \in Nat
    BY CanvasAssumption, FS_CardinalityType
  <1>3. \E g : Rows(g, N)
    BY <1>1, <1>2
  <1> DEFINE U == CHOOSE g : Rows(g, N)
  <1>4. Rows(U, N)
    BY <1>3
  <1>5. Above(d, p) = U[N]
    BY Zenon DEF Above, Step
  <1> HIDE DEF U
  <1>6. QED
    BY <1>4, <1>5 DEF Step

(* Following parents finds every island above p, and stays in whatever      *)
(* closed set p is in.  A row that were not closed would have grown at each *)
(* step before it, past the number of islands there are.                    *)
LEMMA AboveIs ==
  ASSUME NEW d, NEW u, Whole(d, u), NEW p \in IslandIds
  PROVE  /\ Above(d, p) \in SUBSET (IslandIds \cup {None})
         /\ Closed(d, Above(d, p)) /\ p \in Above(d, p)
         /\ \A C : Closed(d, C) /\ p \in C => Above(d, p) \subseteq C
  <1> DEFINE N == Cardinality(IslandIds)
             Step(T) == T \cup {d.parent[j] : j \in T \cap d.islands}
             U == IslandIds \cup {None}
  <1>1. PICK g : /\ g = [n \in 0..N |-> IF n = 0 THEN {p} ELSE Step(g[n - 1])]
                 /\ Above(d, p) = g[N]
    BY AboveRows
  <1>2. /\ N \in Nat /\ IsFiniteSet(IslandIds) /\ IsFiniteSet(U) /\ Cardinality(U) = N + 1
    BY CanvasAssumption, CanvasBounds, FS_CardinalityType, FS_AddElement
  <1>3. g[0] = {p}
    BY <1>1, <1>2
  <1>4. ASSUME NEW n \in 1..N PROVE g[n] = Step(g[n - 1])
    <2>1. n \in 0..N /\ n # 0
      BY <1>2
    <2> HIDE DEF Step
    <2>2. QED
      BY <1>1, <2>1
  <1>5. \A j \in d.islands : d.parent[j] \in U
    BY DEF Whole, Paper
  <1> DEFINE Good(n) ==
               /\ g[n] \in SUBSET U /\ p \in g[n]
               /\ \A C : Closed(d, C) /\ p \in C => g[n] \subseteq C
               /\ Closed(d, g[n]) \/ Cardinality(g[n]) >= n + 1
             Bad == {n \in 0..N : ~Good(n)}
  <1>6. Good(0)
    <2>1. Cardinality({p}) = 1
      BY FS_Singleton
    <2>2. QED
      BY <1>3, <2>1
  <1>7. ASSUME NEW n \in 1..N, Good(n - 1) PROVE Good(n)
    <2> DEFINE T == g[n - 1]
    <2>1. /\ T \in SUBSET U /\ p \in T
          /\ \A C : Closed(d, C) /\ p \in C => T \subseteq C
          /\ Closed(d, T) \/ Cardinality(T) >= n
      BY <1>7, <1>2
    <2>2. g[n] = Step(T)
      BY <1>4
    <2> HIDE DEF T
    <2>3. g[n] \in SUBSET U /\ p \in g[n]
      BY <2>1, <2>2, <1>5
    <2>4. ASSUME NEW C, Closed(d, C), p \in C PROVE g[n] \subseteq C
      BY <2>1, <2>2, <2>4 DEF Closed
    <2>5. CASE Closed(d, T)
      <3>1. g[n] = T
        BY <2>2, <2>5 DEF Closed
      <3>2. QED
        BY <2>3, <2>4, <2>5, <3>1
    <2>6. CASE ~Closed(d, T)
      <3>1. g[n] # T /\ T \subseteq g[n]
        BY <2>2, <2>6 DEF Closed
      <3>2. IsFiniteSet(g[n]) /\ Cardinality(T) < Cardinality(g[n])
        <4>1. IsFiniteSet(g[n])
          BY <1>2, <2>3, FS_Subset
        <4>2. T \in SUBSET g[n] /\ IsFiniteSet(T)
          BY <3>1, <4>1, FS_Subset
        <4>3. Cardinality(T) \in Nat /\ Cardinality(g[n]) \in Nat
          BY <4>1, <4>2, FS_CardinalityType
        <4>4. Cardinality(T) <= Cardinality(g[n]) /\ Cardinality(T) # Cardinality(g[n])
          BY <4>1, <4>2, <3>1, FS_Subset
        <4>5. QED
          BY <4>1, <4>3, <4>4
      <3>3. IsFiniteSet(T) /\ Cardinality(T) \in Nat /\ Cardinality(g[n]) \in Nat
        BY <1>2, <2>1, <3>2, FS_Subset, FS_CardinalityType
      <3>4. Cardinality(g[n]) >= n + 1
        BY <2>1, <2>6, <3>2, <3>3, <1>2
      <3>5. QED
        BY <2>3, <2>4, <3>4
    <2>7. QED
      BY <2>5, <2>6
  <1> HIDE DEF Good
  <1>8. Bad = {}
    <2> SUFFICES ASSUME Bad # {} PROVE FALSE
      OBVIOUS
    <2>1. PICK k \in Bad : \A i \in Bad : k <= i
      <3>1. Bad \in SUBSET Nat
        BY <1>2
      <3>2. QED
        BY <3>1, LeastNumber
    <2>2. k \in 0..N /\ ~Good(k) /\ k # 0
      BY <2>1, <1>6
    <2>3. k \in 1..N /\ k - 1 \in 0..N /\ k - 1 < k
      BY <2>2, <1>2
    <2>4. Good(k - 1)
      BY <2>1, <2>3
    <2>5. QED
      BY <1>7, <2>2, <2>3, <2>4
  <1>9. Good(N)
    BY <1>2, <1>8
  <1>10. Closed(d, g[N])
    <2>1. /\ g[N] \in SUBSET U /\ (Closed(d, g[N]) \/ Cardinality(g[N]) >= N + 1)
      BY <1>9 DEF Good
    <2>2. SUFFICES ASSUME Cardinality(g[N]) >= N + 1 PROVE g[N] = U
      BY <2>1, <1>5 DEF Closed
    <2>3. Cardinality(g[N]) \in Nat /\ ~(Cardinality(g[N]) < Cardinality(U))
      BY <2>1, <2>2, <1>2, FS_Subset, FS_CardinalityType
    <2>4. QED
      BY <2>1, <2>3, <1>2, FS_Subset
  <1>11. QED
    BY <1>1, <1>9, <1>10 DEF Good

(* An island laid in another that does not lie in it, or in none.           *)
LEMMA ParentSet ==
  ASSUME NEW d, NEW u, Whole(d, u), NEW i \in d.islands, NEW p \in IslandIds \cup {None},
         p # None => i \notin Above(d, p)
  PROVE  Whole([d EXCEPT !.parent[i] = p], u)
  <1> DEFINE e == [d EXCEPT !.parent[i] = p]
             g == [d.parent EXCEPT ![i] = p]
             U == IslandIds \cup {None}
  <1>1. d.islands \subseteq IslandIds /\ g \in [IslandIds -> U] /\ d.parent \in [IslandIds -> U]
    BY DEF Whole, Paper
  <1>2. g[i] = p /\ \A j \in IslandIds : j # i => g[j] = d.parent[j]
    BY <1>1
  <1> HIDE DEF g
  <1>3. /\ e \in Paper /\ e.cards = d.cards /\ e.islands = d.islands /\ e.parent = g
        /\ e.links = d.links /\ e.order = d.order /\ e.hold = d.hold /\ e.shelf = d.shelf
    BY <1>1 DEF Whole, Paper, g
  <1> HIDE DEF e
  <1>4. Things(e) = Things(d) /\ Things(d) \subseteq u
    BY <1>3 DEF Whole, Things
  <1>5. Linked(e) /\ Marked(e, u)
    BY <1>3 DEF Whole, Linked, Marked
  <1>6. Ordered(e)
    BY <1>3, <1>4 DEF Whole, Ordered
  <1>7. PICK B \in SUBSET U : (p # None => Closed(d, B) /\ p \in B /\ i \notin B) /\ (p = None => B = {None})
    <2>1. CASE p = None
      BY <2>1
    <2>2. CASE p # None
      BY <2>2, AboveIs
    <2>3. QED
      BY <2>1, <2>2
  <1>8. Closed(d, B) /\ p \in B /\ i \notin B /\ Closed(e, B)
    BY <1>1, <1>2, <1>3, <1>7, CanvasBounds DEF Closed
  <1>9. ASSUME NEW j \in e.islands PROVE Apart(e, j)
    <2>1. CASE j = i
      BY <2>1, <1>2, <1>3, <1>8 DEF Apart
    <2>2. CASE j # i /\ d.parent[j] # None
      <3>1. PICK C \in SUBSET U : Closed(d, C) /\ d.parent[j] \in C /\ j \notin C
        BY <2>2, <1>3 DEF Whole, Nested, Apart
      <3>2. g[j] = d.parent[j]
        BY <2>2, <1>1, <1>2, <1>3
      <3>3. CASE i \notin C
        <4>1. Closed(e, C)
          BY <3>1, <3>3, <1>1, <1>2, <1>3 DEF Closed
        <4>2. QED
          BY <3>1, <3>2, <4>1, <1>3 DEF Apart
      <3>4. CASE i \in C /\ j \notin B
        <4>1. Closed(e, C \cup B)
          <5>1. ASSUME NEW m \in C \cup B, m \in e.islands PROVE e.parent[m] \in C \cup B
            <6>1. CASE m = i
              BY <6>1, <1>2, <1>3, <1>8
            <6>2. CASE m # i
              BY <6>2, <5>1, <3>1, <1>1, <1>2, <1>3, <1>8 DEF Closed
            <6>3. QED
              BY <6>1, <6>2
          <5>2. QED
            BY <5>1 DEF Closed
        <4>2. C \cup B \in SUBSET U /\ j \notin C \cup B
          BY <3>1, <3>4
        <4>3. QED
          BY <3>1, <3>2, <4>1, <4>2, <1>3 DEF Apart
      <3>5. CASE j \in B
        <4>1. Closed(e, C \cap B) /\ d.parent[j] \in C \cap B
          BY <3>1, <3>5, <1>1, <1>2, <1>3, <1>8 DEF Closed
        <4>2. C \cap B \in SUBSET U /\ j \notin C \cap B
          BY <3>1
        <4>3. QED
          BY <3>2, <4>1, <4>2, <1>3 DEF Apart
      <3>6. QED
        BY <3>3, <3>4, <3>5
    <2>3. CASE j # i /\ d.parent[j] = None
      BY <2>3, <1>1, <1>2, <1>3 DEF Apart
    <2>4. QED
      BY <2>1, <2>2, <2>3
  <1>10. Nested(e)
    BY <1>1, <1>2, <1>3, <1>9 DEF Whole, Nested
  <1>11. QED
    BY <1>3, <1>4, <1>5, <1>6, <1>10 DEF Whole, e

-----------------------------------------------------------------------------
(* Cards that go and cards that stand for others.                           *)

LEMMA WithoutCardsWhole ==
  ASSUME NEW d, NEW u, Whole(d, u), NEW S \in SUBSET CardIds
  PROVE  Whole(WithoutCards(d, S), u)
  <1> DEFINE member == [i \in IslandIds |-> d.member[i] \ S]
             empty == {i \in d.islands : member[i] = {}}
             kept == (d.cards \ S) \cup (d.islands \ empty)
             f == [i \in IslandIds |-> IF i \in empty THEN {} ELSE member[i]]
             g == [i \in IslandIds |-> IF i \in empty THEN None ELSE d.parent[i]]
             note == [c \in CardIds |-> IF c \in S THEN FALSE ELSE d.note[c]]
             place == [c \in CardIds |-> IF c \in S THEN Nowhere ELSE d.place[c]]
             hold == [c \in CardIds |-> IF c \in S THEN None ELSE d.hold[c]]
             into == [c \in CardIds |-> IF c \in S THEN None ELSE d.into[c]]
             edges == {x \in d.edges : x[1] \notin S /\ x[2] \notin S}
             links == {l \in d.links : l[1] \notin S /\ l[2] \notin S}
             q == Keeping(d.order, kept)
             e == [cards |-> d.cards \ S, note |-> note, place |-> place, hold |-> hold,
                   into |-> into, shelf |-> d.shelf, islands |-> d.islands \ empty,
                   member |-> f, parent |-> g, edges |-> edges, links |-> links, order |-> q]
             b == [d EXCEPT !.member = member]
             w == [d EXCEPT !.islands = d.islands \ empty, !.member = f, !.parent = g]
  <1>1. WithoutCards(d, S) = e
    <2>1. d \in Paper
      BY DEF Whole
    <2>2. b \in Paper /\ b.member = member /\ b.parent = d.parent /\ b.islands = d.islands
      BY <2>1 DEF Paper
    <2>3. Without(b, empty) = w
      <3> HIDE DEF empty, member
      <3>1. Without(b, empty) = [b EXCEPT !.islands = d.islands \ empty, !.member = f, !.parent = g]
        BY <2>2 DEF Without
      <3>2. QED
        BY <2>1, <3>1 DEF Paper
    <2>4. /\ w.cards = d.cards /\ w.note = d.note /\ w.place = d.place /\ w.hold = d.hold
          /\ w.into = d.into /\ w.edges = d.edges /\ w.links = d.links /\ w.order = d.order
          /\ w.shelf = d.shelf /\ w.islands = d.islands \ empty /\ w.member = f /\ w.parent = g
      BY <2>1 DEF Paper
    <2>5. WithoutCards(d, S) = [Without(b, empty) EXCEPT
           !.cards = @ \ S,
           !.note = [c \in CardIds |-> IF c \in S THEN FALSE ELSE @[c]],
           !.place = [c \in CardIds |-> IF c \in S THEN Nowhere ELSE @[c]],
           !.hold = [c \in CardIds |-> IF c \in S THEN None ELSE @[c]],
           !.into = [c \in CardIds |-> IF c \in S THEN None ELSE @[c]],
           !.edges = {y \in @ : y[1] \notin S /\ y[2] \notin S},
           !.links = {l \in @ : l[1] \notin S /\ l[2] \notin S},
           !.order = Keeping(@, kept)]
      BY Zenon DEF WithoutCards
    <2> HIDE DEF empty, member, kept, f, g
    <2>6. WithoutCards(d, S) = [w EXCEPT !.cards = d.cards \ S, !.note = note, !.place = place,
                !.hold = hold, !.into = into, !.edges = edges, !.links = links, !.order = q]
      <3> HIDE DEF w
      <3>1. QED
        BY <2>3, <2>4, <2>5
    <2> HIDE DEF note, place, hold, into, edges, links, q
    <2>7. QED
      BY <2>1, <2>6 DEF Paper
  <1>2. /\ q \in Seq(Node) /\ Once(q) /\ \A n \in DOMAIN q : q[n] \in kept
    BY KeptOrder
  <1>3. /\ f \in [IslandIds -> SUBSET CardIds] /\ g \in [IslandIds -> IslandIds \cup {None}]
        /\ note \in [CardIds -> BOOLEAN]
        /\ hold \in [CardIds -> {None, "held", "shelved"}]
        /\ into \in [CardIds -> CardIds \cup {None}]
        /\ edges \in SUBSET (Node \X Node) /\ links \in SUBSET (CardIds \X CardIds \X Kinds)
    BY DEF Whole, Paper
  <1>4. place \in [CardIds -> Places]
    <2>1. Nowhere \in Places
      BY CanvasAssumption DEF Nowhere
    <2>2. QED
      BY <2>1 DEF Whole, Paper
  <1>5. d.cards \subseteq CardIds /\ d.islands \subseteq IslandIds /\ d.shelf \subseteq CardIds
    BY DEF Whole, Paper
  <1>6. Marked(e, u)
    <2>1. ASSUME NEW c \in d.cards \ S PROVE c \in d.shelf <=> hold[c] = "shelved"
      BY <1>5 DEF Whole, Marked
    <2>2. ASSUME NEW c \in CardIds \ u PROVE c \notin d.shelf /\ hold[c] # "shelved"
      BY CanvasBounds DEF Whole, Marked, None
    <2>3. e.cards = d.cards \ S /\ e.shelf = d.shelf /\ e.hold = hold
      OBVIOUS
    <2> HIDE DEF e, hold
    <2>4. QED
      BY <2>1, <2>2, <2>3 DEF Marked
  <1>7. Linked(e)
    <2>1. \A l \in links : l[1] \in d.cards \ S /\ l[2] \in d.cards \ S /\ l[1] # l[2]
      BY DEF Whole, Linked
    <2>2. e.links = links /\ e.cards = d.cards \ S
      OBVIOUS
    <2> HIDE DEF e, links
    <2>3. QED
      BY <2>1, <2>2 DEF Linked
  <1>8. Things(e) = kept /\ kept \subseteq u /\ Ordered(e)
    <2>1. e.cards = d.cards \ S /\ e.islands = d.islands \ empty /\ e.order = q
      OBVIOUS
    <2> HIDE DEF e, q
    <2>2. Things(e) = kept /\ kept \subseteq u
      BY <2>1 DEF Whole, Things
    <2>3. QED
      BY <1>2, <2>1, <2>2 DEF Ordered
  <1>9. Nested(e)
    <2>1. e.islands = d.islands \ empty
          /\ e.parent = [i \in IslandIds |-> IF i \in empty THEN None ELSE d.parent[i]]
      OBVIOUS
    <2> HIDE DEF e, empty
    <2>2. QED
      BY <2>1, NestedLeft
  <1>10. e \in Paper
    <2>1. d.cards \ S \subseteq CardIds /\ d.islands \ empty \subseteq IslandIds
      BY <1>5
    <2> HIDE DEF note, place, hold, into, edges, links, f, g, q, empty
    <2>2. QED
      BY <1>2, <1>3, <1>4, <1>5, <2>1 DEF Paper
  <1> HIDE DEF e, kept
  <1>11. QED
    BY <1>1, <1>6, <1>7, <1>8, <1>9, <1>10 DEF Whole

LEMMA ProjectedEdges ==
  ASSUME Whole(doc, used), NEW S, NEW r \in CardIds, NEW rewire \in BOOLEAN
  PROVE  (IF rewire THEN doc.edges \cup Projected(S, r) ELSE doc.edges) \in SUBSET (Node \X Node)
  <1>1. doc.edges \in SUBSET (Node \X Node) /\ r \in Node
    BY DEF Whole, Paper, Node
  <1>2. \A y \in doc.edges : y[1] \in Node /\ y[2] \in Node
    BY <1>1
  <1>3. Projected(S, r) \in SUBSET (Node \X Node)
    BY <1>1, <1>2 DEF Projected
  <1>4. QED
    BY <1>1, <1>3

LEMMA RepresentedWhole ==
  ASSUME NEW d, NEW u, Whole(d, u), NEW r \in CardIds \ u,
         NEW f \in [CardIds -> CardIds \cup {None}], NEW g \in [IslandIds -> SUBSET CardIds],
         NEW x \in SUBSET (Node \X Node)
  PROVE  Whole([d EXCEPT !.cards = @ \cup {r}, !.into = f, !.member = g, !.edges = x], u \cup {r})
  <1> DEFINE e == [d EXCEPT !.cards = @ \cup {r}, !.into = f, !.member = g, !.edges = x]
  <1>1. /\ e \in Paper /\ e.cards = d.cards \cup {r} /\ e.islands = d.islands
        /\ e.parent = d.parent /\ e.links = d.links /\ e.order = d.order
        /\ e.hold = d.hold /\ e.shelf = d.shelf
    BY DEF Whole, Paper
  <1> HIDE DEF e
  <1>2. Whole(e, u \cup {r})
    BY <1>1, CardAdded
  <1>3. QED
    BY <1>2 DEF e

LEMMA CreatedWhole ==
  ASSUME NEW d, NEW u, Whole(d, u), NEW c \in CardIds \ u, NEW p \in Places
  PROVE  Whole([d EXCEPT !.cards = @ \cup {c}, !.place[c] = p], u \cup {c})
  <1> DEFINE f == [d.place EXCEPT ![c] = p]
             e == [d EXCEPT !.cards = @ \cup {c}, !.place = f]
  <1>1. f \in [CardIds -> Places]
    BY DEF Whole, Paper
  <1>2. [d EXCEPT !.cards = @ \cup {c}, !.place[c] = p] = e
    BY DEF Whole, Paper
  <1> HIDE DEF f
  <1>3. /\ e \in Paper /\ e.cards = d.cards \cup {c} /\ e.islands = d.islands
        /\ e.parent = d.parent /\ e.links = d.links /\ e.order = d.order
        /\ e.hold = d.hold /\ e.shelf = d.shelf
    BY <1>1 DEF Whole, Paper
  <1> HIDE DEF e
  <1>4. QED
    BY <1>2, <1>3, CardAdded

-----------------------------------------------------------------------------
(* The history.                                                             *)

LEMMA TrimmedIs ==
  ASSUME NEW s \in Seq(Paper)
  PROVE  /\ Trimmed(s) \in Seq(Paper) /\ Len(Trimmed(s)) <= HistoryLimit
         /\ \A n \in DOMAIN Trimmed(s) : \E m \in DOMAIN s : Trimmed(s)[n] = s[m]
  <1> DEFINE k == IF Len(s) > HistoryLimit THEN HistoryLimit ELSE Len(s)
             a == Len(s) - k + 1
             t == SubSeq(s, a, Len(s))
  <1>1. Len(s) \in Nat /\ DOMAIN s = 1..Len(s) /\ k \in Nat /\ k <= HistoryLimit /\ k <= Len(s)
    BY CanvasBounds
  <1>2. Trimmed(s) = t
    BY DEF Trimmed
  <1> HIDE DEF k
  <1>3. a \in 1..(Len(s) + 1) /\ Len(s) - a + 1 = k
    BY <1>1
  <1> HIDE DEF a
  <1>4. t \in Seq(Paper) /\ Len(t) = k /\ \A n \in 1..k : t[n] = s[a + n - 1]
    BY <1>1, <1>3
  <1>5. \A n \in 1..k : a + n - 1 \in 1..Len(s)
    BY <1>1, <1>3
  <1> HIDE DEF t
  <1>6. QED
    BY <1>1, <1>2, <1>4, <1>5, CanvasBounds

(* One more page, of those that were there.                                 *)
LEMMA PagePushed ==
  ASSUME CanvasInv, NEW d \in Paper, Whole(d, used)
  PROVE  /\ Trimmed(Append(past, d)) \in Seq(Paper)
         /\ Len(Trimmed(Append(past, d))) <= HistoryLimit
         /\ \A n \in DOMAIN Trimmed(Append(past, d)) : Whole(Trimmed(Append(past, d))[n], used)
  <1> DEFINE s == Append(past, d)
  <1>1. past \in Seq(Paper) /\ \A n \in DOMAIN past : Whole(past[n], used)
    BY DEF CanvasInv, PagesOK, PagesWhole
  <1>2. /\ s \in Seq(Paper)
        /\ \A n \in DOMAIN s : (n \in DOMAIN past /\ s[n] = past[n]) \/ s[n] = d
    BY <1>1
  <1> HIDE DEF s
  <1>3. \A n \in DOMAIN s : Whole(s[n], used)
    BY <1>1, <1>2
  <1> DEFINE t == Trimmed(s)
  <1>4. /\ t \in Seq(Paper) /\ Len(t) <= HistoryLimit
        /\ \A n \in DOMAIN t : \E m \in DOMAIN s : t[n] = s[m]
    BY <1>2, TrimmedIs
  <1> HIDE DEF t
  <1>5. \A n \in DOMAIN t : Whole(t[n], used)
    BY <1>3, <1>4
  <1>6. QED
    BY <1>4, <1>5 DEF t, s

LEMMA Applied ==
  ASSUME CanvasInv, edits < MaxEdits, edits' = edits + 1,
         past' = Trimmed(Append(past, doc)), future' = <<>>, snap' = {},
         used \subseteq used', used' \subseteq Node, Whole(doc', used')
  PROVE  PagesOK' /\ PagesWhole' /\ DragOK'
  <1>1. Whole(doc, used) /\ doc \in Paper /\ edits \in 0..MaxEdits
    BY DEF CanvasInv, PagesOK, PagesWhole, Whole
  <1>2. /\ past' \in Seq(Paper) /\ Len(past') <= HistoryLimit
        /\ \A n \in DOMAIN past' : Whole(past'[n], used)
    BY <1>1, PagePushed
  <1>3. \A n \in DOMAIN past' : Whole(past'[n], used')
    BY <1>2, WholeGrows
  <1>4. future' \in Seq(Paper) /\ DOMAIN future' = {}
    OBVIOUS
  <1>5. edits' \in 0..MaxEdits
    BY <1>1, CanvasBounds
  <1>6. PagesOK'
    BY <1>2, <1>4, <1>5 DEF PagesOK
  <1>7. PagesWhole'
    BY <1>3, <1>4 DEF PagesWhole
  <1>8. QED
    BY <1>6, <1>7 DEF DragOK

LEMMA AppliedInPlace ==
  ASSUME CanvasInv, NEW d, ApplyInPlace(d), Whole(d, used)
  PROVE  CanvasInv'
  <1>1. /\ edits < MaxEdits /\ edits' = edits + 1 /\ past' = Trimmed(Append(past, doc))
        /\ future' = <<>> /\ snap' = {} /\ used' = used /\ doc' = d
        /\ island' = Kept(island, d) /\ UNCHANGED <<dragged, cards, picking, editing>>
    BY DEF ApplyInPlace, Apply
  <1>2. Whole(doc', used')
    BY <1>1
  <1>3. used \subseteq Node /\ Chosen
    BY DEF CanvasInv, PagesOK
  <1>4. PagesOK' /\ PagesWhole' /\ DragOK'
    BY <1>1, <1>2, <1>3, Applied
  <1>5. Chosen'
    BY <1>1, <1>3 DEF Chosen, Kept
  <1>6. QED
    BY <1>4, <1>5 DEF CanvasInv

-----------------------------------------------------------------------------
(* The handlers.                                                            *)

(* What every handler finds.                                                *)
LEMMA CanvasFacts ==
  ASSUME CanvasInv
  PROVE  /\ Whole(doc, used) /\ doc \in Paper /\ Things(doc) \subseteq used /\ used \subseteq Node
         /\ doc.cards \subseteq CardIds \cap used /\ doc.islands \subseteq IslandIds \cap used
         /\ cards \subseteq CardIds \cap used /\ island \in doc.islands \cup {None}
         /\ dragged \in CardIds \cup {None} /\ editing \in CardIds \cup {None} /\ picking \in BOOLEAN
         /\ doc.note \in [CardIds -> BOOLEAN] /\ doc.place \in [CardIds -> Places]
         /\ doc.member \in [IslandIds -> SUBSET CardIds]
         /\ doc.edges \in SUBSET (Node \X Node)
         /\ doc.links \in SUBSET (CardIds \X CardIds \X Kinds) /\ Linked(doc)
         /\ doc.order \in Seq(Node) /\ Ordered(doc)
         /\ doc.shelf \subseteq CardIds \cap used
  <1>1. Whole(doc, used) /\ used \subseteq Node /\ Chosen
    BY DEF CanvasInv, PagesOK, PagesWhole
  <1>2. doc \in Paper /\ Things(doc) \subseteq used /\ Linked(doc) /\ Ordered(doc)
    BY <1>1 DEF Whole
  <1>3. /\ doc.cards \subseteq CardIds /\ doc.islands \subseteq IslandIds
        /\ doc.note \in [CardIds -> BOOLEAN] /\ doc.place \in [CardIds -> Places]
        /\ doc.member \in [IslandIds -> SUBSET CardIds]
        /\ doc.edges \in SUBSET (Node \X Node)
        /\ doc.links \in SUBSET (CardIds \X CardIds \X Kinds)
        /\ doc.order \in Seq(Node) /\ doc.shelf \subseteq CardIds
    BY <1>2 DEF Paper
  <1>4. doc.shelf \subseteq used
    BY <1>1, <1>3 DEF Whole, Marked
  <1>5. QED
    BY <1>1, <1>2, <1>3, <1>4 DEF Things, Chosen

LEMMA SelectedKeeps ==
  ASSUME CanvasInv, Quiet, cards' \subseteq CardIds \cap used, island' \in doc.islands \cup {None},
         picking' \in BOOLEAN, editing' \in CardIds \cup {None}
  PROVE  CanvasInv'
  <1>1. UNCHANGED <<doc, past, future, snap, dragged, used, edits>>
    BY DEF Quiet
  <1>2. PagesOK' /\ PagesWhole' /\ DragOK'
    BY <1>1 DEF CanvasInv, PagesOK, PagesWhole, DragOK
  <1>3. Chosen'
    BY <1>1 DEF CanvasInv, Chosen
  <1>4. QED
    BY <1>2, <1>3 DEF CanvasInv

LEMMA SelectKeeps ==
  ASSUME CanvasInv, Select
  PROVE  CanvasInv'
  <1> USE CanvasFacts
  <1>1. ASSUME NEW c \in CardIds, NEW shift \in BOOLEAN, SelectCard(c, shift) PROVE CanvasInv'
    BY <1>1, SelectedKeeps DEF SelectCard
  <1>2. ASSUME NEW i \in IslandIds, SelectIsland(i) PROVE CanvasInv'
    BY <1>2, SelectedKeeps DEF SelectIsland
  <1>3. ASSUME NEW S \in SUBSET doc.cards, NEW shift \in BOOLEAN, Marquee(S, shift) PROVE CanvasInv'
    BY <1>3, SelectedKeeps DEF Marquee
  <1>4. ASSUME ClearSelection PROVE CanvasInv'
    BY <1>4, SelectedKeeps DEF ClearSelection
  <1>5. ASSUME StartConnect PROVE CanvasInv'
    BY <1>5, SelectedKeeps DEF StartConnect
  <1>6. ASSUME CancelConnect PROVE CanvasInv'
    BY <1>6, SelectedKeeps DEF CancelConnect
  <1>7. ASSUME NEW c \in CardIds, ConnectFromCard(c) PROVE CanvasInv'
    BY <1>7, SelectedKeeps DEF ConnectFromCard
  <1>8. ASSUME NEW c \in CardIds, EditCard(c) PROVE CanvasInv'
    BY <1>8, SelectedKeeps DEF EditCard
  <1>9. QED
    BY <1>1, <1>2, <1>3, <1>4, <1>5, <1>6, <1>7, <1>8 DEF Select

(* Undo, redo and the undo for good.                                        *)
LEMMA UndoKeeps ==
  ASSUME CanvasInv, past # <<>>, snap' = {}, past' = Front(past), doc' = Last(past),
         future' = <<doc>> \o future \/ future' = <<>>, island' = Kept(island, doc'),
         UNCHANGED <<dragged, cards, picking, editing, used, edits>>
  PROVE  CanvasInv'
  <1>1. past \in Seq(Paper) /\ Len(past) <= HistoryLimit /\ \A n \in DOMAIN past : Whole(past[n], used)
    BY DEF CanvasInv, PagesOK, PagesWhole
  <1>2. Len(past) \in Nat /\ Len(past) # 0 /\ DOMAIN past = 1..Len(past)
    BY <1>1
  <1>3. Whole(doc', used')
    BY <1>1, <1>2 DEF Last
  <1>4. /\ past' \in Seq(Paper) /\ Len(past') <= HistoryLimit
        /\ \A n \in DOMAIN past' : n \in DOMAIN past /\ past'[n] = past[n]
    <2> DEFINE f == SubSeq(past, 1, Len(past) - 1)
    <2>1. f \in Seq(Paper) /\ Len(f) = Len(past) - 1 /\ \A n \in 1..(Len(past) - 1) : f[n] = past[n]
      BY <1>1, <1>2
    <2>2. past' = f
      BY DEF Front
    <2> HIDE DEF f
    <2>3. QED
      BY <1>1, <1>2, <2>1, <2>2, CanvasBounds
  <1>5. future \in Seq(Paper) /\ \A n \in DOMAIN future : Whole(future[n], used)
    BY DEF CanvasInv, PagesOK, PagesWhole
  <1>6. future' \in Seq(Paper) /\ \A n \in DOMAIN future' : Whole(future'[n], used)
    <2>1. CASE future' = <<>>
      BY <2>1
    <2>2. CASE future' = <<doc>> \o future
      <3> DEFINE f == <<doc>> \o future
      <3>1. /\ f \in Seq(Paper) /\ f[1] = doc
            /\ \A n \in DOMAIN f : n = 1 \/ (n - 1 \in DOMAIN future /\ f[n] = future[n - 1])
        BY <1>5, CanvasFacts
      <3> HIDE DEF f
      <3>2. \A n \in DOMAIN f : Whole(f[n], used)
        BY <1>5, <3>1, CanvasFacts
      <3>3. QED
        BY <2>2, <3>1, <3>2 DEF f
    <2>3. QED
      BY <2>1, <2>2
  <1>7. PagesOK'
    BY <1>4, <1>6 DEF CanvasInv, PagesOK
  <1>8. PagesWhole'
    BY <1>1, <1>3, <1>4, <1>6 DEF PagesWhole
  <1>9. Chosen'
    BY DEF CanvasInv, Chosen, Kept
  <1>10. QED
    BY <1>7, <1>8, <1>9 DEF CanvasInv, DragOK

LEMMA RedoKeeps ==
  ASSUME CanvasInv, Redo
  PROVE  CanvasInv'
  <1>1. future \in Seq(Paper) /\ \A n \in DOMAIN future : Whole(future[n], used)
    BY DEF CanvasInv, PagesOK, PagesWhole
  <1>2. /\ future # <<>> /\ snap' = {} /\ past' = Trimmed(Append(past, doc))
        /\ doc' = Head(future) /\ future' = Tail(future) /\ island' = Kept(island, doc')
        /\ UNCHANGED <<dragged, cards, picking, editing, used, edits>>
    BY DEF Redo
  <1>3. Whole(doc', used')
    BY <1>1, <1>2
  <1>4. /\ past' \in Seq(Paper) /\ Len(past') <= HistoryLimit
        /\ \A n \in DOMAIN past' : Whole(past'[n], used)
    BY <1>2, PagePushed, CanvasFacts
  <1>5. /\ future' \in Seq(Paper)
        /\ \A n \in DOMAIN future' : n + 1 \in DOMAIN future /\ future'[n] = future[n + 1]
    BY <1>1, <1>2
  <1>6. PagesOK'
    BY <1>2, <1>4, <1>5 DEF CanvasInv, PagesOK
  <1>7. PagesWhole'
    BY <1>1, <1>2, <1>3, <1>4, <1>5 DEF PagesWhole
  <1>8. Chosen'
    BY <1>2 DEF CanvasInv, Chosen, Kept
  <1>9. QED
    BY <1>2, <1>6, <1>7, <1>8 DEF CanvasInv, DragOK

(* A drag moves the card in the document; its snapshot is what it was.      *)
LEMMA DragKeeps ==
  ASSUME CanvasInv, NEW c \in CardIds, NEW p \in Places, DragCard(c, p)
  PROVE  CanvasInv'
  <1> DEFINE f == [doc.place EXCEPT ![c] = p]
  <1>1. /\ edits < MaxEdits /\ edits' = edits + 1 /\ dragged' = c
        /\ snap' = (IF snap = {} THEN {doc} ELSE snap)
        /\ UNCHANGED <<past, future, cards, island, picking, editing, used>>
    BY DEF DragCard
  <1>2. f \in [CardIds -> Places] /\ doc \in Paper
    BY CanvasFacts
  <1>3. doc' = [doc EXCEPT !.place = f]
    BY <1>2 DEF DragCard, Paper
  <1> HIDE DEF f
  <1>4. Whole(doc', used') /\ doc' \in Paper /\ doc'.place = f /\ doc'.islands = doc.islands
    <2>1. Whole([doc EXCEPT !.place = f], used)
      BY <1>2, PlacedWhole, CanvasFacts
    <2>2. Whole(doc', used')
      BY <1>1, <1>3, <2>1
    <2>3. QED
      BY <1>2, <1>3, <2>2 DEF Paper, Whole
  <1>5. PagesOK'
    BY <1>1, CanvasBounds DEF CanvasInv, PagesOK
  <1>6. PagesWhole'
    BY <1>1, <1>4 DEF CanvasInv, PagesWhole
  <1>7. DragOK'
    <2>1. CASE snap = {}
      <3>1. snap' = {doc} /\ [doc EXCEPT !.place = doc'.place] = doc'
        BY <1>1, <1>3, <1>4, <2>1
      <3>2. QED
        BY <3>1, <1>1, <1>2, CanvasFacts DEF DragOK
    <2>2. CASE snap # {}
      <3>1. PICK s \in Paper : snap = {s} /\ Whole(s, used) /\ [s EXCEPT !.place = doc.place] = doc
        BY <2>2 DEF CanvasInv, DragOK
      <3>2. [s EXCEPT !.place = f] = [[s EXCEPT !.place = doc.place] EXCEPT !.place = f]
        BY <3>1 DEF Paper
      <3>3. [s EXCEPT !.place = doc'.place] = doc'
        BY <3>1, <3>2, <1>3, <1>4
      <3>4. snap' = {s} /\ Whole(s, used')
        BY <3>1, <1>1, <2>2
      <3>5. QED
        BY <3>3, <3>4 DEF DragOK
    <2>3. QED
      BY <2>1, <2>2
  <1>8. Chosen'
    BY <1>1, <1>4 DEF CanvasInv, Chosen
  <1>9. QED
    BY <1>5, <1>6, <1>7, <1>8 DEF CanvasInv

LEMMA OnlySnapshot ==
  ASSUME NEW s
  PROVE  SetToSeq({s}) = <<s>>
  <1>1. Cardinality({s}) = 1
    BY FS_Singleton
  <1> DEFINE F == {f \in [1..1 -> {s}] : IsInjective(f)}
             g == [n \in 1..1 |-> s]
  <1>2. g \in F
    BY DEF IsInjective
  <1>3. SetToSeq({s}) = CHOOSE f \in [1..1 -> {s}] : IsInjective(f)
    BY <1>1 DEF SetToSeq
  <1>4. SetToSeq({s}) \in [1..1 -> {s}]
    BY <1>2, <1>3
  <1>5. <<s>> = [n \in 1..1 |-> s]
    OBVIOUS
  <1>6. QED
    BY <1>4, <1>5

(* Releasing the pointer records one step.                                  *)
LEMMA DropKeeps ==
  ASSUME CanvasInv, NEW onto \in IslandIds \cup {None}, Drop(onto)
  PROVE  CanvasInv'
  <1>1. dragged' = None /\ snap' = {} /\ UNCHANGED <<cards, island, picking, editing, used, edits>>
    BY DEF Drop
  <1>2. CASE snap = {}
    <2>1. UNCHANGED <<doc, past, future>>
      BY <1>2 DEF Drop
    <2>2. QED
      BY <1>1, <2>1 DEF CanvasInv, PagesOK, PagesWhole, DragOK, Chosen
  <1>3. CASE snap # {}
    <2>1. PICK s \in Paper : snap = {s} /\ Whole(s, used)
      BY <1>3 DEF CanvasInv, DragOK
    <2>2. /\ past' = Trimmed(past \o SetToSeq(snap)) /\ future' = <<>>
          /\ doc' = IF onto = None THEN doc ELSE MoveCardToIsland(doc, dragged, onto)
          /\ onto # None => dragged \in doc.cards
      BY <1>3 DEF Drop
    <2>3. past \o SetToSeq(snap) = Append(past, s)
      <3>1. SetToSeq(snap) = <<s>> /\ past \in Seq(Paper)
        BY <2>1, OnlySnapshot DEF CanvasInv, PagesOK
      <3>2. QED
        BY <3>1
    <2>4. past' = Trimmed(Append(past, s))
      BY <2>2, <2>3
    <2>5. /\ past' \in Seq(Paper) /\ Len(past') <= HistoryLimit
          /\ \A n \in DOMAIN past' : Whole(past'[n], used)
      BY <2>1, <2>4, PagePushed
    <2>6. Whole(doc', used) /\ doc'.islands = doc.islands
      <3>1. CASE onto = None
        BY <3>1, <2>2, CanvasFacts
      <3>2. CASE onto # None
        <4> DEFINE f == [j \in IslandIds |-> IF j = onto THEN doc.member[j] \cup {dragged}
                                             ELSE doc.member[j] \ {dragged}]
        <4>1. f \in [IslandIds -> SUBSET CardIds] /\ doc' = [doc EXCEPT !.member = f]
          BY <3>2, <2>2, CanvasFacts DEF MoveCardToIsland
        <4> HIDE DEF f
        <4>2. doc'.islands = doc.islands
          BY <4>1, CanvasFacts DEF Paper
        <4>3. QED
          BY <4>1, <4>2, MembersWhole, CanvasFacts
      <3>3. QED
        BY <3>1, <3>2
    <2>7. future' \in Seq(Paper) /\ DOMAIN future' = {}
      BY <2>2
    <2>8. PagesOK'
      BY <1>1, <2>5, <2>7 DEF CanvasInv, PagesOK
    <2>9. PagesWhole'
      BY <1>1, <2>5, <2>6, <2>7 DEF PagesWhole
    <2>10. Chosen'
      BY <1>1, <2>6 DEF CanvasInv, Chosen
    <2>11. QED
      BY <1>1, <2>8, <2>9, <2>10 DEF CanvasInv, DragOK
  <1>4. QED
    BY <1>2, <1>3

(* A card, or what stands for the selection, with an identifier of its own. *)
LEMMA CreateKeeps ==
  ASSUME CanvasInv, NEW c \in CardIds \ used, edits < MaxEdits, edits' = edits + 1,
         past' = Trimmed(Append(past, doc)), future' = <<>>, snap' = {},
         used' = used \cup {c}, Whole(doc', used'), cards' = {c}, island' = None,
         editing' \in CardIds \cup {None}, UNCHANGED <<dragged, picking>>
  PROVE  CanvasInv'
  <1>1. used' \subseteq Node
    BY CanvasFacts DEF Node
  <1>2. PagesOK' /\ PagesWhole' /\ DragOK'
    BY <1>1, Applied
  <1>3. Chosen'
    BY CanvasFacts DEF Chosen
  <1>4. QED
    BY <1>2, <1>3 DEF CanvasInv

LEMMA CreateCardKeeps ==
  ASSUME CanvasInv, NEW c \in CardIds, NEW p \in Places, CreateCard(c, p)
  PROVE  CanvasInv'
  <1>1. /\ c \in CardIds \ used /\ edits < MaxEdits /\ edits' = edits + 1
        /\ past' = Trimmed(Append(past, doc)) /\ future' = <<>> /\ snap' = {}
        /\ doc' = [doc EXCEPT !.cards = @ \cup {c}, !.place[c] = p]
        /\ used' = used \cup {c} /\ cards' = {c} /\ island' = None /\ editing' = c
        /\ UNCHANGED <<dragged, picking>>
    BY DEF CreateCard, Apply
  <1>2. Whole([doc EXCEPT !.cards = @ \cup {c}, !.place[c] = p], used \cup {c})
    BY <1>1, CreatedWhole, CanvasFacts
  <1>3. Whole(doc', used')
    BY <1>1, <1>2
  <1>4. QED
    BY <1>1, <1>3, CreateKeeps

LEMMA RepresentKeeps ==
  ASSUME CanvasInv, NEW r \in CardIds, NEW rewire \in BOOLEAN, Represent(r, rewire)
  PROVE  CanvasInv'
  <1> DEFINE x == IF rewire THEN doc.edges \cup Projected(cards, r) ELSE doc.edges
             f == [c \in CardIds |-> IF c \in cards THEN r ELSE doc.into[c]]
             g == [i \in IslandIds |-> IF rewire /\ doc.member[i] \cap cards # {}
                                       THEN doc.member[i] \cup {r} ELSE doc.member[i]]
             e == [doc EXCEPT !.cards = @ \cup {r}, !.into = f, !.member = g, !.edges = x]
  <1>1. /\ r \in CardIds \ used /\ edits < MaxEdits /\ edits' = edits + 1
        /\ past' = Trimmed(Append(past, doc)) /\ future' = <<>> /\ snap' = {}
        /\ doc' = e
        /\ used' = used \cup {r} /\ cards' = {r} /\ island' = None
        /\ UNCHANGED <<dragged, picking, editing>>
    BY DEF Represent, Apply
  <1>2. x \in SUBSET (Node \X Node)
    BY <1>1, ProjectedEdges, CanvasFacts
  <1>3. f \in [CardIds -> CardIds \cup {None}] /\ g \in [IslandIds -> SUBSET CardIds]
    BY CanvasFacts DEF Paper
  <1> HIDE DEF f, g, x
  <1>4. Whole(e, used \cup {r})
    BY <1>1, <1>2, <1>3, RepresentedWhole, CanvasFacts
  <1> HIDE DEF e
  <1>5. Whole(doc', used')
    BY <1>1, <1>4
  <1>6. QED
    BY <1>1, <1>5, CreateKeeps, CanvasFacts

LEMMA CommitKeeps ==
  ASSUME CanvasInv, NEW changed \in BOOLEAN, CommitCardText(changed)
  PROVE  CanvasInv'
  <1>1. CASE changed /\ editing \in doc.cards
    <2> DEFINE f == [doc.note EXCEPT ![editing] = ~@]
    <2>1. f \in [CardIds -> BOOLEAN] /\ [doc EXCEPT !.note[editing] = ~@] = [doc EXCEPT !.note = f]
      <3>1. doc.note[editing] \in BOOLEAN
        BY <1>1, CanvasFacts
      <3>2. f \in [CardIds -> BOOLEAN]
        BY <3>1, CanvasFacts
      <3>3. QED
        BY <3>2, CanvasFacts DEF Paper
    <2> HIDE DEF f
    <2>2. /\ edits < MaxEdits /\ edits' = edits + 1 /\ editing' = None
          /\ past' = Trimmed(Append(past, doc)) /\ future' = <<>> /\ snap' = {}
          /\ doc' = [doc EXCEPT !.note = f]
          /\ UNCHANGED <<dragged, cards, island, picking, used>>
      BY <1>1, <2>1 DEF CommitCardText, Apply
    <2>3. Whole(doc', used') /\ doc'.islands = doc.islands /\ used' \subseteq Node
      <3>1. Whole([doc EXCEPT !.note = f], used)
        BY <2>1, AnnotatedWhole, CanvasFacts
      <3>2. QED
        BY <2>2, <3>1, CanvasFacts DEF Paper
    <2>4. PagesOK' /\ PagesWhole' /\ DragOK'
      BY <2>2, <2>3, Applied
    <2>5. Chosen'
      BY <2>2, <2>3 DEF CanvasInv, Chosen
    <2>6. QED
      BY <2>4, <2>5 DEF CanvasInv
  <1>2. CASE ~(changed /\ editing \in doc.cards)
    <2>1. editing' = None /\ UNCHANGED <<cards, island, picking>> /\ Quiet
      BY <1>2 DEF CommitCardText
    <2>2. QED
      BY <2>1, SelectedKeeps, CanvasFacts
  <1>3. QED
    BY <1>1, <1>2

LEMMA RestoreKeeps ==
  ASSUME CanvasInv, NEW c \in CardIds, RestoreShelved(c)
  PROVE  CanvasInv'
  <1>1. /\ c \in doc.shelf /\ edits < MaxEdits /\ edits' = edits + 1
        /\ past' = Trimmed(Append(past, doc)) /\ future' = <<>> /\ snap' = {}
        /\ doc' = Hold(doc, {c}, None) /\ cards' = {c}
        /\ UNCHANGED <<dragged, island, picking, editing, used>>
    BY DEF RestoreShelved, Apply
  <1>2. Whole(Hold(doc, {c}, None), used)
    BY <1>1, HeldWhole, CanvasFacts
  <1>3. Whole(doc', used') /\ used' \subseteq Node
    BY <1>1, <1>2, CanvasFacts
  <1>4. doc'.islands = doc.islands
    BY <1>1, CanvasFacts DEF Hold, Paper
  <1>5. PagesOK' /\ PagesWhole' /\ DragOK'
    BY <1>1, <1>3, Applied
  <1>6. Chosen'
    BY <1>1, <1>4, CanvasFacts DEF Chosen
  <1>7. QED
    BY <1>5, <1>6 DEF CanvasInv

LEMMA EditCardsKeeps ==
  ASSUME CanvasInv, EditCards
  PROVE  CanvasInv'
  <1>1. ASSUME NEW c \in CardIds, AnnotateCard(c) PROVE CanvasInv'
    <2> DEFINE f == [doc.note EXCEPT ![c] = ~@]
    <2>1. f \in [CardIds -> BOOLEAN] /\ [doc EXCEPT !.note[c] = ~@] = [doc EXCEPT !.note = f]
      <3>1. doc.note[c] \in BOOLEAN
        BY CanvasFacts
      <3>2. f \in [CardIds -> BOOLEAN]
        BY <3>1, CanvasFacts
      <3>3. QED
        BY <3>2, CanvasFacts DEF Paper
    <2>2. Whole([doc EXCEPT !.note[c] = ~@], used)
      BY <2>1, AnnotatedWhole, CanvasFacts
    <2>3. QED
      BY <1>1, <2>2, AppliedInPlace DEF AnnotateCard
  <1>2. ASSUME NEW value \in BOOLEAN, AnnotateSelection(value) PROVE CanvasInv'
    <2> DEFINE f == [c \in CardIds |-> IF c \in cards \cap doc.cards THEN value ELSE doc.note[c]]
    <2>1. f \in [CardIds -> BOOLEAN]
      BY CanvasFacts
    <2>2. Whole([doc EXCEPT !.note = f], used)
      BY <2>1, AnnotatedWhole, CanvasFacts
    <2>3. QED
      BY <1>2, <2>2, AppliedInPlace DEF AnnotateSelection
  <1>3. ASSUME NEW c \in CardIds, NEW h \in {None, "held", "shelved"}, HoldCard(c, h)
        PROVE  CanvasInv'
    <2>1. c \in doc.cards
      BY <1>3 DEF HoldCard
    <2>2. Whole(Hold(doc, {c}, h), used)
      BY <2>1, HeldWhole, CanvasFacts
    <2>3. QED
      BY <1>3, <2>2, AppliedInPlace DEF HoldCard
  <1>4. ASSUME HoldSelection PROVE CanvasInv'
    <2>1. \E h \in {None, "held", "shelved"} : ApplyInPlace(Hold(doc, cards, h))
      BY <1>4 DEF HoldSelection
    <2>2. \A h \in {None, "held", "shelved"} : Whole(Hold(doc, cards, h), used)
      BY HeldWhole, CanvasFacts
    <2>3. QED
      BY <2>1, <2>2, AppliedInPlace
  <1>5. ASSUME NEW p \in Places, MoveSelection(p) PROVE CanvasInv'
    <2> DEFINE f == [c \in CardIds |-> IF c \in cards \cap doc.cards THEN p ELSE doc.place[c]]
    <2>1. f \in [CardIds -> Places]
      BY CanvasFacts
    <2>2. Whole([doc EXCEPT !.place = f], used)
      BY <2>1, PlacedWhole, CanvasFacts
    <2>3. QED
      BY <1>5, <2>2, AppliedInPlace DEF MoveSelection
  <1>6. QED
    BY <1>1, <1>2, <1>3, <1>4, <1>5, CreateCardKeeps, CommitKeeps, RestoreKeeps, DragKeeps,
       DropKeeps, RepresentKeeps DEF EditCards

LEMMA PickKeeps ==
  ASSUME CanvasInv, NEW t \in CardIds \cup IslandIds, Pick(t)
  PROVE  CanvasInv'
  <1>1. PICK s \in Sources : Apply([doc EXCEPT !.edges = @ \cup {<<s, t>>}])
    BY DEF Pick, Connect
  <1>2. picking' = FALSE /\ UNCHANGED <<dragged, cards, island, editing, used>>
    BY DEF Pick, Connect
  <1>3. s \in Node
    BY CanvasFacts DEF Sources, Node
  <1> DEFINE x == doc.edges \cup {<<s, t>>}
  <1>4. x \in SUBSET (Node \X Node)
    BY <1>3, CanvasFacts DEF Node
  <1> HIDE DEF x
  <1>5. /\ edits < MaxEdits /\ edits' = edits + 1 /\ past' = Trimmed(Append(past, doc))
        /\ future' = <<>> /\ snap' = {} /\ doc' = [doc EXCEPT !.edges = x]
    BY <1>1 DEF Apply, x
  <1>6. Whole([doc EXCEPT !.edges = x], used)
    BY <1>4, ConnectedWhole, CanvasFacts
  <1>7. Whole(doc', used') /\ used' \subseteq Node /\ doc'.islands = doc.islands
    BY <1>2, <1>5, <1>6, CanvasFacts DEF Paper
  <1>8. PagesOK' /\ PagesWhole' /\ DragOK'
    BY <1>2, <1>5, <1>7, Applied
  <1>9. Chosen'
    BY <1>2, <1>7, CanvasFacts DEF Chosen
  <1>10. QED
    BY <1>8, <1>9 DEF CanvasInv

LEMMA CreateIslandKeeps ==
  ASSUME CanvasInv, NEW i \in IslandIds, CreateIsland(i)
  PROVE  CanvasInv'
  <1> DEFINE e == [doc EXCEPT !.islands = @ \cup {i}, !.member[i] = cards]
  <1>1. /\ i \in IslandIds \ used /\ edits < MaxEdits /\ edits' = edits + 1
        /\ past' = Trimmed(Append(past, doc)) /\ future' = <<>> /\ snap' = {} /\ doc' = e
        /\ used' = used \cup {i} /\ cards' = {} /\ island' = i
        /\ UNCHANGED <<dragged, picking, editing>>
    BY DEF CreateIsland, Apply
  <1>2. Whole(e, used \cup {i})
    BY <1>1, IslandAdded, CanvasFacts
  <1>3. doc'.islands = doc.islands \cup {i}
    BY <1>1, CanvasFacts DEF Paper
  <1> HIDE DEF e
  <1>4. Whole(doc', used') /\ used' \subseteq Node
    BY <1>1, <1>2, CanvasFacts DEF Node
  <1>5. PagesOK' /\ PagesWhole' /\ DragOK'
    BY <1>1, <1>4, Applied
  <1>6. Chosen'
    BY <1>1, <1>3, CanvasFacts DEF Chosen
  <1>7. QED
    BY <1>5, <1>6 DEF CanvasInv

LEMMA DeleteIslandKeeps ==
  ASSUME CanvasInv, NEW i, DeleteIsland(i)
  PROVE  CanvasInv'
  <1>1. Whole([Without(doc, {i}) EXCEPT !.order = Dropping(@, i)], used)
    BY IslandDeleted, CanvasFacts
  <1>2. QED
    BY <1>1, AppliedInPlace DEF DeleteIsland

LEMMA DeleteSelectionKeeps ==
  ASSUME CanvasInv, DeleteSelection
  PROVE  CanvasInv'
  <1>1. CASE cards # {}
    <2> DEFINE d == WithoutCards(doc, cards)
    <2>1. /\ edits < MaxEdits /\ edits' = edits + 1 /\ past' = Trimmed(Append(past, doc))
          /\ future' = <<>> /\ snap' = {} /\ doc' = d /\ island' = Kept(island, d)
          /\ cards' = {} /\ UNCHANGED <<dragged, picking, editing, used>>
      BY <1>1 DEF DeleteSelection, Apply
    <2>2. Whole(d, used)
      BY WithoutCardsWhole, CanvasFacts
    <2> HIDE DEF d
    <2>3. Whole(doc', used') /\ used' \subseteq Node
      BY <2>1, <2>2, CanvasFacts
    <2>4. PagesOK' /\ PagesWhole' /\ DragOK'
      BY <2>1, <2>3, Applied
    <2>5. Chosen'
      BY <2>1, CanvasFacts DEF Chosen, Kept
    <2>6. QED
      BY <2>4, <2>5 DEF CanvasInv
  <1>2. CASE cards = {}
    BY <1>2, DeleteIslandKeeps DEF DeleteSelection
  <1>3. QED
    BY <1>1, <1>2

LEMMA MembershipKeeps ==
  ASSUME CanvasInv, NEW i \in IslandIds, AddSelectedTo(i) \/ RemoveSelectedFrom(i)
  PROVE  CanvasInv'
  <1>1. CASE AddSelectedTo(i)
    <2> DEFINE f == [doc.member EXCEPT ![i] = @ \cup cards]
    <2>1. f \in [IslandIds -> SUBSET CardIds]
      BY CanvasFacts
    <2>2. [doc EXCEPT !.member[i] = @ \cup cards] = [doc EXCEPT !.member = f]
      BY CanvasFacts DEF Paper
    <2> HIDE DEF f
    <2>3. Whole([doc EXCEPT !.member[i] = @ \cup cards], used)
      BY <2>1, <2>2, MembersWhole, CanvasFacts
    <2>4. QED
      BY <1>1, <2>3, AppliedInPlace DEF AddSelectedTo
  <1>2. CASE RemoveSelectedFrom(i)
    <2> DEFINE f == [doc.member EXCEPT ![i] = @ \ cards]
    <2>1. f \in [IslandIds -> SUBSET CardIds]
      BY CanvasFacts
    <2>2. [doc EXCEPT !.member[i] = @ \ cards] = [doc EXCEPT !.member = f]
      BY CanvasFacts DEF Paper
    <2> HIDE DEF f
    <2>3. Whole([doc EXCEPT !.member[i] = @ \ cards], used)
      BY <2>1, <2>2, MembersWhole, CanvasFacts
    <2>4. QED
      BY <1>2, <2>3, AppliedInPlace DEF RemoveSelectedFrom
  <1>3. QED
    BY <1>1, <1>2

LEMMA LinksKeep ==
  ASSUME CanvasInv,
         \/ \E c, d \in CardIds, k \in Kinds : AddLink(c, d, k)
         \/ \E l \in doc.links : RemoveLink(l)
  PROVE  CanvasInv'
  <1>1. ASSUME NEW c \in CardIds, NEW d \in CardIds, NEW k \in Kinds, AddLink(c, d, k)
        PROVE  CanvasInv'
    <2> DEFINE L == doc.links \cup {<<c, d, k>>}
    <2>1. c \in doc.cards /\ d \in doc.cards /\ c # d
      BY <1>1 DEF AddLink
    <2>2. /\ L \in SUBSET (CardIds \X CardIds \X Kinds)
          /\ \A l \in L : l[1] \in doc.cards /\ l[2] \in doc.cards /\ l[1] # l[2]
      BY <2>1, CanvasFacts DEF Linked
    <2>3. ApplyInPlace([doc EXCEPT !.links = L])
      BY <1>1 DEF AddLink
    <2> HIDE DEF L
    <2>4. Whole([doc EXCEPT !.links = L], used)
      BY <2>2, LinkedWhole, CanvasFacts
    <2>5. QED
      BY <2>3, <2>4, AppliedInPlace
  <1>2. ASSUME NEW l \in doc.links, RemoveLink(l) PROVE CanvasInv'
    <2> DEFINE L == doc.links \ {l}
    <2>1. /\ L \in SUBSET (CardIds \X CardIds \X Kinds)
          /\ \A m \in L : m[1] \in doc.cards /\ m[2] \in doc.cards /\ m[1] # m[2]
      BY CanvasFacts DEF Linked
    <2>2. ApplyInPlace([doc EXCEPT !.links = L])
      BY <1>2 DEF RemoveLink
    <2> HIDE DEF L
    <2>3. Whole([doc EXCEPT !.links = L], used)
      BY <2>1, LinkedWhole, CanvasFacts
    <2>4. QED
      BY <2>2, <2>3, AppliedInPlace
  <1>3. QED
    BY <1>1, <1>2

LEMMA OrderKeeps ==
  ASSUME CanvasInv,
         \/ \E e \in Things(doc) : AppendToOrder(e) \/ RemoveFromOrder(e)
         \/ \E e, t \in ToSet(doc.order), before \in BOOLEAN : MoveInOrder(e, t, before)
  PROVE  CanvasInv'
  <1>1. ASSUME NEW e \in Things(doc), AppendToOrder(e) PROVE CanvasInv'
    <2>1. e \in Node /\ \A n \in DOMAIN doc.order : doc.order[n] # e
      <3>1. e \notin ToSet(doc.order)
        BY <1>1 DEF AppendToOrder
      <3>2. QED
        BY <3>1, ToSetIs, CanvasFacts
    <2> DEFINE s == Append(doc.order, e)
    <2>2. /\ s \in Seq(Node) /\ Once(s)
          /\ \A n \in DOMAIN s : s[n] = e \/ \E m \in DOMAIN doc.order : s[n] = doc.order[m]
      BY <2>1, AppendedOnce, CanvasFacts DEF Ordered
    <2>3. ApplyInPlace([doc EXCEPT !.order = s])
      BY <1>1 DEF AppendToOrder
    <2> HIDE DEF s
    <2>4. \A n \in DOMAIN s : s[n] \in Things(doc)
      BY <2>2, CanvasFacts DEF Ordered
    <2>5. Whole([doc EXCEPT !.order = s], used)
      BY <2>2, <2>4, OrderedWhole, CanvasFacts
    <2>6. QED
      BY <2>3, <2>5, AppliedInPlace
  <1>2. ASSUME NEW e \in Things(doc), RemoveFromOrder(e) PROVE CanvasInv'
    <2> DEFINE s == Dropping(doc.order, e)
    <2>1. s \in Seq(Node) /\ Once(s) /\ \A n \in DOMAIN s : s[n] \in Things(doc)
      BY DroppedOrder, CanvasFacts
    <2>2. ApplyInPlace([doc EXCEPT !.order = s])
      BY <1>2 DEF RemoveFromOrder
    <2> HIDE DEF s
    <2>3. Whole([doc EXCEPT !.order = s], used)
      BY <2>1, OrderedWhole, CanvasFacts
    <2>4. QED
      BY <2>2, <2>3, AppliedInPlace
  <1>3. ASSUME NEW e \in ToSet(doc.order), NEW t \in ToSet(doc.order), NEW before \in BOOLEAN,
               MoveInOrder(e, t, before)
        PROVE  CanvasInv'
    <2> DEFINE rest == Dropping(doc.order, e)
               at == CHOOSE n \in 1..Len(rest) : rest[n] = t
               s == InsertAt(rest, IF before THEN at ELSE at + 1, e)
    <2>1. e # t /\ ApplyInPlace([doc EXCEPT !.order = s])
      BY <1>3 DEF MoveInOrder
    <2>2. Whole([doc EXCEPT !.order = s], used)
      BY <2>1, MovedWhole, CanvasFacts
    <2> HIDE DEF s
    <2>3. QED
      BY <2>1, <2>2, AppliedInPlace
  <1>4. QED
    BY <1>1, <1>2, <1>3

LEMMA EditStructureKeeps ==
  ASSUME CanvasInv, EditStructure
  PROVE  CanvasInv'
  <1>1. ASSUME NEW i \in IslandIds, NEW p \in IslandIds \cup {None}, SetParent(i, p)
        PROVE  CanvasInv'
    <2>1. i \in doc.islands /\ (p # None => i \notin Above(doc, p))
      BY <1>1 DEF SetParent
    <2>2. Whole([doc EXCEPT !.parent[i] = p], used)
      BY <2>1, ParentSet, CanvasFacts
    <2>3. QED
      BY <1>1, <2>2, AppliedInPlace DEF SetParent
  <1>2. QED
    BY <1>1, PickKeeps, CreateIslandKeeps, MembershipKeeps, DeleteIslandKeeps,
       DeleteSelectionKeeps, LinksKeep, OrderKeeps DEF EditStructure

-----------------------------------------------------------------------------
(* The document that is opened, and the whole.                              *)

LEMMA PlainWhole ==
  Whole(Plain, Things(Plain))
  <1>1. Plain \in Paper
    <2>1. Nowhere \in Places
      BY CanvasAssumption DEF Nowhere
    <2>2. QED
      BY <2>1, CanvasAssumption DEF Plain, Paper, Node
  <1>2. /\ Plain.cards = OldCards /\ Plain.islands = {Outer} /\ Plain.links = {} /\ Plain.order = <<>>
        /\ Plain.shelf = {} /\ Plain.hold = [c \in CardIds |-> None]
        /\ Plain.parent = [i \in IslandIds |-> None]
    BY DEF Plain
  <1>3. Linked(Plain) /\ Ordered(Plain)
    BY <1>2 DEF Linked, Ordered, Once
  <1>4. Nested(Plain)
    BY <1>2, CanvasAssumption DEF Nested, Apart
  <1>5. Marked(Plain, Things(Plain))
    BY <1>2, CanvasAssumption DEF Marked, None
  <1>6. QED
    BY <1>1, <1>3, <1>4, <1>5 DEF Whole

LEMMA WorkedWhole ==
  ASSUME NEW c \in OldCards
  PROVE  Whole(Worked(c), Things(Worked(c)))
  <1> DEFINE f == [i \in IslandIds |-> IF i = Outer THEN OldCards \ {c}
                                       ELSE IF i = Inner THEN {c} ELSE {}]
             L == {<<c, d, "contradicts">> : d \in OldCards \ {c}}
             g == [i \in IslandIds |-> IF i = Inner THEN Outer ELSE None]
             h == [d \in CardIds |-> IF d = c THEN "shelved" ELSE None]
             e == [Plain EXCEPT !.islands = {Outer, Inner}, !.parent = g, !.member = f,
                                !.hold = h, !.shelf = {c}, !.links = L, !.order = <<Inner, c>>]
  <1>1. Plain \in Paper
    BY PlainWhole DEF Whole
  <1>2. c \in CardIds /\ OldCards \subseteq CardIds /\ Outer \in IslandIds /\ Inner \in IslandIds
        /\ Outer # Inner /\ Inner # c /\ Outer # None
    BY CanvasAssumption
  <1>3. Worked(c) = e
    <2>1. /\ [Plain.parent EXCEPT ![Inner] = Outer] = g
          /\ [Plain.hold EXCEPT ![c] = "shelved"] = h
      BY <1>2 DEF Plain
    <2> HIDE DEF g, h, f, L
    <2>2. QED
      BY <2>1 DEF Worked, f, L
  <1>4. /\ f \in [IslandIds -> SUBSET CardIds] /\ g \in [IslandIds -> IslandIds \cup {None}]
        /\ h \in [CardIds -> {None, "held", "shelved"}] /\ <<Inner, c>> \in Seq(Node)
    BY <1>2 DEF Node
  <1>5. /\ L \in SUBSET (CardIds \X CardIds \X Kinds)
        /\ \A l \in L : l[1] \in OldCards /\ l[2] \in OldCards /\ l[1] # l[2]
    BY <1>2 DEF Kinds
  <1> HIDE DEF f, L
  <1>6. /\ e \in Paper /\ e.cards = OldCards /\ e.islands = {Outer, Inner} /\ e.parent = g
        /\ e.links = L /\ e.order = <<Inner, c>> /\ e.hold = h /\ e.shelf = {c}
    <2> HIDE DEF g, h
    <2>1. Plain.cards = OldCards
      BY DEF Plain
    <2>2. QED
      BY <1>1, <1>2, <1>4, <1>5, <2>1 DEF Paper
  <1> HIDE DEF e
  <1>7. Linked(e)
    BY <1>5, <1>6 DEF Linked
  <1>8. Ordered(e)
    BY <1>2, <1>6 DEF Ordered, Once, Things
  <1>9. Nested(e)
    <2>1. Closed(e, {Outer, None}) /\ {Outer, None} \in SUBSET (IslandIds \cup {None})
      BY <1>2, <1>6, CanvasBounds DEF Closed
    <2>2. Apart(e, Inner)
      <3>1. e.parent[Inner] \in {Outer, None} /\ Inner \notin {Outer, None}
        BY <1>2, <1>6, CanvasBounds
      <3>2. QED
        BY <2>1, <3>1 DEF Apart
    <2>3. Apart(e, Outer)
      BY <1>2, <1>6 DEF Apart
    <2>4. QED
      BY <2>2, <2>3, <1>6 DEF Nested
  <1>10. Marked(e, Things(e))
    BY <1>2, <1>6 DEF Marked, Things, None
  <1>11. QED
    BY <1>3, <1>6, <1>7, <1>8, <1>9, <1>10 DEF Whole

LEMMA CanvasStarts ==
  ASSUME CanvasInit
  PROVE  CanvasInv
  <1>1. Whole(doc, used)
    <2>1. (CHOOSE c \in OldCards : TRUE) \in OldCards
      BY CanvasAssumption
    <2>2. QED
      BY <2>1, PlainWhole, WorkedWhole DEF CanvasInit
  <1>2. used \subseteq Node
    BY <1>1 DEF CanvasInit, Whole, Paper, Node, Things
  <1>3. /\ past = <<>> /\ future = <<>> /\ snap = {} /\ dragged = None /\ cards = {}
        /\ island = None /\ picking = FALSE /\ editing = None /\ edits = 0
    BY DEF CanvasInit
  <1>4. PagesOK
    BY <1>2, <1>3, CanvasBounds DEF PagesOK
  <1>5. PagesWhole /\ DragOK
    <2>1. DOMAIN past = {} /\ DOMAIN future = {}
      BY <1>3
    <2>2. QED
      BY <1>1, <1>3, <2>1 DEF PagesWhole, DragOK
  <1>6. Chosen
    BY <1>3 DEF Chosen
  <1>7. QED
    BY <1>4, <1>5, <1>6 DEF CanvasInv

LEMMA CanvasStep ==
  ASSUME CanvasInv, [CanvasNext]_canvasVars
  PROVE  CanvasInv'
  <1>1. ASSUME UNCHANGED canvasVars PROVE CanvasInv'
    BY <1>1 DEF canvasVars, CanvasInv, PagesOK, PagesWhole, DragOK, Chosen
  <1>2. ASSUME Undo PROVE CanvasInv'
    BY <1>2, UndoKeeps DEF Undo
  <1>3. ASSUME DiscardLatest PROVE CanvasInv'
    BY <1>3, UndoKeeps DEF DiscardLatest
  <1>4. QED
    BY <1>1, <1>2, <1>3, SelectKeeps, EditCardsKeeps, EditStructureKeeps, RedoKeeps
       DEF CanvasNext

LEMMA OnceCounts ==
  ASSUME NEW S, NEW s \in Seq(S), Once(s)
  PROVE  Cardinality(ToSet(s)) = Len(s)
  <1>1. Len(s) \in Nat /\ DOMAIN s = 1..Len(s) /\ s = [n \in 1..Len(s) |-> s[n]]
    OBVIOUS
  <1>2. s \in [1..Len(s) -> ToSet(s)]
    BY <1>1 DEF ToSet
  <1>3. s \in Bijection(1..Len(s), ToSet(s))
    BY <1>1, <1>2 DEF Bijection, Injection, Surjection, IsInjective, Once, ToSet
  <1>4. ExistsBijection(1..Len(s), ToSet(s))
    BY <1>3 DEF ExistsBijection
  <1>5. QED
    BY <1>1, <1>4, FS_CountingElements

LEMMA WholeIsSound ==
  ASSUME NEW d, NEW u, Whole(d, u)
  PROVE  /\ TypeOfDoc(d)
         /\ \A l \in d.links : {l[1], l[2]} \subseteq d.cards /\ l[1] # l[2]
         /\ ToSet(d.order) \subseteq Things(d)
         /\ Cardinality(ToSet(d.order)) = Len(d.order)
         /\ \A i \in d.islands : d.parent[i] # None => i \notin Above(d, d.parent[i])
         /\ \A c \in d.cards : c \in d.shelf <=> d.hold[c] = "shelved"
  <1>1. d \in Paper /\ Linked(d) /\ Ordered(d) /\ Nested(d) /\ Marked(d, u)
    BY DEF Whole
  <1>2. d.order \in Seq(Node)
    BY <1>1 DEF Paper
  <1>3. TypeOfDoc(d)
    BY <1>1, <1>2, ToSetIs DEF TypeOfDoc, Paper, Node
  <1>4. ToSet(d.order) \subseteq Things(d)
    BY <1>1, <1>2, ToSetIs DEF Ordered
  <1>5. Cardinality(ToSet(d.order)) = Len(d.order)
    BY <1>1, <1>2, OnceCounts DEF Ordered
  <1>6. ASSUME NEW i \in d.islands, d.parent[i] # None PROVE i \notin Above(d, d.parent[i])
    <2>1. PICK C \in SUBSET (IslandIds \cup {None}) : Closed(d, C) /\ d.parent[i] \in C /\ i \notin C
      BY <1>1, <1>6 DEF Nested, Apart
    <2>2. d.parent[i] \in IslandIds
      BY <1>1, <1>6 DEF Paper
    <2>3. QED
      BY <2>1, <2>2, AboveIs
  <1>7. QED
    BY <1>1, <1>3, <1>4, <1>5, <1>6 DEF Linked, Marked

LEMMA CanvasGives ==
  ASSUME CanvasInv
  PROVE  CanvasInvariant /\ DragOnlyMoves
  <1>1. \A d \in Documents : Whole(d, used)
    <2>1. past \in Seq(Paper) /\ future \in Seq(Paper)
      BY DEF CanvasInv, PagesOK
    <2>2. \A d \in ToSet(past) \cup ToSet(future) : Whole(d, used)
      BY <2>1, ToSetIs DEF CanvasInv, PagesWhole
    <2>3. \A d \in snap : Whole(d, used)
      BY DEF CanvasInv, DragOK
    <2>4. QED
      BY <2>2, <2>3, CanvasFacts DEF Documents
  <1>2. Cardinality(snap) <= 1
    <2>1. CASE snap = {}
      BY <2>1, FS_EmptySet
    <2>2. CASE snap # {}
      <3>1. PICK s : snap = {s}
        BY <2>2 DEF CanvasInv, DragOK
      <3>2. Cardinality({s}) = 1
        BY FS_Singleton
      <3>3. QED
        BY <3>1, <3>2
    <2>3. QED
      BY <2>1, <2>2
  <1>3. /\ Len(past) <= HistoryLimit /\ used \subseteq CardIds \cup IslandIds /\ edits \in 0..MaxEdits
    BY DEF CanvasInv, PagesOK, Node
  <1>4. CanvasTypeOK
    BY <1>1, <1>2, <1>3, WholeIsSound, CanvasFacts DEF CanvasTypeOK
  <1>5. ReferencesSound /\ ShelfMatchesMark
    BY <1>1, WholeIsSound DEF ReferencesSound, ShelfMatchesMark
  <1>6. DragOnlyMoves
    BY DEF CanvasInv, DragOK, DragOnlyMoves
  <1>7. QED
    BY <1>4, <1>5, <1>6 DEF CanvasInvariant

(* Whatever is edited, dragged, deleted, merged, undone or redone, every    *)
(* document the history of App.tsx holds can be shown as it is: its links   *)
(* and its reading order name what it has, its islands are nested without   *)
(* cycles and its shelf agrees with the marks on its cards.                 *)
THEOREM CanvasHolds == CanvasSpec => []CanvasInvariant
  <1>1. CanvasInit => CanvasInv
    BY CanvasStarts
  <1>2. CanvasInv /\ [CanvasNext]_canvasVars => CanvasInv'
    BY CanvasStep
  <1>3. CanvasInv => CanvasInvariant
    BY CanvasGives
  <1>4. QED
    BY <1>1, <1>2, <1>3, PTL DEF CanvasSpec

(* A drag in progress has changed nothing but where cards lie since its     *)
(* snapshot: any other change of the document in between dropped it.        *)
THEOREM DragsOnlyMove == CanvasSpec => []DragOnlyMoves
  <1>1. CanvasInit => CanvasInv
    BY CanvasStarts
  <1>2. CanvasInv /\ [CanvasNext]_canvasVars => CanvasInv'
    BY CanvasStep
  <1>3. CanvasInv => DragOnlyMoves
    BY CanvasGives
  <1>4. QED
    BY <1>1, <1>2, <1>3, PTL DEF CanvasSpec
=============================================================================
