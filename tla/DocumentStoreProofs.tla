------------------------ MODULE DocumentStoreProofs ------------------------
(***************************************************************************)
(* Proofs about DocumentStore for any requests and texts: its types, the   *)
(* linear history, the saves it acknowledged and the register it implements *)
(* under either isolation level; the agreement of projection and revision, *)
(* and the absence of false divergences, where transactions read one       *)
(* snapshot and no two texts share a canonical value.                      *)
(*                                                                         *)
(* Then about CanvasView, which MCSnapshot runs beside the store, for any  *)
(* documents, islands and cards: that four rounds of effects always        *)
(* suffice, and what is true of the view when they have run.               *)
(***************************************************************************)
EXTENDS MCSnapshot, SequenceTheorems, FiniteSetTheorems, WellFoundedInduction, TLAPS

(* A request past its first statement has the fields its code reads. *)
Writing == {"row2", "head2", "get_head", "insert_row", "insert_head", "flush_row", "commit"}

ReqOK ==
    \A r \in Requests :
        /\ pc[r] = "head1" => req[r] \in Put \cup {Get}
        /\ pc[r] \in Writing => req[r] \in Put

(* Every head a session has read is one the history went through. *)
PastHead(h) == h.version = h.rev /\ h.version <= Len(revisions)

HeadsOK == \A r \in Requests : PastHead(head[r]) /\ PastHead(snap[r].head)

(* A writer without head holds the head's key, and nobody has inserted one.*)
RootOK ==
    \A r \in Requests :
        (pc[r] \in {"flush_row", "commit"} /\ head[r] = NoHead)
            => headLock = r /\ committed.head = NoHead

IInv == TypeOK /\ ReqOK /\ HistoryLinear /\ HeadsOK /\ RootOK

USE CanonAssumption, NoneAssumption, IsolationAssumption

LEMMA InitIInv == Init => IInv
  <1> SUFFICES ASSUME Init PROVE IInv
    OBVIOUS
  <1>1. committed \in StateType /\ revisions \in Seq(Revision) /\ HistoryLinear
    <2> USE DEF StateType, RowType, HeadType, Revision, NoRow, NoHead, HistoryLinear
    <2>1. CASE committed = [row |-> NoRow, head |-> NoHead] /\ revisions = <<>>
      BY <2>1
    <2>2. CASE \E t \in Texts :
                 /\ committed = [row |-> [text |-> t, life |-> "active"], head |-> NoHead]
                 /\ revisions = <<>>
      BY <2>2
    <2>3. CASE \E t \in Texts :
                 /\ committed = [row |-> [text |-> t, life |-> "active"],
                                 head |-> [version |-> 1, rev |-> 1]]
                 /\ revisions = <<[content |-> Canon[t], parent |-> 0]>>
      <3> PICK t \in Texts :
                 /\ committed = [row |-> [text |-> t, life |-> "active"],
                                 head |-> [version |-> 1, rev |-> 1]]
                 /\ revisions = <<[content |-> Canon[t], parent |-> 0]>>
        BY <2>3
      <3>1. [content |-> Canon[t], parent |-> 0] \in Revision
        OBVIOUS
      <3>2. Len(revisions) = 1 /\ revisions[1].parent = 0
        OBVIOUS
      <3>3. QED
        BY <3>1, <3>2
    <2>4. QED
      BY <2>1, <2>2, <2>3 DEF Init
  <1>2. NoRow \in RowType /\ NoHead \in HeadType
    BY DEF NoRow, NoHead, RowType, HeadType
  <1>3. TypeOK
    BY <1>1, <1>2 DEF Init, TypeOK, Running
  <1>4. ReqOK
    BY DEF Init, ReqOK, Writing
  <1>5. HistoryLinear
    BY <1>1
  <1>6. HeadsOK
    <2>1. PastHead(committed.head) /\ PastHead(NoHead)
      BY <1>1 DEF PastHead, HistoryLinear, NoHead, StateType, HeadType
    <2>2. QED
      BY <2>1 DEF Init, HeadsOK
  <1>7. RootOK
    BY DEF Init, RootOK
  <1>8. QED
    BY <1>3, <1>4, <1>5, <1>6, <1>7 DEF IInv

(* What a request reads is a committed state, now or when it began. *)
LEMMA VisibleOK ==
    ASSUME IInv, NEW r \in Requests
    PROVE  Visible(r) \in StateType /\ PastHead(Visible(r).head)
  <1>1. PastHead(committed.head)
    BY DEF IInv, TypeOK, HistoryLinear, PastHead, StateType, HeadType
  <1>2. QED
    BY <1>1 DEF IInv, TypeOK, HeadsOK, Visible

(* Statements that only move a session: its label and what it has read. *)
LEMMA ReadingKeepsIInv ==
    ASSUME IInv, NEW r \in Requests,
           \/ \E q \in Put \cup {Get} : LoadRow(r, q)
           \/ LoadHead(r) \/ ReloadRow(r) \/ ReloadHead(r) \/ GetHead(r)
    PROVE  IInv'
  <1>0. UNCHANGED <<committed, revisions, rowLock, headLock>>
    BY DEF LoadRow, LoadHead, ReloadRow, ReloadHead, GetHead, database, locks
  <1>1. TypeOK'
    <2> USE DEF IInv, TypeOK, Goto, Running, Done
    <2>1. CASE \E q \in Put \cup {Get} : LoadRow(r, q)
      BY <1>0, <2>1 DEF LoadRow, StateType, Request
    <2>2. CASE LoadHead(r)
      BY <1>0, <2>2 DEF LoadHead, locals
    <2>3. CASE ReloadRow(r)
      BY <1>0, <2>3, VisibleOK DEF ReloadRow, StateType
    <2>4. CASE ReloadHead(r)
      BY <1>0, <2>4 DEF ReloadHead, locals
    <2>5. CASE GetHead(r)
      BY <1>0, <2>5, VisibleOK DEF GetHead, StateType
    <2>6. QED
      BY <2>1, <2>2, <2>3, <2>4, <2>5
  <1>2. ReqOK'
    <2> USE DEF IInv, TypeOK, ReqOK, Writing, Goto
    <2>1. CASE \E q \in Put \cup {Get} : LoadRow(r, q)
      BY <2>1 DEF LoadRow, Get
    <2>2. CASE LoadHead(r)
      BY <2>2 DEF LoadHead, Get
    <2>3. CASE ReloadRow(r) \/ ReloadHead(r) \/ GetHead(r)
      BY <2>3 DEF ReloadRow, ReloadHead, GetHead
    <2>4. QED
      BY <2>1, <2>2, <2>3
  <1>3. HistoryLinear'
    BY <1>0 DEF IInv, HistoryLinear
  <1>4. HeadsOK'
    <2>1. PastHead(committed.head) /\ PastHead(Visible(r).head)
      BY VisibleOK DEF IInv, TypeOK, HistoryLinear, PastHead, StateType, HeadType
    <2>2. \A i \in Requests :
             /\ head'[i] = head[i] \/ head'[i] = Visible(r).head
             /\ snap'[i].head = snap[i].head \/ snap'[i].head = committed.head
      BY DEF IInv, TypeOK, LoadRow, LoadHead, ReloadRow, ReloadHead, GetHead, locals
    <2>3. QED
      BY <1>0, <2>1, <2>2 DEF IInv, HeadsOK, PastHead
  <1>5. RootOK'
    <2> USE DEF IInv, TypeOK, RootOK, Goto
    <2>1. CASE GetHead(r)
      BY <1>0, <2>1 DEF GetHead
    <2>2. CASE \/ \E q \in Put \cup {Get} : LoadRow(r, q)
               \/ LoadHead(r) \/ ReloadRow(r) \/ ReloadHead(r)
      BY <1>0, <2>2 DEF LoadRow, LoadHead, ReloadRow, ReloadHead, locals
    <2>3. QED
      BY <2>1, <2>2
  <1>6. QED
    BY <1>1, <1>2, <1>3, <1>4, <1>5 DEF IInv

(* Statements that take a lock, or give up and release theirs. *)
LEMMA LockingKeepsIInv ==
    ASSUME IInv, NEW r \in Requests,
           InsertRow(r) \/ InsertHead(r) \/ FlushRow(r) \/ HeadConflict(r)
    PROVE  IInv'
  <1>0. UNCHANGED <<committed, revisions, req, snap, row, head>>
    BY DEF InsertRow, InsertHead, FlushRow, HeadConflict, Rollback, database, locals
  <1>1. TypeOK'
    BY <1>0 DEF IInv, TypeOK, Goto, Running, Done,
                InsertRow, InsertHead, FlushRow, HeadConflict, Rollback
  <1>2. ReqOK'
    BY <1>0 DEF IInv, TypeOK, ReqOK, Writing, Goto,
                InsertRow, InsertHead, FlushRow, HeadConflict, Rollback
  <1>3. HistoryLinear' /\ HeadsOK'
    BY <1>0 DEF IInv, HistoryLinear, HeadsOK, PastHead
  <1>4. RootOK'
    <2> USE DEF IInv, TypeOK, RootOK, Goto
    <2>1. CASE InsertRow(r)
      BY <1>0, <2>1 DEF InsertRow, Rollback
    <2>2. CASE InsertHead(r)
      BY <1>0, <2>2 DEF InsertHead, Rollback
    <2>3. CASE FlushRow(r)
      BY <1>0, <2>3 DEF FlushRow
    <2>4. CASE HeadConflict(r)
      BY <1>0, <2>4 DEF HeadConflict, Rollback
    <2>5. QED
      BY <2>1, <2>2, <2>3, <2>4
  <1>5. QED
    BY <1>1, <1>2, <1>3, <1>4 DEF IInv

(* archive / unarchive leave history, heads and locks alone. *)
LEMMA LifecycleKeepsIInv ==
    ASSUME IInv, NEW r \in Requests, NEW q \in LifecycleRequest, SetLifecycleState(r, q)
    PROVE  IInv'
  <1>0. UNCHANGED <<revisions, rowLock, headLock, snap, row, head>>
    BY DEF SetLifecycleState, locals, locks
  <1>1. committed' \in StateType /\ committed'.head = committed.head
    <2>1. \/ committed' = committed
          \/ \E life \in {"active", "archived"} :
                committed' = [committed EXCEPT !.row = [committed.row EXCEPT !.life = life]]
      BY DEF SetLifecycleState
    <2>2. \A life \in {"active", "archived"} : [committed.row EXCEPT !.life = life] \in RowType
      BY DEF IInv, TypeOK, StateType, RowType
    <2>3. QED
      BY <2>1, <2>2 DEF IInv, TypeOK, StateType
  <1>2. TypeOK'
    BY <1>0, <1>1 DEF IInv, TypeOK, SetLifecycleState, Goto, Running, Done, Request
  <1>3. ReqOK'
    BY DEF IInv, TypeOK, ReqOK, Writing, SetLifecycleState, Goto
  <1>4. HistoryLinear' /\ HeadsOK'
    BY <1>0, <1>1 DEF IInv, HistoryLinear, HeadsOK, PastHead
  <1>5. RootOK'
    BY <1>0, <1>1 DEF IInv, TypeOK, RootOK, SetLifecycleState, Goto
  <1>6. QED
    BY <1>2, <1>3, <1>4, <1>5 DEF IInv

(* The commit: at most a root and one revision, on top of the head. *)
LEMMA CommitKeepsIInv ==
    ASSUME IInv, NEW r \in Requests, CommitPut(r)
    PROVE  IInv'
  <1>0. UNCHANGED <<req, snap, row, head>>
    BY DEF CommitPut, locals
  <1> DEFINE new == [content |-> Canon[req[r].text], parent |-> BaseHead(r).rev]
  <1>1. /\ req[r] \in Put /\ req[r].text \in Texts
        /\ Canon[req[r].text] \in Contents
    BY DEF IInv, TypeOK, ReqOK, Writing, CommitPut, Put
  <1>2. /\ WithRoot(r) \in Seq(Revision)
        /\ BaseHead(r) \in HeadType
        /\ AddsRevision(r) => Len(WithRoot(r)) = BaseHead(r).rev
        /\ AddsRevision(r) => BaseHead(r).version = BaseHead(r).rev
        /\ \A i \in 1..Len(WithRoot(r)) : WithRoot(r)[i].parent = i - 1
        /\ Len(WithRoot(r)) >= Len(revisions)
        /\ AddsRoot(r) => Len(WithRoot(r)) = 1 /\ BaseHead(r).version = 1 /\ BaseHead(r).rev = 1
        /\ ~AddsRoot(r) => WithRoot(r) = revisions
    <2>1. CASE AddsRoot(r)
      <3>1. committed.head = NoHead
        BY <2>1 DEF IInv, RootOK, CommitPut, AddsRoot
      <3>2. Len(revisions) = 0 /\ revisions \in Seq(Revision)
        BY <3>1 DEF IInv, TypeOK, HistoryLinear, NoHead
      <3>3. Root(RootText(r)) \in Revision /\ Root(RootText(r)).parent = 0
        BY <1>1 DEF IInv, TypeOK, RowType, RootText, Root, Revision
      <3>4. WithRoot(r) = Append(revisions, Root(RootText(r)))
        BY <2>1 DEF WithRoot
      <3>5. /\ WithRoot(r) \in Seq(Revision)
            /\ Len(WithRoot(r)) = 1
            /\ WithRoot(r)[1].parent = 0
        BY <3>2, <3>3, <3>4
      <3>6. BaseHead(r) = [version |-> 1, rev |-> 1]
        BY <2>1, <3>2 DEF BaseHead
      <3>7. QED
        BY <2>1, <3>2, <3>5, <3>6 DEF HeadType
    <2>2. CASE ~AddsRoot(r)
      BY <2>2 DEF IInv, TypeOK, HistoryLinear, HeadsOK, PastHead, WithRoot, BaseHead,
                  HeadType, StateType, HeadUnmoved, CommitPut
    <2>3. QED
      BY <2>1, <2>2
  <1>3. new \in Revision
    BY <1>1, <1>2 DEF Revision, HeadType
  <1>4. /\ revisions' \in Seq(Revision)
        /\ Len(revisions') >= Len(revisions)
        /\ \A i \in 1..Len(revisions') : revisions'[i].parent = i - 1
        /\ AddsRevision(r) => Len(revisions') = BaseHead(r).rev + 1
        /\ ~AddsRevision(r) => revisions' = WithRoot(r)
    <2>1. CASE AddsRevision(r)
      <3>1. revisions' = Append(WithRoot(r), new)
        BY <2>1 DEF CommitPut
      <3>2. /\ revisions' \in Seq(Revision)
            /\ Len(revisions') = Len(WithRoot(r)) + 1
            /\ revisions'[Len(WithRoot(r)) + 1] = new
            /\ \A i \in 1..Len(WithRoot(r)) : revisions'[i] = WithRoot(r)[i]
        BY <1>2, <1>3, <3>1
      <3>3. new.parent = Len(WithRoot(r))
        BY <1>2, <2>1
      <3> HIDE DEF new
      <3>4. Len(WithRoot(r)) \in Nat /\ Len(revisions) \in Nat
        BY <1>2 DEF IInv, TypeOK
      <3>5. \A i \in 1..Len(revisions') : revisions'[i].parent = i - 1
        <4> TAKE i \in 1..Len(revisions')
        <4>1. CASE i \in 1..Len(WithRoot(r))
          BY <1>2, <3>2, <4>1
        <4>2. CASE i = Len(WithRoot(r)) + 1
          BY <3>2, <3>3, <3>4, <4>2
        <4>3. QED
          BY <3>2, <3>4, <4>1, <4>2
      <3>6. QED
        BY <1>2, <2>1, <3>2, <3>4, <3>5 DEF HeadType
    <2>2. CASE ~AddsRevision(r)
      BY <1>2, <2>2 DEF CommitPut
    <2>3. QED
      BY <2>1, <2>2
  <1>5. committed' \in StateType
    <2>1. committed.row \in RowType /\ committed.head \in HeadType
      BY DEF IInv, TypeOK, StateType
    <2>2. /\ committed.row \in RowType
          /\ [committed.row EXCEPT !.text = req[r].text] \in RowType
      BY <1>1, <2>1 DEF RowType
    <2>3. [version |-> BaseHead(r).version + 1, rev |-> Len(revisions')] \in HeadType
      BY <1>2, <1>4 DEF HeadType
    <2>4. PICK rw \in RowType, h \in HeadType : committed' = [row |-> rw, head |-> h]
      BY <1>2, <2>1, <2>2, <2>3 DEF CommitPut
    <2>5. QED
      BY <2>4 DEF StateType
  <1>6. HistoryLinear'
    <2>1. committed'.head.version = Len(revisions') /\ committed'.head.rev = Len(revisions')
      <3>1. CASE AddsRevision(r)
        BY <1>2, <1>4, <3>1 DEF CommitPut, HeadType
      <3>2. CASE ~AddsRevision(r) /\ AddsRoot(r)
        BY <1>2, <1>4, <3>2 DEF CommitPut
      <3>3. CASE ~AddsRevision(r) /\ ~AddsRoot(r)
        BY <1>2, <1>4, <3>3 DEF CommitPut, IInv, HistoryLinear
      <3>4. QED
        BY <3>1, <3>2, <3>3
    <2>2. QED
      BY <1>4, <2>1 DEF HistoryLinear
  <1>7. TypeOK'
    BY <1>0, <1>4, <1>5 DEF IInv, TypeOK, CommitPut, Goto, Running, Done
  <1>8. ReqOK'
    BY <1>0 DEF IInv, TypeOK, ReqOK, Writing, CommitPut, Goto
  <1>9. HeadsOK'
    BY <1>0, <1>4 DEF IInv, TypeOK, HeadsOK, PastHead, StateType, HeadType
  <1>10. RootOK'
    BY <1>0 DEF IInv, TypeOK, RootOK, CommitPut, Goto
  <1>11. QED
    BY <1>6, <1>7, <1>8, <1>9, <1>10 DEF IInv

LEMMA NextIInv == IInv /\ [Next]_vars => IInv'
  <1> SUFFICES ASSUME IInv, [Next]_vars PROVE IInv'
    OBVIOUS
  <1>1. ASSUME NEW r \in Requests, Arrive(r) \/ Handle(r) PROVE IInv'
    BY <1>1, ReadingKeepsIInv, LockingKeepsIInv, LifecycleKeepsIInv, CommitKeepsIInv
       DEF Arrive, Handle
  <1>2. CASE UNCHANGED vars
    BY <1>2 DEF vars, IInv, TypeOK, ReqOK, HistoryLinear, HeadsOK, PastHead, RootOK
  <1>3. QED
    BY <1>1, <1>2 DEF Next, Terminated

(* The variables keep their types under every interleaving of requests. *)
THEOREM TypeCorrect == Spec => []TypeOK
  <1>1. IInv => TypeOK
    BY DEF IInv
  <1>2. QED
    BY <1>1, InitIInv, NextIInv, PTL DEF Spec

(* advance_revision_head keeps the generation history linear: for any      *)
(* number of concurrent saves, at either isolation level, with or without  *)
(* If-Match, the head is the newest revision, its version counts the       *)
(* saves, and each revision's parent is the one saved before it.           *)
THEOREM HistoryStaysLinear == Spec => []HistoryLinear
  <1>1. IInv => HistoryLinear
    BY DEF IInv
  <1>2. QED
    BY <1>1, InitIInv, NextIInv, PTL DEF Spec

----------------------------------------------------------------------------
(* Acknowledged saves. *)

(* Some revision restores the value of a text. *)
Kept(t) == \E i \in 1..Len(revisions) : revisions[i].content = Canon[t]

(* A row text anyone has read is still the row's as long as the document   *)
(* has no head; from then on the history has its value.                    *)
Seen(rw) ==
    rw.text # None =>
        IF committed.head = NoHead THEN rw.text = committed.row.text ELSE Kept(rw.text)

SeenOK ==
    /\ Seen(committed.row)
    /\ committed.row.text = None => committed.head = NoHead
    /\ \A r \in Requests : Seen(row[r]) /\ Seen(snap[r].row)

(* A session reads the head at get_head and not before; one that found no  *)
(* row and goes on to insert it holds the row's lock.                      *)
AbsentOK ==
    \A r \in Requests :
        /\ pc[r] \in {"start", "head1", "row2", "head2", "get_head", "insert_row", "insert_head"}
             => head[r] = NoHead
        /\ pc[r] \in {"head2", "get_head"} => row[r].text # None
        /\ pc[r] = "insert_row" => row[r].text = None
        /\ (pc[r] \in {"insert_head", "flush_row", "commit"} /\ row[r].text = None)
             => rowLock = r /\ committed.row.text = None /\ head[r] = NoHead

KeptInv == IInv /\ SeenOK /\ AbsentOK /\ AcknowledgedSaveKept

(* A head that was read is one the document has since. *)
LEMMA HeadStays ==
    ASSUME IInv, NEW r \in Requests, Visible(r).head # NoHead
    PROVE  committed.head # NoHead
  BY VisibleOK DEF IInv, TypeOK, HistoryLinear, PastHead, NoHead, StateType, HeadType

LEMMA InitKeptInv == Init => KeptInv
  <1> SUFFICES ASSUME Init PROVE KeptInv
    OBVIOUS
  <1>1. IInv
    BY InitIInv
  <1>2. Seen(committed.row) /\ (committed.row.text = None => committed.head = NoHead)
    <2>1. CASE committed.head = NoHead
      BY <2>1 DEF Seen
    <2>2. CASE \E t \in Texts :
                 /\ committed = [row |-> [text |-> t, life |-> "active"],
                                 head |-> [version |-> 1, rev |-> 1]]
                 /\ revisions = <<[content |-> Canon[t], parent |-> 0]>>
      <3>1. \E i \in 1..Len(revisions) : revisions[i].content = Canon[committed.row.text]
        <4>1. Len(revisions) = 1 /\ revisions[1].content = Canon[committed.row.text]
          BY <2>2
        <4>2. QED
          BY <4>1
      <3>2. QED
        BY <2>2, <3>1 DEF Seen, Kept
    <2>3. QED
      BY <2>1, <2>2 DEF Init
  <1>3. SeenOK
    BY <1>2 DEF Init, SeenOK, Seen, NoRow
  <1>4. AbsentOK
    BY DEF Init, AbsentOK
  <1>5. AcknowledgedSaveKept
    BY DEF Init, AcknowledgedSaveKept
  <1>6. QED
    BY <1>1, <1>3, <1>4, <1>5 DEF KeptInv

(* Reading, locking and giving up leave row text, head and history alone.  *)
LEMMA ReadingKeepsKept ==
    ASSUME KeptInv, NEW r \in Requests,
           \/ \E q \in Put \cup {Get} : LoadRow(r, q)
           \/ LoadHead(r) \/ ReloadRow(r) \/ ReloadHead(r) \/ GetHead(r)
    PROVE  SeenOK' /\ AbsentOK' /\ AcknowledgedSaveKept'
  <1> USE DEF KeptInv, IInv, TypeOK
  <1>0. UNCHANGED <<committed, revisions, rowLock, headLock>>
    BY DEF LoadRow, LoadHead, ReloadRow, ReloadHead, GetHead, database, locks
  <1>1. \A i \in Requests : /\ row'[i] \in {row[i], committed.row, snap[i].row}
                            /\ snap'[i].row \in {snap[i].row, committed.row}
    BY DEF LoadRow, LoadHead, ReloadRow, ReloadHead, GetHead, locals, Visible
  <1>2. SeenOK'
    BY <1>0, <1>1 DEF SeenOK, Seen, Kept
  <1>3. AbsentOK'
    <2>1. CASE \E q \in Put \cup {Get} : LoadRow(r, q)
      BY <1>0, <2>1 DEF LoadRow, AbsentOK, Goto
    <2>2. CASE LoadHead(r)
      BY <1>0, <2>2 DEF LoadHead, AbsentOK, Goto, locals
    <2>3. CASE ReloadRow(r)
      BY <1>0, <2>3 DEF ReloadRow, AbsentOK, Goto
    <2>4. CASE ReloadHead(r)
      BY <1>0, <2>4 DEF ReloadHead, AbsentOK, Goto, locals
    <2>5. CASE GetHead(r)
      BY <1>0, <2>5 DEF GetHead, AbsentOK, Goto
    <2>6. QED
      BY <2>1, <2>2, <2>3, <2>4, <2>5
  <1>4. AcknowledgedSaveKept'
    <2> SUFFICES ASSUME NEW i \in Requests, pc'[i] = "ok", req'[i].kind = "put"
                 PROVE  Kept(req'[i].text)
      BY <1>0 DEF AcknowledgedSaveKept, Kept
    <2>1. CASE pc[i] = "ok"
      BY <2>1 DEF AcknowledgedSaveKept, Kept, Goto,
                  LoadRow, LoadHead, ReloadRow, ReloadHead, GetHead
    <2>2. CASE pc[i] # "ok" /\ GetHead(r)
      <3>1. i = r /\ row[r].text = req[r].text /\ Visible(r).head # NoHead /\ req' = req
        BY <2>2 DEF GetHead, Goto
      <3>2. row[r].text # None
        BY <2>2, <3>1 DEF GetHead, AbsentOK
      <3>3. QED
        BY <3>1, <3>2, HeadStays DEF SeenOK, Seen
    <2>3. CASE pc[i] # "ok" /\ ~GetHead(r)
      BY <2>3 DEF Goto, LoadRow, LoadHead, ReloadRow, ReloadHead, ReqOK, Get
    <2>4. QED
      BY <2>1, <2>2, <2>3
  <1>5. QED
    BY <1>2, <1>3, <1>4

LEMMA LockingKeepsKept ==
    ASSUME KeptInv, NEW r \in Requests,
           InsertRow(r) \/ InsertHead(r) \/ FlushRow(r) \/ HeadConflict(r)
    PROVE  SeenOK' /\ AbsentOK' /\ AcknowledgedSaveKept'
  <1> USE DEF KeptInv, IInv, TypeOK
  <1>0. UNCHANGED <<committed, revisions, req, snap, row, head>>
    BY DEF InsertRow, InsertHead, FlushRow, HeadConflict, Rollback, database, locals
  <1>1. SeenOK'
    BY <1>0 DEF SeenOK, Seen, Kept
  <1>2. AbsentOK'
    <2> USE DEF AbsentOK, Goto, Rollback
    <2>1. CASE InsertRow(r)
      BY <1>0, <2>1 DEF InsertRow
    <2>2. CASE InsertHead(r)
      BY <1>0, <2>2 DEF InsertHead
    <2>3. CASE FlushRow(r)
      BY <1>0, <2>3 DEF FlushRow
    <2>4. CASE HeadConflict(r)
      BY <1>0, <2>4 DEF HeadConflict
    <2>5. QED
      BY <2>1, <2>2, <2>3, <2>4
  <1>3. AcknowledgedSaveKept'
    BY <1>0 DEF AcknowledgedSaveKept, Goto, InsertRow, InsertHead, FlushRow, HeadConflict, Rollback
  <1>4. QED
    BY <1>1, <1>2, <1>3

LEMMA LifecycleKeepsKept ==
    ASSUME KeptInv, NEW r \in Requests, NEW q \in LifecycleRequest, SetLifecycleState(r, q)
    PROVE  SeenOK' /\ AbsentOK' /\ AcknowledgedSaveKept'
  <1> USE DEF KeptInv, IInv, TypeOK
  <1>1. /\ UNCHANGED <<revisions, rowLock, headLock, snap, row, head>>
        /\ committed'.head = committed.head
        /\ committed'.row.text = committed.row.text
    BY DEF SetLifecycleState, locals, locks, StateType, RowType
  <1>2. SeenOK'
    BY <1>1 DEF SeenOK, Seen, Kept
  <1>3. AbsentOK'
    BY <1>1 DEF AbsentOK, SetLifecycleState, Goto
  <1>4. AcknowledgedSaveKept'
    BY <1>1 DEF AcknowledgedSaveKept, SetLifecycleState, Goto, LifecycleRequest
  <1>5. QED
    BY <1>2, <1>3, <1>4

(* The revision a commit adds on top. *)
Added(r) == [content |-> Canon[req[r].text], parent |-> BaseHead(r).rev]

(* The history a commit leaves: the old one, extended by a root if there   *)
(* was none and by the new value if it differs from the last one.          *)
LEMMA CommitHistory ==
    ASSUME IInv, NEW r \in Requests, CommitPut(r)
    PROVE  /\ req[r] \in Put /\ req[r].text \in Texts
           /\ AddsRoot(r) => /\ committed.head = NoHead /\ revisions = <<>>
                            /\ WithRoot(r) = <<Root(RootText(r))>>
           /\ ~AddsRoot(r) => /\ committed.head # NoHead /\ Len(revisions) > 0
                             /\ WithRoot(r) = revisions
           /\ AddsRevision(r) => revisions' = Append(WithRoot(r), Added(r))
           /\ ~AddsRevision(r) => revisions' = WithRoot(r)
           /\ Len(WithRoot(r)) \in Nat \ {0}
           /\ \A i \in 1..Len(WithRoot(r)) :
                 i \in 1..Len(revisions') /\ revisions'[i] = WithRoot(r)[i]
           /\ \A i \in 1..Len(revisions) :
                 i \in 1..Len(revisions') /\ revisions'[i] = revisions[i]
           /\ AddsRevision(r) => /\ Len(revisions') \in 1..Len(revisions')
                                /\ revisions'[Len(revisions')] = Added(r)
           /\ committed'.head # NoHead
  <1> USE DEF IInv, TypeOK
  <1>1. req[r] \in Put /\ req[r].text \in Texts
    BY DEF ReqOK, Writing, CommitPut, Put
  <1>2. /\ AddsRevision(r) => revisions' = Append(WithRoot(r), Added(r))
        /\ ~AddsRevision(r) => revisions' = WithRoot(r)
    BY DEF CommitPut, Added
  <1>3. AddsRoot(r) => /\ committed.head = NoHead /\ revisions = <<>>
                       /\ WithRoot(r) = <<Root(RootText(r))>>
    <2> SUFFICES ASSUME AddsRoot(r)
                 PROVE  /\ committed.head = NoHead /\ revisions = <<>>
                        /\ WithRoot(r) = <<Root(RootText(r))>>
      OBVIOUS
    <2>1. committed.head = NoHead
      BY DEF RootOK, CommitPut, AddsRoot
    <2>2. revisions = <<>>
      BY <2>1 DEF HistoryLinear, NoHead
    <2>3. WithRoot(r) = <<Root(RootText(r))>>
      BY <2>2 DEF WithRoot
    <2>4. QED
      BY <2>1, <2>2, <2>3
  <1>4. ~AddsRoot(r) => /\ committed.head # NoHead /\ Len(revisions) > 0
                        /\ WithRoot(r) = revisions
    BY DEF AddsRoot, HeadsOK, PastHead, HistoryLinear, NoHead, HeadType, StateType, WithRoot
  <1> DEFINE S == Revision \cup {Root(RootText(r))}
  <1>5. WithRoot(r) \in Seq(S) /\ Len(WithRoot(r)) \in Nat \ {0}
    <2>1. CASE AddsRoot(r)
      <3>1. WithRoot(r) = Append(revisions, Root(RootText(r))) /\ Root(RootText(r)) \in S
        BY <2>1 DEF WithRoot
      <3>2. revisions \in Seq(S) /\ Len(revisions) = 0
        BY <1>3, <2>1
      <3> HIDE DEF S, TypeOK
      <3>3. QED
        BY <3>1, <3>2
    <2>2. CASE ~AddsRoot(r)
      <3>1. revisions \in Seq(S) /\ Len(revisions) \in Nat
        OBVIOUS
      <3>2. QED
        BY <1>4, <2>2, <3>1
    <2>3. QED
      BY <2>1, <2>2
  <1>6. AddsRevision(r) =>
            /\ Len(revisions') = Len(WithRoot(r)) + 1
            /\ revisions'[Len(WithRoot(r)) + 1] = Added(r)
            /\ \A i \in 1..Len(WithRoot(r)) : revisions'[i] = WithRoot(r)[i]
    <2>1. WithRoot(r) \in Seq(S \cup {Added(r)})
      BY <1>5
    <2> HIDE DEF S, TypeOK
    <2>2. QED
      BY <1>2, <2>1
  <1>7. \A i \in 1..Len(WithRoot(r)) :
            i \in 1..Len(revisions') /\ revisions'[i] = WithRoot(r)[i]
    BY <1>2, <1>5, <1>6
  <1>8. \A i \in 1..Len(revisions) :
            i \in 1..Len(revisions') /\ revisions'[i] = revisions[i]
    BY <1>3, <1>4, <1>7
  <1>9. committed'.head # NoHead
    <2>1. AddsRevision(r) => committed'.head.version = BaseHead(r).version + 1
      BY DEF CommitPut
    <2>2. BaseHead(r) # NoHead /\ BaseHead(r).version \in Nat
      BY DEF BaseHead, NoHead, AddsRoot, HeadType
    <2>3. ~AddsRevision(r) => committed'.head \in {BaseHead(r), committed.head}
                              /\ (~AddsRoot(r) => committed'.head = committed.head)
                              /\ (AddsRoot(r) => committed'.head = BaseHead(r))
      BY DEF CommitPut
    <2>4. QED
      BY <1>4, <2>1, <2>2, <2>3 DEF NoHead
  <1>10. QED
    BY <1>1, <1>2, <1>3, <1>4, <1>5, <1>7, <1>8, <1>9

LEMMA CommitKeepsKept ==
    ASSUME KeptInv, NEW r \in Requests, CommitPut(r)
    PROVE  SeenOK' /\ AbsentOK' /\ AcknowledgedSaveKept'
  <1> DEFINE KeptAfter(t) == \E i \in 1..Len(revisions') : revisions'[i].content = Canon[t]
  <1> USE DEF KeptInv
  <1>0. UNCHANGED <<req, snap, row, head>>
    BY DEF CommitPut, locals
  <1>1. committed'.head # NoHead
    BY CommitHistory
  <1>2. \A t : Kept(t) => KeptAfter(t)
    BY CommitHistory DEF Kept
  <1>3. KeptAfter(req[r].text)
    <2>1. CASE AddsRevision(r)
      <3>1. Len(revisions') \in 1..Len(revisions') /\ revisions'[Len(revisions')] = Added(r)
        BY <2>1, CommitHistory
      <3>2. QED
        BY <3>1 DEF Added
    <2>2. CASE ~AddsRevision(r) /\ AddsRoot(r)
      <3>1. 1 \in 1..Len(revisions') /\ revisions'[1].content = Canon[RootText(r)]
        BY <2>2, CommitHistory DEF Root
      <3>2. QED
        BY <2>2, <3>1 DEF AddsRevision, BaseContent
    <2>3. CASE ~AddsRevision(r) /\ ~AddsRoot(r)
      <3>1. head[r].rev \in 1..Len(revisions)
        BY <2>3 DEF IInv, TypeOK, HeadsOK, PastHead, AddsRoot, NoHead, HeadType
      <3>2. Kept(req[r].text)
        BY <2>3, <3>1 DEF Kept, AddsRevision, BaseContent
      <3>3. QED
        BY <1>0, <1>2, <3>2
    <2>4. QED
      BY <2>1, <2>2, <2>3
  <1>4. committed.row.text # None => KeptAfter(committed.row.text)
    <2>1. CASE ~AddsRoot(r)
      BY <1>2, <2>1, CommitHistory DEF SeenOK, Seen
    <2>2. CASE AddsRoot(r) /\ row[r].text = None
      BY <2>2 DEF AbsentOK, CommitPut
    <2>3. CASE AddsRoot(r) /\ row[r].text # None
      <3>1. row[r].text = committed.row.text
        BY <2>3, CommitHistory DEF SeenOK, Seen
      <3>2. QED
        BY <2>3, <3>1, CommitHistory DEF RootText, Root
    <2>4. QED
      BY <2>1, <2>2, <2>3
  <1>5. committed'.row.text \in {committed.row.text, req[r].text}
    BY CommitHistory DEF CommitPut, IInv, TypeOK, StateType, RowType
  <1>6. committed'.row.text # None
    <2>1. CASE row[r].text = req[r].text
      <3>1. committed'.row = committed.row /\ row[r].text # None
        BY <2>1, CommitHistory, NoneAssumption DEF CommitPut
      <3>2. QED
        BY <3>1 DEF SeenOK, Seen
    <2>2. CASE row[r].text # req[r].text
      <3>1. committed'.row = [committed.row EXCEPT !.text = req[r].text]
        BY <2>2 DEF CommitPut
      <3>2. committed.row \in RowType /\ req[r].text # None
        BY CommitHistory, NoneAssumption DEF IInv, TypeOK, StateType
      <3>3. QED
        BY <3>1, <3>2 DEF RowType
    <2>3. QED
      BY <2>1, <2>2
  <1>7. SeenOK'
    <2>1. Seen(committed.row)'
      BY <1>1, <1>3, <1>4, <1>5 DEF Seen, Kept
    <2>2. \A rw : Seen(rw) => (rw.text # None => KeptAfter(rw.text))
      BY <1>2, <1>4 DEF Seen
    <2>3. \A i \in Requests : Seen(row[i])' /\ Seen(snap[i].row)'
      BY <1>0, <1>1, <2>2 DEF SeenOK, Seen, Kept
    <2>4. QED
      BY <1>6, <2>1, <2>3 DEF SeenOK
  <1>8. AbsentOK'
    <2>1. \A i \in Requests : (i # r /\ rowLock = i) => rowLock' = i
      BY DEF CommitPut
    <2>2. ASSUME NEW i \in Requests, i # r,
                 pc[i] \in {"insert_head", "flush_row", "commit"}, row[i].text = None
          PROVE  committed'.row.text = None
      <3>1. rowLock = i /\ committed.row.text = None /\ committed.head = NoHead
        BY <2>2 DEF AbsentOK, SeenOK
      <3>2. row[r].text # None
        BY <2>2, <3>1 DEF AbsentOK, CommitPut
      <3>3. row[r].text = None
        BY <3>1 DEF SeenOK, Seen
      <3>4. QED
        BY <3>2, <3>3
    <2>3. QED
      BY <1>0, <2>1, <2>2 DEF AbsentOK, CommitPut, Goto, IInv, TypeOK
  <1>9. AcknowledgedSaveKept'
    <2> SUFFICES ASSUME NEW i \in Requests, pc'[i] = "ok", req'[i].kind = "put"
                 PROVE  KeptAfter(req[i].text)
      BY <1>0 DEF AcknowledgedSaveKept, Kept
    <2>1. CASE i = r
      BY <1>0, <1>3, <2>1
    <2>2. CASE i # r
      <3>1. Kept(req[i].text)
        BY <1>0, <2>2 DEF AcknowledgedSaveKept, Kept, CommitPut, Goto, IInv, TypeOK
      <3>2. QED
        BY <1>0, <1>2, <3>1
    <2>3. QED
      BY <2>1, <2>2
  <1>10. QED
    BY <1>7, <1>8, <1>9

LEMMA NextKeptInv == KeptInv /\ [Next]_vars => KeptInv'
  <1> SUFFICES ASSUME KeptInv, [Next]_vars PROVE KeptInv'
    OBVIOUS
  <1>1. IInv'
    BY NextIInv DEF KeptInv
  <1>2. ASSUME NEW r \in Requests, Arrive(r) \/ Handle(r)
        PROVE  SeenOK' /\ AbsentOK' /\ AcknowledgedSaveKept'
    BY <1>2, ReadingKeepsKept, LockingKeepsKept, LifecycleKeepsKept, CommitKeepsKept
       DEF Arrive, Handle
  <1>3. CASE UNCHANGED vars
    <2> USE <1>3 DEF vars, KeptInv
    <2>1. SeenOK'
      BY DEF SeenOK, Seen, Kept
    <2>2. AbsentOK' /\ AcknowledgedSaveKept'
      BY DEF AbsentOK, AcknowledgedSaveKept
    <2>3. QED
      BY <1>1, <2>1, <2>2
  <1>4. QED
    BY <1>1, <1>2, <1>3 DEF Next, Terminated, KeptInv

(* No acknowledged save is ever missing from the history: save() answers   *)
(* 200 early on an equal text or digest only when a revision has the value,*)
(* at either isolation level and whatever commits in between.              *)
THEOREM AcknowledgedSavesStay == Spec => []AcknowledgedSaveKept
  <1>1. KeptInv => AcknowledgedSaveKept
    BY DEF KeptInv
  <1>2. QED
    BY <1>1, InitKeptInv, NextKeptInv, PTL DEF Spec

----------------------------------------------------------------------------
(* Statements that read one snapshot, and texts that are their own value.  *)

SnapshotReads == Isolation = "snapshot"

Injective == \A s, t \in Texts : Canon[s] = Canon[t] => s = t

(* Row and head of one state of the document agree. *)
Consistent(st) ==
    st.head # NoHead => revisions[st.head.rev].content = Canon[st.row.text]

(* What a session has read is its snapshot, and nothing in it diverges; a  *)
(* writer has passed the comparison with the row's ETag, and one that goes *)
(* on to write on top of a head has something to change.                   *)
SnapshotOK ==
    \A r \in Requests :
        /\ Consistent(snap[r])
        /\ snap[r].row.text = None => snap[r].head = NoHead
        /\ pc[r] \in Running \ {"start"} => row[r] = snap[r].row
        /\ pc[r] \in {"insert_head", "flush_row", "commit"} => head[r] = snap[r].head
        /\ pc[r] \in {"flush_row", "commit"} => head[r] = NoHead \/ row[r].text # req[r].text
        /\ pc[r] # "diverged"
        /\ pc[r] = "head1" => row[r].text # None
        /\ pc[r] \in Writing => \/ req[r].ifMatch = None
                                \/ row[r].text # None /\ ETagMatches(req[r].ifMatch, row[r])

SnapshotInv == KeptInv /\ ProjectionMatchesHead /\ SnapshotOK

LEMMA InitSnapshotInv == Init => SnapshotInv
  <1> SUFFICES ASSUME Init PROVE SnapshotInv
    OBVIOUS
  <1>1. KeptInv
    BY InitKeptInv
  <1>2. ProjectionMatchesHead
    <2>1. CASE committed.head = NoHead
      BY <2>1 DEF ProjectionMatchesHead
    <2>2. CASE \E t \in Texts :
                 /\ committed = [row |-> [text |-> t, life |-> "active"],
                                 head |-> [version |-> 1, rev |-> 1]]
                 /\ revisions = <<[content |-> Canon[t], parent |-> 0]>>
      BY <2>2 DEF ProjectionMatchesHead
    <2>3. QED
      BY <2>1, <2>2 DEF Init
  <1>3. SnapshotOK
    BY <1>1, <1>2 DEF Init, KeptInv, SeenOK, SnapshotOK, Consistent, ProjectionMatchesHead, Writing
  <1>4. QED
    BY <1>1, <1>2, <1>3 DEF SnapshotInv

(* No session sees a divergence between its row and its head. *)
LEMMA NothingDiverges ==
    ASSUME SnapshotInv, SnapshotReads, NEW r \in Requests, pc[r] \in Running \ {"start"}
    PROVE  ~Diverges(row[r], Visible(r).head)
  BY DEF SnapshotInv, SnapshotReads, SnapshotOK, Consistent, Diverges, Visible

LEMMA ReadingKeepsSnapshot ==
    ASSUME SnapshotInv, SnapshotReads, NEW r \in Requests,
           \/ \E q \in Put \cup {Get} : LoadRow(r, q)
           \/ LoadHead(r) \/ ReloadRow(r) \/ ReloadHead(r) \/ GetHead(r)
    PROVE  ProjectionMatchesHead' /\ SnapshotOK'
  <1> USE DEF SnapshotInv, KeptInv, IInv, TypeOK
  <1>0. UNCHANGED <<committed, revisions>>
    BY DEF LoadRow, LoadHead, ReloadRow, ReloadHead, GetHead, database
  <1>1. ProjectionMatchesHead'
    BY <1>0 DEF ProjectionMatchesHead
  <1>2. SnapshotOK'
    <2> USE DEF SnapshotOK, Consistent, Goto
    <2>1. CASE \E q \in Put \cup {Get} : LoadRow(r, q)
      <3> PICK q \in Put \cup {Get} : LoadRow(r, q)
        BY <2>1
      <3>1. \A i \in Requests : i # r => /\ pc'[i] = pc[i] /\ req'[i] = req[i]
                                         /\ snap'[i] = snap[i] /\ row'[i] = row[i]
        BY DEF LoadRow
      <3>2. head' = head /\ snap'[r] = committed /\ row'[r] = committed.row /\ req'[r] = q
        BY DEF LoadRow
      <3>3. pc'[r] \in {"head1", "not_found", "etag_mismatch", "row2"}
            /\ (pc'[r] = "head1" => committed.row.text # None)
            /\ (pc'[r] = "row2" => q.ifMatch = None)
        BY DEF LoadRow
      <3>4. QED
        BY <1>0, <3>1, <3>2, <3>3 DEF SeenOK, ProjectionMatchesHead, Writing, ETagMatches
    <2>2. CASE LoadHead(r)
      <3>1. UNCHANGED <<req, snap, row, head>>
        BY <2>2 DEF LoadHead, locals
      <3>2. pc' = [pc EXCEPT ![r] = pc'[r]]
            /\ pc'[r] \in {"ok", "archived", "etag_mismatch", "row2"}
            /\ (pc'[r] = "row2" => ETagMatches(req[r].ifMatch, row[r]))
        BY <2>2, NothingDiverges DEF LoadHead, Running
      <3>3. QED
        BY <1>0, <2>2, <3>1, <3>2 DEF LoadHead, Writing, Running, ETagMatches
    <2>3. CASE ReloadRow(r)
      <3>1. row' = row
        BY <2>3 DEF ReloadRow, Visible, SnapshotReads, Running
      <3>2. QED
        BY <1>0, <2>3, <3>1 DEF ReloadRow, Writing, Running, ETagMatches
    <2>4. CASE ReloadHead(r)
      <3>1. pc' = [pc EXCEPT ![r] = "get_head"]
        BY <2>4, NothingDiverges DEF ReloadHead, Running
      <3>2. QED
        BY <1>0, <2>4, <3>1 DEF ReloadHead, Writing, Running, ETagMatches, locals
    <2>5. CASE GetHead(r)
      <3>1. head' = [head EXCEPT ![r] = snap[r].head] /\ UNCHANGED <<req, snap, row>>
        BY <2>5 DEF GetHead, Visible, SnapshotReads
      <3>2. pc' = [pc EXCEPT ![r] = pc'[r]]
            /\ pc'[r] \in {"insert_head", "ok", "flush_row"}
            /\ (pc'[r] = "flush_row" => row[r].text # req[r].text)
        BY <2>5 DEF GetHead
      <3>3. QED
        BY <1>0, <2>5, <3>1, <3>2 DEF GetHead, Writing, Running, ETagMatches
    <2>6. QED
      BY <2>1, <2>2, <2>3, <2>4, <2>5
  <1>3. QED
    BY <1>1, <1>2

LEMMA LockingKeepsSnapshot ==
    ASSUME SnapshotInv, NEW r \in Requests,
           InsertRow(r) \/ InsertHead(r) \/ FlushRow(r) \/ HeadConflict(r)
    PROVE  ProjectionMatchesHead' /\ SnapshotOK'
  <1> USE DEF SnapshotInv, KeptInv, IInv, TypeOK
  <1>0. UNCHANGED <<committed, revisions, req, snap, row, head>>
    BY DEF InsertRow, InsertHead, FlushRow, HeadConflict, Rollback, database, locals
  <1>1. ProjectionMatchesHead'
    BY <1>0 DEF ProjectionMatchesHead
  <1>2. SnapshotOK'
    <2> USE DEF SnapshotOK, Consistent, Goto, Rollback, Writing, Running
    <2>1. CASE InsertRow(r)
      BY <1>0, <2>1 DEF InsertRow, AbsentOK
    <2>2. CASE InsertHead(r)
      BY <1>0, <2>2 DEF InsertHead, AbsentOK
    <2>3. CASE FlushRow(r)
      BY <1>0, <2>3 DEF FlushRow
    <2>4. CASE HeadConflict(r)
      BY <1>0, <2>4 DEF HeadConflict
    <2>5. QED
      BY <2>1, <2>2, <2>3, <2>4
  <1>3. QED
    BY <1>1, <1>2

LEMMA LifecycleKeepsSnapshot ==
    ASSUME SnapshotInv, NEW r \in Requests, NEW q \in LifecycleRequest, SetLifecycleState(r, q)
    PROVE  ProjectionMatchesHead' /\ SnapshotOK'
  <1> USE DEF SnapshotInv, KeptInv, IInv, TypeOK
  <1>1. /\ UNCHANGED <<revisions, snap, row, head>>
        /\ committed'.head = committed.head
        /\ committed'.row.text = committed.row.text
    BY DEF SetLifecycleState, locals, StateType, RowType
  <1>2. ProjectionMatchesHead'
    BY <1>1 DEF ProjectionMatchesHead
  <1>3. /\ pc' = [pc EXCEPT ![r] = pc'[r]] /\ pc'[r] \in {"ok", "not_found"}
        /\ req' = [req EXCEPT ![r] = q]
    BY DEF SetLifecycleState, Goto
  <1>4. SnapshotOK'
    BY <1>1, <1>3 DEF SnapshotOK, Consistent, Running, Writing
  <1>5. QED
    BY <1>2, <1>4

(* A save commits on top of the very text its session read, whatever       *)
(* committed in between: otherwise its head statement finds no row.        *)
LEMMA CommitsOnWhatItRead ==
    ASSUME SnapshotInv, Injective, NEW r \in Requests, CommitPut(r)
    PROVE  /\ committed.row.text = row[r].text
           /\ AddsRoot(r) \/ AddsRevision(r)
           /\ committed'.row.text = req[r].text
  <1> USE DEF SnapshotInv, KeptInv
  <1>1. ASSUME AddsRoot(r) PROVE committed.row.text = row[r].text
    <2>1. CASE row[r].text = None
      BY <2>1 DEF AbsentOK, CommitPut
    <2>2. CASE row[r].text # None
      BY <1>1, <2>2, CommitHistory DEF SeenOK, Seen
    <2>3. QED
      BY <2>1, <2>2
  <1>2. ASSUME ~AddsRoot(r) PROVE committed.row.text = row[r].text /\ AddsRevision(r)
    <2>1. /\ row[r] = snap[r].row /\ head[r] = snap[r].head /\ head[r] # NoHead
          /\ row[r].text # req[r].text /\ row[r].text # None
      BY <1>2 DEF SnapshotOK, AbsentOK, CommitPut, AddsRoot, Running
    <2>2. row[r].text \in Texts /\ req[r].text \in Texts
      BY <2>1, CommitHistory DEF IInv, TypeOK, RowType
    <2>3. BaseContent(r) = Canon[row[r].text]
      BY <1>2, <2>1 DEF SnapshotOK, Consistent, BaseContent
    <2>4. AddsRevision(r)
      BY <2>1, <2>2, <2>3 DEF Injective, AddsRevision
    <2>5. committed.head = head[r]
      BY <1>2, <2>4 DEF CommitPut, HeadUnmoved, IInv, TypeOK, HistoryLinear, HeadsOK, PastHead,
                        StateType, HeadType
    <2>6. committed.row.text \in Texts
      BY <2>1, <2>5 DEF SeenOK, IInv, TypeOK, StateType, RowType
    <2>7. Canon[committed.row.text] = Canon[row[r].text]
      BY <1>2, <2>1, <2>3, <2>5 DEF ProjectionMatchesHead, BaseContent
    <2>8. QED
      BY <2>2, <2>4, <2>6, <2>7 DEF Injective
  <1>3. committed'.row.text = req[r].text
    <2>1. CASE row[r].text = req[r].text
      BY <1>1, <1>2, <2>1 DEF CommitPut
    <2>2. CASE row[r].text # req[r].text
      <3>1. committed'.row = [committed.row EXCEPT !.text = req[r].text]
        BY <2>2 DEF CommitPut
      <3>2. QED
        BY <3>1 DEF IInv, TypeOK, StateType, RowType
    <2>3. QED
      BY <2>1, <2>2
  <1>4. QED
    BY <1>1, <1>2, <1>3

LEMMA CommitKeepsSnapshot ==
    ASSUME SnapshotInv, Injective, NEW r \in Requests, CommitPut(r)
    PROVE  ProjectionMatchesHead' /\ SnapshotOK'
  <1> USE DEF SnapshotInv, KeptInv, IInv
  <1>0. UNCHANGED <<req, snap, row, head>> /\ pc' = [pc EXCEPT ![r] = "ok"]
    BY DEF CommitPut, locals, Goto
  <1>1. ProjectionMatchesHead'
    <2>1. CASE AddsRevision(r)
      <3>1. committed'.head.rev = Len(revisions')
        BY <2>1 DEF CommitPut
      <3>2. revisions'[Len(revisions')].content = Canon[req[r].text]
        <4>1. revisions'[Len(revisions')] = Added(r)
          BY <2>1, CommitHistory
        <4>2. QED
          BY <4>1 DEF Added
      <3>3. QED
        BY <3>1, <3>2, CommitsOnWhatItRead DEF ProjectionMatchesHead
    <2>2. CASE ~AddsRevision(r)
      <3>1. AddsRoot(r)
        BY <2>2, CommitsOnWhatItRead
      <3>2. committed'.head.rev = 1
        <4>1. BaseHead(r).rev = 1
          BY <3>1, CommitHistory DEF BaseHead
        <4>2. QED
          BY <2>2, <3>1, <4>1 DEF CommitPut
      <3>3. revisions'[1].content = Canon[req[r].text]
        BY <2>2, <3>1, CommitHistory DEF Root, AddsRevision, BaseContent
      <3>4. QED
        BY <3>2, <3>3, CommitsOnWhatItRead DEF ProjectionMatchesHead
    <2>3. QED
      BY <2>1, <2>2
  <1>2. \A i \in Requests : Consistent(snap[i])'
    <2> SUFFICES ASSUME NEW i \in Requests, snap[i].head # NoHead
                 PROVE  revisions'[snap[i].head.rev].content = Canon[snap[i].row.text]
      BY <1>0 DEF Consistent
    <2>1. snap[i].head.rev \in 1..Len(revisions)
      BY DEF TypeOK, HeadsOK, PastHead, StateType, HeadType, NoHead
    <2>2. QED
      BY <2>1, CommitHistory DEF SnapshotOK, Consistent
  <1>3. SnapshotOK'
    BY <1>0, <1>2 DEF TypeOK, SnapshotOK, Running, Writing, ETagMatches
  <1>4. QED
    BY <1>1, <1>3

LEMMA NextSnapshotInv ==
    ASSUME SnapshotReads, Injective
    PROVE  SnapshotInv /\ [Next]_vars => SnapshotInv'
  <1> SUFFICES ASSUME SnapshotInv, [Next]_vars PROVE SnapshotInv'
    OBVIOUS
  <1>1. KeptInv'
    BY NextKeptInv DEF SnapshotInv
  <1>2. ASSUME NEW r \in Requests, Arrive(r) \/ Handle(r)
        PROVE  ProjectionMatchesHead' /\ SnapshotOK'
    BY <1>2, ReadingKeepsSnapshot, LockingKeepsSnapshot, LifecycleKeepsSnapshot,
       CommitKeepsSnapshot DEF Arrive, Handle
  <1>3. CASE UNCHANGED vars
    <2> USE <1>3 DEF vars, SnapshotInv
    <2>1. ProjectionMatchesHead'
      BY DEF ProjectionMatchesHead
    <2>2. SnapshotOK'
      BY DEF SnapshotOK, Consistent, ETagMatches
    <2>3. QED
      BY <1>1, <2>1, <2>2
  <1>4. QED
    BY <1>1, <1>2, <1>3 DEF Next, Terminated, SnapshotInv

(* Where a transaction reads one snapshot and no two texts have one value, *)
(* the row's projection and the revision under the head never part.        *)
THEOREM ProjectionStaysInStep ==
    ASSUME SnapshotReads, Injective
    PROVE  Spec => []ProjectionMatchesHead
  <1>1. SnapshotInv => ProjectionMatchesHead
    BY DEF SnapshotInv
  <1>2. QED
    BY <1>1, InitSnapshotInv, NextSnapshotInv, PTL DEF Spec

(* Then, too, no request is answered 503 for a divergence: a reader that   *)
(* races a save never takes two states of the document for a broken one.   *)
THEOREM NoFalseDivergence ==
    ASSUME SnapshotReads, Injective
    PROVE  Spec => []DivergenceIsReal
  <1>1. SnapshotInv => DivergenceIsReal
    BY DEF SnapshotInv, SnapshotOK, DivergenceIsReal
  <1>2. QED
    BY <1>1, InitSnapshotInv, NextSnapshotInv, PTL DEF Spec

----------------------------------------------------------------------------
(* The refinement of the register. *)

(* The values of a history, as the register records them. *)
Values(s) == [i \in 1..Len(s) |-> s[i].content]

LEMMA ShortSequences ==
    ASSUME NEW a, NEW b
    PROVE  /\ Append(<<>>, a) = <<a>>
           /\ Append(<<a>>, b) = <<a, b>>
           /\ <<a>> # <<>> /\ <<a>>[Len(<<a>>)] = a
  <1>1. Append(<<>>, a) = <<a>> /\ <<a>> # <<>> /\ <<a>>[Len(<<a>>)] = a
    OBVIOUS
  <1>2. Append(<<a>>, b) = <<a, b>>
    <2>1. <<a>> \in Seq({a, b}) /\ <<a, b>> \in Seq({a, b})
      OBVIOUS
    <2>2. Append(<<a>>, b) \in Seq({a, b}) /\ Len(Append(<<a>>, b)) = 2
      OBVIOUS
    <2>3. \A i \in 1..2 : Append(<<a>>, b)[i] = <<a, b>>[i]
      <3>1. Append(<<a>>, b)[1] = a /\ Append(<<a>>, b)[2] = b
        OBVIOUS
      <3>2. QED
        BY <3>1
    <2>4. QED
      BY <2>1, <2>2, <2>3, SeqEqual
  <1>3. QED
    BY <1>1, <1>2

LEMMA ValuesSeq ==
    ASSUME NEW s \in Seq(Revision)
    PROVE  Values(s) \in Seq(Contents) /\ Len(Values(s)) = Len(s)
  <1>1. Len(s) \in Nat /\ \A i \in 1..Len(s) : s[i].content \in Contents
    <2>1. Len(s) \in Nat /\ \A i \in 1..Len(s) : s[i] \in Revision
      OBVIOUS
    <2>2. QED
      BY <2>1 DEF Revision
  <1>2. Values(s) \in [1..Len(s) -> Contents]
    BY <1>1 DEF Values
  <1>3. QED
    BY <1>1, <1>2, SeqDef

LEMMA ValuesAppend ==
    ASSUME NEW s \in Seq(Revision), NEW x \in Revision
    PROVE  Values(Append(s, x)) = Append(Values(s), x.content)
  <1>1. /\ Append(s, x) \in Seq(Revision) /\ Len(Append(s, x)) = Len(s) + 1
        /\ Append(s, x)[Len(s) + 1] = x
        /\ \A i \in 1..Len(s) : Append(s, x)[i] = s[i]
    OBVIOUS
  <1>2. x.content \in Contents /\ Len(s) \in Nat
    BY DEF Revision
  <1>3. /\ Values(Append(s, x)) \in Seq(Contents)
        /\ Len(Values(Append(s, x))) = Len(s) + 1
        /\ Append(Values(s), x.content) \in Seq(Contents)
        /\ Len(Append(Values(s), x.content)) = Len(s) + 1
    <2>1. Values(s) \in Seq(Contents) /\ Len(Values(s)) = Len(s)
      BY ValuesSeq
    <2>2. /\ Values(Append(s, x)) \in Seq(Contents)
          /\ Len(Values(Append(s, x))) = Len(Append(s, x))
      BY <1>1, ValuesSeq
    <2>3. QED
      BY <1>1, <1>2, <2>1, <2>2
  <1>4. \A i \in 1..(Len(s) + 1) : Values(Append(s, x))[i] = Append(Values(s), x.content)[i]
    <2> TAKE i \in 1..(Len(s) + 1)
    <2>1. Values(Append(s, x))[i] = Append(s, x)[i].content
      BY <1>1 DEF Values
    <2>2. CASE i \in 1..Len(s)
      <3>1. Append(Values(s), x.content)[i] = Values(s)[i]
        BY <1>2, <2>2, ValuesSeq
      <3>2. Values(s)[i] = s[i].content
        BY <2>2 DEF Values
      <3>3. QED
        BY <1>1, <2>1, <2>2, <3>1, <3>2
    <2>3. CASE i = Len(s) + 1
      BY <1>1, <1>2, <2>1, <2>3, ValuesSeq
    <2>4. i \in 1..Len(s) \/ i = Len(s) + 1
      BY <1>2
    <2>5. QED
      BY <2>2, <2>3, <2>4
  <1>5. QED
    BY <1>3, <1>4, SeqEqual

(* A request that has not arrived asks for nothing yet. *)
NotYetAsked == \A r \in Requests : pc[r] = "start" => req[r] = None

RefinementInv == SnapshotInv /\ NotYetAsked

Answers == [r \in Requests |-> Answer(pc[r])]

LEMMA OneAnswer ==
    ASSUME IInv, NEW r \in Requests, NEW label, Goto(r, label)
    PROVE  Answers' = [Answers EXCEPT ![r] = Answer(label)]
  BY DEF IInv, TypeOK, Goto, Answers

LEMMA InitRefinementInv == Init => RefinementInv
  BY InitSnapshotInv DEF RefinementInv, NotYetAsked, Init

LEMMA NextRefinementInv ==
    ASSUME SnapshotReads, Injective
    PROVE  RefinementInv /\ [Next]_vars => RefinementInv'
  <1> SUFFICES ASSUME RefinementInv, [Next]_vars PROVE RefinementInv'
    OBVIOUS
  <1>1. SnapshotInv'
    BY NextSnapshotInv DEF RefinementInv
  <1>2. ASSUME NEW r \in Requests, Arrive(r) \/ Handle(r) PROVE NotYetAsked'
    <2> USE DEF RefinementInv, NotYetAsked, SnapshotInv, KeptInv, IInv, TypeOK, Goto, Rollback
    <2>1. CASE Arrive(r)
      BY <2>1 DEF Arrive, LoadRow, SetLifecycleState
    <2>2. CASE LoadHead(r) \/ ReloadRow(r) \/ ReloadHead(r) \/ GetHead(r)
      BY <2>2 DEF LoadHead, ReloadRow, ReloadHead, GetHead
    <2>3. CASE InsertRow(r) \/ InsertHead(r) \/ FlushRow(r) \/ CommitPut(r) \/ HeadConflict(r)
      BY <2>3 DEF InsertRow, InsertHead, FlushRow, CommitPut, HeadConflict
    <2>4. QED
      BY <1>2, <2>1, <2>2, <2>3 DEF Handle
  <1>3. CASE UNCHANGED vars
    BY <1>1, <1>3 DEF vars, RefinementInv, NotYetAsked
  <1>4. QED
    BY <1>1, <1>2, <1>3 DEF Next, Terminated, RefinementInv

LEMMA InitRefines == Init => Register!RegisterInit
  <1> SUFFICES ASSUME Init PROVE Register!RegisterInit
    OBVIOUS
  <1>1. IInv
    BY InitIInv
  <1>2. committed.row.text \in Texts \cup {None}
    BY <1>1 DEF IInv, TypeOK, StateType, RowType
  <1>3. \/ Values(revisions) = <<>>
        \/ committed.row.text # None /\ Values(revisions) = <<Canon[committed.row.text]>>
    <2>1. CASE revisions = <<>>
      BY <2>1 DEF Values
    <2>2. CASE \E t \in Texts :
                 /\ committed = [row |-> [text |-> t, life |-> "active"],
                                 head |-> [version |-> 1, rev |-> 1]]
                 /\ revisions = <<[content |-> Canon[t], parent |-> 0]>>
      <3> PICK t \in Texts :
                 /\ committed = [row |-> [text |-> t, life |-> "active"],
                                 head |-> [version |-> 1, rev |-> 1]]
                 /\ revisions = <<[content |-> Canon[t], parent |-> 0]>>
        BY <2>2
      <3>1. Values(revisions) = <<Canon[t]>>
        BY DEF Values
      <3>2. QED
        BY <3>1
    <2>3. QED
      BY <2>1, <2>2 DEF Init
  <1>4. Answers = Register!Pending
    BY DEF Init, Answers, Answer, Running, Register!Pending
  <1>5. QED
    BY <1>2, <1>3, <1>4 DEF Init, Register!RegisterInit, Values, Answers

(* A request arrives, or is refused or served by its first statement. *)
LEMMA ArriveRefines ==
    ASSUME RefinementInv, NEW r \in Requests, Arrive(r)
    PROVE  Register!Arrive(r)
  <1> USE DEF RefinementInv, SnapshotInv, KeptInv
  <1>1. pc[r] = "start" /\ Answers[r] = "pending" /\ req[r] = None
    BY DEF Arrive, LoadRow, SetLifecycleState, NotYetAsked, Answers, Answer, Running
  <1>2. UNCHANGED revisions /\ committed'.row.text = committed.row.text
    BY DEF Arrive, LoadRow, SetLifecycleState, database, IInv, TypeOK, StateType, RowType
  <1>3. \E q \in Request, label \in {"head1", "not_found", "etag_mismatch", "row2", "ok"} :
           /\ label = "ok" => q.kind # "put"
           /\ req' = [req EXCEPT ![r] = q]
           /\ Goto(r, label)
    <2>1. CASE \E q \in Put \cup {Get} : LoadRow(r, q)
      BY <2>1 DEF LoadRow, Request
    <2>2. CASE \E q \in LifecycleRequest : SetLifecycleState(r, q)
      BY <2>2 DEF SetLifecycleState, Request, LifecycleRequest
    <2>3. QED
      BY <2>1, <2>2 DEF Arrive
  <1>4. PICK q \in Request, label \in {"head1", "not_found", "etag_mismatch", "row2", "ok"} :
           /\ label = "ok" => q.kind # "put"
           /\ req' = [req EXCEPT ![r] = q]
           /\ Goto(r, label)
    BY <1>3
  <1>5. Answers' = [Answers EXCEPT ![r] = Answer(label)]
    BY <1>4, OneAnswer
  <1>6. Answer(label) \in {"pending", "ok", "rejected"} /\ (Answer(label) = "ok" => label = "ok")
    BY DEF Answer
  <1>7. QED
    BY <1>1, <1>2, <1>4, <1>5, <1>6 DEF Register!Arrive, Answers

(* Between arrival and commit the register does not move: a statement goes *)
(* unseen, refuses the request, or serves a GET or a PUT of a value that   *)
(* the history has.                                                        *)
LEMMA SessionRefines ==
    ASSUME RefinementInv, NEW r \in Requests,
           \/ LoadHead(r) \/ ReloadRow(r) \/ ReloadHead(r) \/ GetHead(r)
           \/ InsertRow(r) \/ InsertHead(r) \/ FlushRow(r) \/ HeadConflict(r)
    PROVE  Register!Acknowledge(r) \/ Register!Reject(r) \/ UNCHANGED Register!registerVars
  <1> USE DEF RefinementInv, SnapshotInv, KeptInv
  <1>1. UNCHANGED <<committed, revisions, req>>
    BY DEF LoadHead, ReloadRow, ReloadHead, GetHead, InsertRow, InsertHead, FlushRow,
           HeadConflict, Rollback, database
  <1>2. pc[r] \in Running /\ req[r] # None /\ Answers[r] = "pending"
    <2>1. pc[r] \in Writing \cup {"head1"}
      BY DEF LoadHead, ReloadRow, ReloadHead, GetHead, InsertRow, InsertHead, FlushRow,
             HeadConflict, Writing
    <2>2. req[r] \in Request
      BY <2>1 DEF IInv, ReqOK, Request
    <2>3. QED
      BY <2>1, <2>2, RequestAssumption DEF Writing, Running, Answers, Answer
  <1>3. /\ Goto(r, pc'[r]) /\ pc'[r] \in Running \cup Done
        /\ pc'[r] = "ok" => \/ req[r].kind # "put"
                            \/ GetHead(r) /\ row[r].text = req[r].text /\ Visible(r).head # NoHead
    <2> USE DEF IInv, TypeOK, Goto, Rollback, Running, Done
    <2>1. CASE LoadHead(r)
      BY <2>1 DEF LoadHead
    <2>2. CASE GetHead(r)
      BY <2>2 DEF GetHead
    <2>3. CASE ReloadRow(r) \/ ReloadHead(r)
      BY <2>3 DEF ReloadRow, ReloadHead
    <2>4. CASE InsertRow(r) \/ InsertHead(r) \/ FlushRow(r) \/ HeadConflict(r)
      BY <2>4 DEF InsertRow, InsertHead, FlushRow, HeadConflict
    <2>5. QED
      BY <2>1, <2>2, <2>3, <2>4
  <1>4. Answers' = [Answers EXCEPT ![r] = Answer(pc'[r])]
    BY <1>3, OneAnswer
  <1>5. CASE pc'[r] \in Running
    <2>1. Answers' = Answers
      BY <1>2, <1>4, <1>5 DEF Answer, Answers
    <2>2. QED
      BY <1>1, <2>1 DEF Register!registerVars, Answers
  <1>6. CASE pc'[r] = "ok"
    <2>1. Answer(pc'[r]) = "ok"
      BY <1>6 DEF Answer, Running
    <2>2. req[r].kind = "put" => Kept(req[r].text)
      <3> SUFFICES ASSUME req[r].kind = "put" PROVE Kept(req[r].text)
        OBVIOUS
      <3>1. GetHead(r) /\ row[r].text = req[r].text /\ Visible(r).head # NoHead
        BY <1>3, <1>6
      <3>2. row[r].text # None
        BY <3>1 DEF GetHead, AbsentOK
      <3>3. QED
        BY <3>1, <3>2, HeadStays DEF SeenOK, Seen
    <2>3. req[r].kind = "put" => \E i \in 1..Len(Values(revisions)) :
                                     Values(revisions)[i] = Canon[req[r].text]
      BY <2>2, ValuesSeq DEF Kept, Values, IInv, TypeOK
    <2>4. QED
      BY <1>1, <1>2, <1>4, <2>1, <2>3 DEF Register!Acknowledge, Answers, Values
  <1>7. CASE pc'[r] \in Done \ {"ok"}
    <2>1. Answer(pc'[r]) = "rejected"
      BY <1>7 DEF Answer, Running, Done
    <2>2. QED
      BY <1>1, <1>2, <1>4, <2>1 DEF Register!Reject, Answers
  <1>8. QED
    BY <1>3, <1>5, <1>6, <1>7

(* The commit is the point where the register is saved. *)
LEMMA CommitRefines ==
    ASSUME RefinementInv, Injective, NEW r \in Requests, CommitPut(r)
    PROVE  Register!Save(r)
  <1> USE DEF RefinementInv, SnapshotInv, KeptInv
  <1> DEFINE value == Canon[req[r].text]
  <1> DEFINE recorded == IF Values(revisions) = <<>> /\ committed.row.text # None
                         THEN <<Canon[committed.row.text]>> ELSE Values(revisions)
  <1>1. /\ pc[r] = "commit" /\ req[r] \in Put /\ req[r].text \in Texts
        /\ Goto(r, "ok") /\ req' = req
    BY CommitHistory DEF CommitPut
  <1>2. committed.row.text = row[r].text /\ committed'.row.text = req[r].text
    BY CommitsOnWhatItRead
  <1>3. \/ req[r].ifMatch \in {None, committed.row.text}
        \/ req[r].ifMatch = AnyETag /\ committed.row.text # None
    BY <1>1, <1>2 DEF SnapshotOK, Writing, ETagMatches
  <1>4. Answers[r] = "pending" /\ Answers' = [Answers EXCEPT ![r] = "ok"] /\ req[r] # None
    <2>1. Answers' = [Answers EXCEPT ![r] = Answer("ok")]
      BY <1>1, OneAnswer
    <2>2. QED
      BY <1>1, <2>1, RequestAssumption DEF Answers, Answer, Running, Request
  <1>5. Values(revisions') = IF recorded # <<>> /\ recorded[Len(recorded)] = value
                             THEN recorded ELSE Append(recorded, value)
    <2>1. CASE AddsRoot(r)
      <3>1. revisions = <<>> /\ Values(revisions) = <<>>
        BY <2>1, CommitHistory DEF Values
      <3>2. WithRoot(r) = <<Root(RootText(r))>>
        BY <2>1, CommitHistory
      <3>3. Values(<<Root(RootText(r))>>) = <<Canon[RootText(r)]>>
        BY DEF Values, Root
      <3>4. CASE ~AddsRevision(r)
        <4>1. Values(revisions') = <<value>>
          BY <2>1, <3>2, <3>3, <3>4, CommitHistory DEF AddsRevision, BaseContent
        <4>2. committed.row.text # None => recorded = <<value>>
          BY <1>2, <2>1, <3>1, <3>4 DEF RootText, AddsRevision, BaseContent
        <4>3. committed.row.text = None => recorded = <<>>
          BY <3>1
        <4> HIDE DEF recorded, value
        <4>4. CASE committed.row.text # None
          BY <4>1, <4>2, <4>4, ShortSequences
        <4>5. CASE committed.row.text = None
          BY <4>1, <4>3, <4>5, ShortSequences
        <4>6. QED
          BY <4>4, <4>5
      <3>5. CASE AddsRevision(r)
        <4>1. row[r].text # None /\ Canon[row[r].text] # value
          BY <2>1, <3>5 DEF AddsRevision, BaseContent, RootText
        <4>2. recorded = <<Canon[row[r].text]>>
          BY <1>2, <3>1, <4>1
        <4>3. Values(revisions') = <<Canon[row[r].text], value>>
          <5>1. revisions' = <<Root(row[r].text), Added(r)>>
            <6>1. revisions' = Append(<<Root(row[r].text)>>, Added(r))
              BY <3>2, <3>5, <4>1, CommitHistory DEF RootText
            <6>2. QED
              BY <6>1, ShortSequences
          <5>2. QED
            BY <5>1 DEF Values, Root, Added
        <4> HIDE DEF recorded, value
        <4>4. QED
          BY <4>1, <4>2, <4>3, ShortSequences
      <3>6. QED
        BY <3>4, <3>5
    <2>2. CASE ~AddsRoot(r)
      <3>1. /\ AddsRevision(r) /\ WithRoot(r) = revisions /\ Len(revisions) > 0
            /\ committed.head # NoHead
        BY <2>2, CommitsOnWhatItRead, CommitHistory
      <3>2. revisions \in Seq(Revision) /\ Added(r) \in Revision
        BY <1>1, CanonAssumption DEF IInv, TypeOK, Added, Revision, BaseHead, HeadType
      <3>3. Values(revisions') = Append(Values(revisions), value)
        <4>1. revisions' = Append(revisions, Added(r)) /\ Added(r).content = value
          BY <3>1, CommitHistory DEF Added
        <4>2. Values(Append(revisions, Added(r))) = Append(Values(revisions), Added(r).content)
          BY <3>2, ValuesAppend
        <4>3. QED
          BY <4>1, <4>2
      <3>4. recorded = Values(revisions) /\ Len(recorded) = Len(revisions)
        BY <3>1, <3>2, ValuesSeq
      <3>5. recorded[Len(recorded)] = BaseContent(r)
        <4>1. recorded[Len(recorded)] = revisions[Len(revisions)].content
          BY <3>1, <3>2, <3>4 DEF Values
        <4>2. head[r].rev = Len(revisions)
          BY <2>2, <3>1 DEF CommitPut, HeadUnmoved, IInv, TypeOK, HistoryLinear, HeadsOK, PastHead,
                            StateType, HeadType
        <4>3. QED
          BY <2>2, <4>1, <4>2 DEF BaseContent
      <3>6. QED
        BY <3>1, <3>3, <3>4, <3>5 DEF AddsRevision
    <2>3. QED
      BY <2>1, <2>2
  <1>6. QED
    BY <1>1, <1>2, <1>3, <1>4, <1>5
       DEF Register!Save, Register!Recorded, Answers, Values, Put

(* Under snapshot reads the statements of concurrent transactions amount   *)
(* to a register that saves in one step and on the very text If-Match      *)
(* names: a stale conditional save never replaces another one's text.      *)
THEOREM RegisterImplemented ==
    ASSUME SnapshotReads, Injective
    PROVE  Spec => ImplementsRegister
  <1>1. RefinementInv /\ [Next]_vars => [Register!RegisterNext]_(Register!registerVars)
    <2> SUFFICES ASSUME RefinementInv, [Next]_vars
                 PROVE  [Register!RegisterNext]_(Register!registerVars)
      OBVIOUS
    <2>1. ASSUME NEW r \in Requests, Arrive(r) \/ Handle(r)
          PROVE  [Register!RegisterNext]_(Register!registerVars)
      BY <2>1, ArriveRefines, SessionRefines, CommitRefines DEF Handle, Register!RegisterNext
    <2>2. CASE UNCHANGED vars
      BY <2>2 DEF vars, Register!registerVars
    <2>3. QED
      BY <2>1, <2>2 DEF Next, Terminated
  <1>2. QED
    BY <1>1, InitRefines, InitRefinementInv, NextRefinementInv, PTL
       DEF Spec, ImplementsRegister, Register!RegisterSpec

-----------------------------------------------------------------------------
(* CanvasView: what the fields of a view may hold.                         *)

Fields ==
    {"document", "collapsed", "imported", "focus", "history", "maxDepth", "level", "summary",
     "abstract", "peek", "reveal", "summaryReveal", "perspective", "strict", "lod", "far",
     "filters", "selected", "mode", "saved", "active", "stamp"}

IsView(s) == s = [f \in Fields |-> s[f]]

DocOK(d) ==
    /\ d \in [id : DocIds, islands : SUBSET Islands, collapsed : SUBSET Islands]
    /\ d.collapsed \subseteq d.islands

IslandOrNone == Islands \cup {Nowhere}

(* An entry of the focus history, a preset a user saved.                   *)
Entry == [focus : IslandOrNone, maxDepth : Nat]

PatchOK(p) ==
    /\ DOMAIN p = PatchFields
    /\ p.collapsed \subseteq Islands /\ p.focus \in IslandOrNone
    /\ p.maxDepth \in Nat /\ p.level = ResolveLevel(p.maxDepth)
    /\ p.summary \in BOOLEAN /\ p.abstract \in BOOLEAN

Shape(s) ==
    /\ IsView(s) /\ DocOK(s.document)
    /\ s.collapsed \subseteq Islands /\ s.imported.collapsed \subseteq Islands
    /\ s.focus \in IslandOrNone /\ s.selected \in IslandOrNone
    /\ s.maxDepth \in Nat /\ s.level \in Levels
    /\ s.summary \in BOOLEAN /\ s.abstract \in BOOLEAN
    /\ s.mode \in Modes /\ s.history \in Seq(Entry)
    /\ s.saved = <<>> \/ PatchOK(s.saved)

Dictated(s) ==
    /\ s.mode = "explore" => ~s.summary /\ ~s.abstract
    /\ s.mode = "summary" => s.summary /\ s.abstract
    /\ s.abstract => s.summary

(* What effects leave alone.                                               *)
AtRest(s) ==
    /\ s.peek \in ScopeIslands(s) \cup {Nowhere}
    /\ ClampedDepth(s) = s.maxDepth
    /\ {s.focus, s.selected} \subseteq VisibleIslands(s) \cup {Nowhere}
    /\ IF s.summary THEN s.summaryReveal \subseteq ScopeIslands(s) ELSE s.summaryReveal = {}
    /\ s.level = ResolveLevel(s.maxDepth)
    /\ Dictated(s)

-----------------------------------------------------------------------------
(* What one round of effects does, field by field.                         *)

Rounded(s, w, r) ==
    /\ IsView(r)
    /\ r.document = s.document /\ r.mode = s.mode /\ r.stamp = s.stamp /\ r.saved = s.saved
    /\ r.far = s.far
    /\ r.collapsed = CollapsedAfter(s, w)
    /\ r.imported = ImportedAfter(s, w)
    /\ r.peek = (IF s.peek \in ScopeIslands(s) THEN s.peek ELSE Nowhere)
    /\ r.level = (IF s.maxDepth # w.maxDepth THEN ResolveLevel(s.maxDepth) ELSE s.level)
    /\ r.selected = KeptIfVisible(s.selected, s)
    /\ r.history = (IF NewDocument(s, w) THEN <<>> ELSE s.history)
    /\ r.reveal = (IF NewDocument(s, w) THEN {} ELSE s.reveal)
    /\ r.summaryReveal = (IF s.summary THEN s.summaryReveal \cap ScopeIslands(s) ELSE {})
    /\ r.filters = (IF NewDocument(s, w) THEN {} ELSE s.filters)

(* The fields a preset of a mode may set.                                  *)
Steered(s, w, r) ==
    IF ReappliesMode(s, w)
    THEN /\ s.mode = "explore" => r.summary = FALSE /\ r.abstract = FALSE /\ r.maxDepth = All
                                  /\ r.focus \in {Nowhere, KeptIfVisible(s.focus, s)}
         /\ s.mode = "review" => r.summary = (s.summary \/ s.abstract) /\ r.abstract = s.abstract
                                 /\ r.maxDepth = ClampedDepth(s)
                                 /\ r.focus \in {Nowhere, KeptIfVisible(s.focus, s)}
         /\ s.mode = "summary" => r.summary = TRUE /\ r.abstract = TRUE /\ r.maxDepth = 1
                                  /\ r.focus = Nowhere
    ELSE /\ r.summary = s.summary /\ r.abstract = s.abstract /\ r.maxDepth = ClampedDepth(s)
         /\ r.lod = s.lod /\ r.perspective = s.perspective /\ r.strict = s.strict /\ r.active = s.active
         /\ r.focus = (IF NewDocument(s, w) THEN Nowhere ELSE KeptIfVisible(s.focus, s))

LEMMA CorrectedIs ==
  ASSUME NEW s, NEW w, IsView(s), NEW t, t = Corrected(s, w)
  PROVE  /\ Rounded(s, w, t)
         /\ t.summary = s.summary /\ t.abstract = s.abstract /\ t.maxDepth = ClampedDepth(s)
         /\ t.lod = s.lod /\ t.perspective = s.perspective /\ t.strict = s.strict /\ t.active = s.active
         /\ t.focus = (IF NewDocument(s, w) THEN Nowhere ELSE KeptIfVisible(s.focus, s))
  <1>1. DOMAIN s = Fields /\ IsView(t)
    BY DEF IsView, Fields, Corrected
  <1>2. t.document = s.document /\ t.mode = s.mode /\ t.stamp = s.stamp /\ t.saved = s.saved /\ t.far = s.far
    BY <1>1 DEF Fields, Corrected
  <1>3. t.collapsed = CollapsedAfter(s, w) /\ t.imported = ImportedAfter(s, w)
    BY <1>1 DEF Fields, Corrected
  <1>4. t.peek = (IF s.peek \in ScopeIslands(s) THEN s.peek ELSE Nowhere)
    BY <1>1 DEF Fields, Corrected
  <1>5. /\ t.level = (IF s.maxDepth # w.maxDepth THEN ResolveLevel(s.maxDepth) ELSE s.level)
        /\ t.selected = KeptIfVisible(s.selected, s)
    BY <1>1 DEF Fields, Corrected
  <1>6. /\ t.history = (IF NewDocument(s, w) THEN <<>> ELSE s.history)
        /\ t.reveal = (IF NewDocument(s, w) THEN {} ELSE s.reveal)
        /\ t.filters = (IF NewDocument(s, w) THEN {} ELSE s.filters)
    BY <1>1 DEF Fields, Corrected
  <1>7. t.summaryReveal = (IF s.summary THEN s.summaryReveal \cap ScopeIslands(s) ELSE {})
    BY <1>1 DEF Fields, Corrected
  <1>8. /\ t.summary = s.summary /\ t.abstract = s.abstract /\ t.maxDepth = ClampedDepth(s)
        /\ t.lod = s.lod /\ t.perspective = s.perspective /\ t.strict = s.strict /\ t.active = s.active
    BY <1>1 DEF Fields, Corrected
  <1>9. t.focus = (IF NewDocument(s, w) THEN Nowhere ELSE KeptIfVisible(s.focus, s))
    BY <1>1 DEF Fields, Corrected
  <1>10. Rounded(s, w, t)
    BY <1>1, <1>2, <1>3, <1>4, <1>5, <1>6, <1>7 DEF Rounded
  <1>11. QED
    BY <1>8, <1>9, <1>10

(* What a patch sets, and what a patch that says nothing of a field keeps. *)
PatchedTo(s, p, n, r) ==
    /\ IsView(r) /\ r.mode = n
    /\ \A f \in Fields \ {"summary", "maxDepth", "mode", "active"} :
          r[f] = IF f \in DOMAIN p THEN p[f] ELSE s[f]
    /\ r.summary = SummaryOfPatch(s, p) /\ r.maxDepth = DepthOfPatch(s, p)

LEMMA PatchedSo ==
  ASSUME NEW s, IsView(s), NEW p, DOMAIN p \subseteq PatchFields, NEW n, NEW q,
         \/ \E m : q = [ApplyViewPatch(s, p) EXCEPT !.active = m] /\ n = s.mode
         \/ \E m : q = [ApplyViewPatch(s, p) EXCEPT !.mode = n, !.active = m]
  PROVE  PatchedTo(s, p, n, q)
  <1> DEFINE o == Over(p, s)
             a == ApplyViewPatch(s, p)
  <1>1. DOMAIN s = Fields /\ o = [f \in Fields |-> IF f \in DOMAIN p THEN p[f] ELSE s[f]]
    BY DEF IsView, Over
  <1>2. DOMAIN o = Fields /\ \A f \in Fields : o[f] = IF f \in DOMAIN p THEN p[f] ELSE s[f]
    BY <1>1
  <1> HIDE DEF o
  <1>3. a = [o EXCEPT !.summary = SummaryOfPatch(s, p), !.maxDepth = DepthOfPatch(s, p)]
    BY DEF ApplyViewPatch, o
  <1>4. /\ DOMAIN a = Fields /\ a = [f \in Fields |-> a[f]]
        /\ a.summary = SummaryOfPatch(s, p) /\ a.maxDepth = DepthOfPatch(s, p)
        /\ \A f \in Fields \ {"summary", "maxDepth"} : a[f] = o[f]
    BY <1>2, <1>3 DEF Fields
  <1>5. "mode" \notin DOMAIN p
    BY DEF PatchFields
  <1> HIDE DEF a
  <1>6. /\ DOMAIN q = Fields /\ q = [f \in Fields |-> q[f]] /\ q["mode"] = n
        /\ \A f \in Fields \ {"mode", "active"} : q[f] = a[f]
    <2>1. CASE \E m : q = [a EXCEPT !.active = m] /\ n = s.mode
      <3>1. PICK m : q = [a EXCEPT !.active = m] /\ n = s.mode
        BY <2>1
      <3>2. a["mode"] = s["mode"]
        BY <1>2, <1>4, <1>5 DEF Fields
      <3>3. QED
        BY <1>4, <3>1, <3>2 DEF Fields
    <2>2. CASE \E m : q = [a EXCEPT !.mode = n, !.active = m]
      <3>1. PICK m : q = [a EXCEPT !.mode = n, !.active = m]
        BY <2>2
      <3>2. QED
        BY <1>4, <3>1 DEF Fields
    <2>3. QED
      BY <2>1, <2>2 DEF a
  <1>7. \A f \in Fields \ {"summary", "maxDepth", "mode", "active"} :
           q[f] = IF f \in DOMAIN p THEN p[f] ELSE s[f]
    BY <1>2, <1>4, <1>6
  <1>8. q["summary"] = a["summary"] /\ q["maxDepth"] = a["maxDepth"]
    BY <1>6 DEF Fields
  <1>9. QED
    BY <1>4, <1>6, <1>7, <1>8 DEF IsView, PatchedTo

LEMMA Patched ==
  ASSUME NEW s, IsView(s), NEW p, DOMAIN p \subseteq PatchFields, NEW m
  PROVE  PatchedTo(s, p, s.mode, [ApplyViewPatch(s, p) EXCEPT !.active = m])
  BY PatchedSo, Zenon

LEMMA RoundIs ==
  ASSUME NEW s, NEW w, Shape(s), NEW r, r = Round(s, w)
  PROVE  Rounded(s, w, r) /\ Steered(s, w, r)
  <1> DEFINE t == Corrected(s, w)
  <1>1. /\ IsView(s) /\ Rounded(s, w, t)
        /\ t.summary = s.summary /\ t.abstract = s.abstract /\ t.maxDepth = ClampedDepth(s)
        /\ t.lod = s.lod /\ t.perspective = s.perspective /\ t.strict = s.strict /\ t.active = s.active
        /\ t.focus = (IF NewDocument(s, w) THEN Nowhere ELSE KeptIfVisible(s.focus, s))
    BY CorrectedIs DEF Shape
  <1>2. CASE ~ReappliesMode(s, w)
    BY <1>1, <1>2 DEF Round, Steered
  <1>3. CASE ReappliesMode(s, w)
    <2> DEFINE p == DefaultPatch(s.mode)
    <2>1. IsView(t)
      BY <1>1 DEF Rounded
    <2>2. s.mode \in Modes /\ s.summary \in BOOLEAN /\ s.abstract \in BOOLEAN
      BY DEF Shape
    <2>3. /\ s.mode = "explore" => /\ DOMAIN p = {"summary", "abstract", "maxDepth", "perspective", "strict", "lod"}
                                   /\ p["summary"] = FALSE /\ p["abstract"] = FALSE /\ p["maxDepth"] = All
          /\ s.mode = "review" => DOMAIN p = {"perspective", "strict", "lod"}
          /\ s.mode = "summary" =>
                /\ DOMAIN p = {"summary", "abstract", "maxDepth", "focus", "perspective", "strict", "lod"}
                /\ p["summary"] = TRUE /\ p["abstract"] = TRUE /\ p["maxDepth"] = 1 /\ p["focus"] = Nowhere
      BY DEF DefaultPatch
    <2>4. DOMAIN p \subseteq PatchFields
      BY <2>2, <2>3 DEF Modes, PatchFields
    <2>5. r = [ApplyViewPatch(t, p) EXCEPT !.active = s.mode]
      BY <1>3 DEF Round
    <2> HIDE DEF t, p
    <2>6. PatchedTo(t, p, t.mode, r)
      BY <2>1, <2>4, <2>5, Patched
    <2>7. /\ r.document = t.document /\ r.mode = t.mode /\ r.stamp = t.stamp /\ r.saved = t.saved
          /\ r.far = t.far /\ r.collapsed = t.collapsed /\ r.imported = t.imported /\ r.peek = t.peek
          /\ r.level = t.level /\ r.selected = t.selected /\ r.history = t.history
          /\ r.reveal = t.reveal /\ r.summaryReveal = t.summaryReveal /\ r.filters = t.filters
      BY <2>2, <2>3, <2>6 DEF Fields, Modes, PatchedTo
    <2>8. Rounded(s, w, r)
      BY <1>1, <2>6, <2>7 DEF Rounded, PatchedTo
    <2>9. \A f \in Fields : Over(p, t)[f] = IF f \in DOMAIN p THEN p[f] ELSE t[f]
      BY <2>1 DEF Over, IsView
    <2>10. ASSUME s.mode = "explore" PROVE Steered(s, w, r)
      <3>1. r["abstract"] = FALSE /\ r["focus"] = t["focus"] /\ "level" \notin DOMAIN p
        BY <2>3, <2>6, <2>10 DEF PatchedTo, Fields
      <3>2. Over(p, t)["summary"] = FALSE /\ Over(p, t)["abstract"] = FALSE /\ Over(p, t)["maxDepth"] = All
        BY <2>3, <2>9, <2>10 DEF Fields
      <3>3. r["summary"] = FALSE /\ r["maxDepth"] = All
        BY <2>6, <3>1, <3>2 DEF PatchedTo, SummaryOfPatch, DepthOfPatch
      <3>4. QED
        BY <1>1, <1>3, <2>10, <3>1, <3>3 DEF Steered
    <2>11. ASSUME s.mode = "review" PROVE Steered(s, w, r)
      <3>1. r["abstract"] = s["abstract"] /\ r["focus"] = t["focus"] /\ "level" \notin DOMAIN p
        BY <1>1, <2>3, <2>6, <2>11 DEF PatchedTo, Fields
      <3>2. /\ Over(p, t)["summary"] = s["summary"] /\ Over(p, t)["abstract"] = s["abstract"]
            /\ Over(p, t)["maxDepth"] = ClampedDepth(s)
        BY <1>1, <2>3, <2>9, <2>11 DEF Fields
      <3>3. r["summary"] = (s["summary"] \/ s["abstract"]) /\ r["maxDepth"] = ClampedDepth(s)
        BY <2>6, <3>1, <3>2 DEF PatchedTo, SummaryOfPatch, DepthOfPatch
      <3>4. QED
        BY <1>1, <1>3, <2>11, <3>1, <3>3 DEF Steered
    <2>12. ASSUME s.mode = "summary" PROVE Steered(s, w, r)
      <3>1. r["abstract"] = TRUE /\ r["focus"] = Nowhere /\ "level" \notin DOMAIN p
        BY <2>3, <2>6, <2>12 DEF PatchedTo, Fields
      <3>2. Over(p, t)["summary"] = TRUE /\ Over(p, t)["maxDepth"] = 1
        BY <2>3, <2>9, <2>12 DEF Fields
      <3>3. r["summary"] = TRUE /\ r["maxDepth"] = 1
        BY <2>6, <3>1, <3>2 DEF PatchedTo, SummaryOfPatch, DepthOfPatch
      <3>4. QED
        BY <1>1, <1>3, <2>12, <3>1, <3>3 DEF Steered
    <2>13. QED
      BY <2>2, <2>8, <2>10, <2>11, <2>12 DEF Modes
  <1>4. QED
    BY <1>2, <1>3

-----------------------------------------------------------------------------
(* Depths, scopes and what is visible.                                     *)

LEMMA LeastNumber == \A T \in SUBSET Nat : T # {} => \E x \in T : \A y \in T : x <= y
  <1> SUFFICES ASSUME NEW T \in SUBSET Nat, T # {} PROVE \E x \in T : \A y \in T : x <= y
    OBVIOUS
  <1>1. PICK x \in T : \A y \in T : ~(<<y, x>> \in OpToRel(<, Nat))
    BY NatLessThanWellFounded, WFMin
  <1>2. ASSUME NEW y \in T PROVE x <= y
    <2>1. ~(y < x)
      BY <1>1, Zenon DEF OpToRel
    <2>2. QED
      BY <2>1
  <1>3. QED
    BY <1>2

(* The deepest island of a document has a depth.                           *)
LEMMA Deepest ==
  ASSUME NEW d, d.islands \subseteq Islands
  PROVE  MaxAvailable(d) \in Nat
  <1> DEFINE D == {Depth(i, d.islands) : i \in d.islands}
             N == Cardinality(Islands)
  <1>1. IsFiniteSet(Islands) /\ N \in Nat
    BY ViewAssumption, FS_CardinalityType
  <1>2. \A i \in d.islands : Depth(i, d.islands) \in Nat /\ Depth(i, d.islands) <= N
    <2> TAKE i \in d.islands
    <2>1. Above(i, d.islands) \in SUBSET Islands
      BY DEF Above
    <2>2. QED
      BY <1>1, <2>1, FS_Subset, FS_CardinalityType DEF Depth
  <1>3. CASE d.islands = {}
    BY <1>3 DEF MaxAvailable
  <1>4. CASE d.islands # {}
    <2>1. D \in SUBSET Nat /\ D # {} /\ \A x \in D : x <= N
      BY <1>2, <1>4
    <2> HIDE DEF D
    <2> DEFINE Bounds == {n \in Nat : \A x \in D : x <= n}
    <2>2. PICK n \in Bounds : \A k \in Bounds : n <= k
      <3>1. N \in Bounds /\ Bounds \in SUBSET Nat
        BY <1>1, <2>1
      <3>2. QED
        BY <3>1, LeastNumber
    <2>3. n \in D
      <3> SUFFICES ASSUME n \notin D PROVE FALSE
        OBVIOUS
      <3>1. \A x \in D : x \in Nat /\ x < n
        BY <2>1, <2>2
      <3>2. n \in Nat /\ n - 1 \in Nat
        <4>1. PICK x \in D : x \in Nat /\ x < n
          BY <2>1, <3>1
        <4>2. QED
          BY <2>2, <4>1
      <3>3. n - 1 \in Bounds
        BY <3>1, <3>2
      <3>4. QED
        BY <2>2, <3>2, <3>3
    <2>4. \E x \in D : \A y \in D : x >= y
      BY <2>1, <2>2, <2>3
    <2>5. Max(D) \in D
      BY <2>4 DEF Max
    <2>6. MaxAvailable(d) = Max(D)
      BY <1>4 DEF MaxAvailable, D
    <2>7. QED
      BY <2>1, <2>5, <2>6
  <1>5. QED
    BY <1>3, <1>4

(* The depth in force is one the document has, or no limit to it.          *)
LEMMA Clamped ==
  ASSUME NEW s, s.document.islands \subseteq Islands, s.maxDepth \in Nat
  PROVE  /\ ClampedDepth(s) \in Nat
         /\ \A r : r.document = s.document /\ r.maxDepth \in {ClampedDepth(s), All, 1} =>
                    ClampedDepth(r) = r.maxDepth
  <1>1. MaxAvailable(s.document) \in Nat
    BY Deepest
  <1>2. QED
    BY <1>1 DEF ClampedDepth, All

LEMMA Wider ==
  ASSUME NEW s, NEW r, r.document = s.document, s.document.islands \subseteq Islands,
         r.focus = s.focus \/ r.focus = Nowhere
  PROVE  ScopeIslands(s) \subseteq ScopeIslands(r)
  <1>1. ScopeIslands(s) \subseteq s.document.islands
    BY DEF ScopeIslands, Below
  <1>2. CASE r.focus = s.focus
    BY <1>2 DEF ScopeIslands, HasFocus
  <1>3. CASE r.focus = Nowhere
    BY <1>1, <1>3, ViewAssumption DEF ScopeIslands, HasFocus
  <1>4. QED
    BY <1>2, <1>3

(* What is visible depends on these fields.                                *)
Alike(s, r) ==
    /\ r.document = s.document /\ r.collapsed = s.collapsed /\ r.summary = s.summary
    /\ r.lod = s.lod /\ r.far = s.far /\ r.reveal = s.reveal /\ r.summaryReveal = s.summaryReveal
    /\ r.peek = s.peek /\ r.maxDepth = s.maxDepth

LEMMA SameVisible ==
  ASSUME NEW s, NEW r, Alike(s, r), r.focus = s.focus
  PROVE  VisibleIslands(r) = VisibleIslands(s)
  <1>1. ScopeIslands(r) = ScopeIslands(s)
    BY DEF Alike, ScopeIslands, HasFocus
  <1>2. EffectiveCollapsed(r) = EffectiveCollapsed(s)
    BY <1>1 DEF Alike, EffectiveCollapsed, CollapsedInScope, RevealedIslands
  <1>3. QED
    BY <1>1, <1>2 DEF Alike, VisibleIslands

-----------------------------------------------------------------------------
(* Four rounds of effects.                                                 *)

LEMMA RoundShapes ==
  ASSUME NEW s, NEW w, Shape(s), NEW r, Rounded(s, w, r), Steered(s, w, r)
  PROVE  Shape(r)
  <1>1. DocOK(s.document) /\ s.document.islands \subseteq Islands /\ s.maxDepth \in Nat /\ s.mode \in Modes
    BY DEF Shape, DocOK
  <1>2. ClampedDepth(s) \in Nat
    BY <1>1, Clamped
  <1>3. r.collapsed \subseteq Islands
    BY <1>1 DEF Shape, Rounded, CollapsedAfter, Below
  <1>4. r.imported.collapsed \subseteq Islands
    BY <1>1 DEF Shape, Rounded, ImportedAfter, NothingImported
  <1>5. r.selected \in IslandOrNone /\ KeptIfVisible(s.focus, s) \in IslandOrNone
    BY DEF Shape, Rounded, KeptIfVisible, IslandOrNone
  <1>6. r.focus \in IslandOrNone /\ r.maxDepth \in Nat
    <2>1. r.focus \in {Nowhere, KeptIfVisible(s.focus, s)}
      BY <1>1 DEF Steered, Modes
    <2>2. r.maxDepth = ClampedDepth(s) \/ r.maxDepth = All \/ r.maxDepth = 1
      BY <1>1 DEF Steered, Modes
    <2>3. r.focus \in IslandOrNone
      BY <1>5, <2>1 DEF IslandOrNone
    <2>4. r.maxDepth \in Nat
      BY <1>2, <2>2 DEF All
    <2>5. QED
      BY <2>3, <2>4
  <1>7. r.summary \in BOOLEAN /\ r.abstract \in BOOLEAN
    BY <1>1 DEF Shape, Steered, Modes
  <1>8. r.level \in Levels
    BY DEF Shape, Rounded, ResolveLevel, Levels
  <1>9. r.history \in Seq(Entry)
    BY DEF Shape, Rounded
  <1>10. IsView(r) /\ r.document = s.document /\ r.mode = s.mode /\ r.saved = s.saved
    BY DEF Rounded
  <1>11. QED
    BY <1>3, <1>4, <1>5, <1>6, <1>7, <1>8, <1>9, <1>10 DEF Shape

(* A state a handler may leave, w being what was rendered before.          *)
Ready(s, w) ==
    /\ Shape(s) /\ Dictated(w)
    /\ s.level = ResolveLevel(s.maxDepth) \/ s.maxDepth # w.maxDepth

(* After the first round the mode has its way; after the second, all but   *)
(* focus and selection is at rest.                                         *)
Mild(s) ==
    /\ Shape(s) /\ Dictated(s) /\ ClampedDepth(s) = s.maxDepth
    /\ s.peek \in ScopeIslands(s) \cup {Nowhere}
    /\ s.summaryReveal \subseteq ScopeIslands(s)

First(s, r) ==
    /\ Mild(r) /\ r.document = s.document /\ r.mode = s.mode /\ r.stamp = s.stamp
    /\ r.level = ResolveLevel(s.maxDepth)
    /\ (r.summary # s.summary \/ r.abstract # s.abstract) =>
          /\ r.mode = "explore" => r.maxDepth = All
          /\ r.mode = "summary" => r.maxDepth = 1

Calm(s, w) ==
    /\ Mild(s) /\ s.document = w.document /\ s.mode = w.mode /\ s.stamp = w.stamp
    /\ s.summary = w.summary /\ s.abstract = w.abstract
    /\ s.level = ResolveLevel(s.maxDepth)
    /\ ~s.summary => s.summaryReveal = {}

LEMMA FocusNarrows ==
  ASSUME NEW s, NEW w, Shape(s), NEW r, Rounded(s, w, r), Steered(s, w, r)
  PROVE  /\ r.focus = s.focus \/ r.focus = Nowhere
         /\ ScopeIslands(s) \subseteq ScopeIslands(r)
         /\ r.peek \in ScopeIslands(r) \cup {Nowhere}
         /\ r.summaryReveal \subseteq ScopeIslands(r)
  <1>1. r.focus = s.focus \/ r.focus = Nowhere
    BY DEF Shape, Steered, Modes, KeptIfVisible
  <1>2. r.document = s.document /\ s.document.islands \subseteq Islands
    BY DEF Rounded, Shape, DocOK
  <1>3. ScopeIslands(s) \subseteq ScopeIslands(r)
    BY <1>1, <1>2, Wider
  <1>4. QED
    BY <1>1, <1>3 DEF Rounded

LEMMA FirstRound ==
  ASSUME NEW s, NEW w, Ready(s, w), NEW r, r = Round(s, w)
  PROVE  First(s, r)
  <1>1. Shape(s) /\ Rounded(s, w, r) /\ Steered(s, w, r)
    BY RoundIs DEF Ready
  <1>2. Shape(r)
    BY <1>1, RoundShapes
  <1>3. s.document.islands \subseteq Islands /\ s.maxDepth \in Nat /\ s.mode \in Modes
    BY <1>1 DEF Shape, DocOK
  <1>4. r.document = s.document /\ r.mode = s.mode /\ r.stamp = s.stamp
    BY <1>1 DEF Rounded
  <1>5. r.maxDepth \in {ClampedDepth(s), All, 1}
    BY <1>1, <1>3 DEF Steered, Modes
  <1>6. ClampedDepth(r) = r.maxDepth
    BY <1>3, <1>4, <1>5, Clamped
  <1>7. Dictated(r)
    <2>1. CASE ReappliesMode(s, w)
      BY <1>1, <1>3, <1>4, <2>1 DEF Steered, Dictated, Modes
    <2>2. CASE ~ReappliesMode(s, w)
      <3>1. s.mode = w.mode /\ s.summary = w.summary /\ s.abstract = w.abstract
        BY <2>2 DEF ReappliesMode
      <3>2. r.summary = s.summary /\ r.abstract = s.abstract
        BY <1>1, <2>2 DEF Steered
      <3>3. QED
        BY <1>4, <3>1, <3>2 DEF Dictated, Ready
    <2>3. QED
      BY <2>1, <2>2
  <1>8. r.level = ResolveLevel(s.maxDepth)
    BY <1>1 DEF Rounded, Ready
  <1>9. ASSUME r.summary # s.summary \/ r.abstract # s.abstract
        PROVE  (r.mode = "explore" => r.maxDepth = All) /\ (r.mode = "summary" => r.maxDepth = 1)
    BY <1>1, <1>4, <1>9 DEF Steered
  <1>10. QED
    BY <1>1, <1>2, <1>4, <1>6, <1>7, <1>8, <1>9, FocusNarrows DEF First, Mild

LEMMA SecondRound ==
  ASSUME NEW s, NEW w, First(w, s), NEW r, r = Round(s, w)
  PROVE  Calm(r, s)
  <1>1. Shape(s) /\ Dictated(s) /\ Rounded(s, w, r) /\ Steered(s, w, r) /\ s.mode \in Modes
    BY RoundIs DEF First, Mild, Shape
  <1>2. Shape(r)
    BY <1>1, RoundShapes
  <1>3. r.document = s.document /\ r.mode = s.mode /\ r.stamp = s.stamp
    BY <1>1 DEF Rounded
  <1>4. s.summary \in BOOLEAN /\ s.abstract \in BOOLEAN /\ r.summary \in BOOLEAN /\ r.abstract \in BOOLEAN
    BY <1>1, <1>2 DEF Shape
  <1>5. r.summary = s.summary /\ r.abstract = s.abstract
    BY <1>1, <1>4 DEF Steered, Dictated, Modes
  <1>6. r.maxDepth = s.maxDepth
    <2>1. CASE ReappliesMode(s, w)
      <3>1. s.summary # w.summary \/ s.abstract # w.abstract
        BY <2>1 DEF First, ReappliesMode, NewDocument
      <3>2. QED
        BY <1>1, <2>1, <3>1 DEF Steered, First, Mild, Modes
    <2>2. CASE ~ReappliesMode(s, w)
      BY <1>1, <2>2 DEF Steered, First, Mild
    <2>3. QED
      BY <2>1, <2>2
  <1>7. r.level = ResolveLevel(r.maxDepth)
    BY <1>1, <1>6 DEF Rounded, First
  <1>8. ClampedDepth(r) = r.maxDepth
    BY <1>3, <1>6 DEF ClampedDepth, First, Mild
  <1>9. Dictated(r)
    BY <1>1, <1>3, <1>5 DEF Dictated
  <1>10. ~r.summary => r.summaryReveal = {}
    BY <1>1, <1>5 DEF Rounded
  <1>11. QED
    BY <1>1, <1>2, <1>3, <1>5, <1>7, <1>8, <1>9, <1>10, FocusNarrows DEF Calm, Mild

(* From then on only focus and selection follow what is visible.           *)
LEMMA LaterRound ==
  ASSUME NEW s, NEW w, Calm(s, w), NEW r, r = Round(s, w)
  PROVE  /\ Calm(r, s) /\ Alike(s, r)
         /\ r.focus = KeptIfVisible(s.focus, s) /\ r.selected = KeptIfVisible(s.selected, s)
         /\ r.collapsed = s.collapsed
  <1>1. Shape(s) /\ Rounded(s, w, r) /\ Steered(s, w, r)
    BY RoundIs DEF Calm, Mild
  <1>2. Shape(r)
    BY <1>1, RoundShapes
  <1>3. ~NewDocument(s, w) /\ ~ReappliesMode(s, w)
    BY DEF Calm, ReappliesMode, NewDocument
  <1>4. /\ r.document = s.document /\ r.mode = s.mode /\ r.stamp = s.stamp /\ r.far = s.far
        /\ r.reveal = s.reveal /\ r.collapsed = s.collapsed
    BY <1>1, <1>3 DEF Rounded, CollapsedAfter, Calm
  <1>5. /\ r.summary = s.summary /\ r.abstract = s.abstract /\ r.maxDepth = s.maxDepth /\ r.lod = s.lod
        /\ r.focus = KeptIfVisible(s.focus, s) /\ r.selected = KeptIfVisible(s.selected, s)
    BY <1>1, <1>3 DEF Steered, Rounded, Calm, Mild
  <1>6. r.level = s.level
    BY <1>1 DEF Rounded, Calm
  <1>7. r.peek = s.peek
    BY <1>1 DEF Rounded, Calm, Mild
  <1>8. r.summaryReveal = s.summaryReveal
    BY <1>1 DEF Rounded, Calm, Mild
  <1>9. Dictated(r) /\ ClampedDepth(r) = r.maxDepth
    BY <1>4, <1>5 DEF Dictated, ClampedDepth, Calm, Mild
  <1>10. Calm(r, s)
    BY <1>1, <1>2, <1>4, <1>5, <1>6, <1>8, <1>9, FocusNarrows DEF Calm, Mild
  <1>11. QED
    BY <1>4, <1>5, <1>7, <1>8, <1>10 DEF Alike

LEMMA Settled ==
  ASSUME NEW s, NEW w, Calm(s, w), NEW r, r = Round(s, w), NEW q, q = Round(r, s)
  PROVE  AtRest(q) /\ Shape(q) /\ q.document = s.document /\ q.collapsed = s.collapsed
  <1>1. /\ Calm(r, s) /\ Alike(s, r)
        /\ r.focus = KeptIfVisible(s.focus, s) /\ r.selected = KeptIfVisible(s.selected, s)
    BY LaterRound
  <1>2. /\ Calm(q, r) /\ Alike(r, q)
        /\ q.focus = KeptIfVisible(r.focus, r) /\ q.selected = KeptIfVisible(r.selected, r)
    BY <1>1, LaterRound
  <1>3. q.focus = r.focus
    <2>1. CASE r.focus = Nowhere
      BY <1>2, <2>1 DEF KeptIfVisible
    <2>2. CASE r.focus # Nowhere
      <3>1. r.focus = s.focus /\ s.focus \in VisibleIslands(s)
        BY <1>1, <2>2 DEF KeptIfVisible
      <3>2. VisibleIslands(r) = VisibleIslands(s)
        BY <1>1, <3>1, SameVisible
      <3>3. QED
        BY <1>2, <3>1, <3>2 DEF KeptIfVisible
    <2>3. QED
      BY <2>1, <2>2
  <1>4. VisibleIslands(q) = VisibleIslands(r)
    BY <1>2, <1>3, SameVisible
  <1>5. {q.focus, q.selected} \subseteq VisibleIslands(q) \cup {Nowhere}
    BY <1>2, <1>4 DEF KeptIfVisible
  <1>6. QED
    BY <1>1, <1>2, <1>5 DEF AtRest, Calm, Mild, Alike

(* The effects of a handler come to rest within four rounds.               *)
LEMMA SetSettles ==
  ASSUME NEW s, Ready(s, ui), Set(s)
  PROVE  /\ AtRest(ui') /\ Shape(ui') /\ ui'.document = s.document
         /\ ui'.collapsed = CollapsedAfter(s, ui)
  <1>1. PICK s1 \in {Round(s, ui)} :
          \E s2 \in {Round(s1, s)} : \E s3 \in {Round(s2, s1)} : ui' = Round(s3, s2)
    BY DEF Set
  <1>2. PICK s2 \in {Round(s1, s)} : \E s3 \in {Round(s2, s1)} : ui' = Round(s3, s2)
    BY <1>1
  <1>3. PICK s3 \in {Round(s2, s1)} : ui' = Round(s3, s2)
    BY <1>2
  <1>4. First(s, s1) /\ s1.collapsed = CollapsedAfter(s, ui)
    <2>1. First(s, s1)
      BY <1>1, FirstRound
    <2>2. Rounded(s, ui, s1)
      BY <1>1, RoundIs DEF Ready
    <2>3. QED
      BY <2>1, <2>2 DEF Rounded
  <1>5. Calm(s2, s1) /\ s2.collapsed = s1.collapsed
    <2>1. Calm(s2, s1)
      BY <1>2, <1>4, SecondRound
    <2>2. Rounded(s1, s, s2)
      BY <1>2, <1>4, RoundIs DEF First, Mild
    <2>3. QED
      BY <1>4, <2>1, <2>2 DEF Rounded, CollapsedAfter, NewDocument, First
  <1>6. AtRest(ui') /\ Shape(ui') /\ ui'.document = s2.document /\ ui'.collapsed = s2.collapsed
    BY <1>3, <1>5, Settled
  <1>7. QED
    BY <1>4, <1>5, <1>6 DEF First, Calm

-----------------------------------------------------------------------------
(* Islands around one another.                                             *)

LEMMA AboveIn == \A i, S : Above(i, S) \subseteq S
  <1> SUFFICES ASSUME NEW i, NEW S, NEW j \in Above(i, S) PROVE j \in S
    OBVIOUS
  <1>1. PICK k \in 1..Len(Chain[i]) : j = Chain[i][k] /\ \A m \in 1..k : Chain[i][m] \in S
    BY DEF Above
  <1>2. k \in 1..k
    BY <1>1
  <1>3. QED
    BY <1>1, <1>2

LEMMA AboveTransitive ==
  ASSUME NEW S, NEW i \in Islands, NEW j \in Above(i, S)
  PROVE  Above(j, S) \subseteq Above(i, S)
  <1> SUFFICES ASSUME NEW l \in Above(j, S) PROVE l \in Above(i, S)
    OBVIOUS
  <1>0. Chain[i] \in Seq(Islands)
    BY ViewAssumption
  <1>1. PICK k \in 1..Len(Chain[i]) : j = Chain[i][k] /\ \A m \in 1..k : Chain[i][m] \in S
    BY DEF Above
  <1>2. PICK n \in 1..Len(Chain[j]) : l = Chain[j][n] /\ \A m \in 1..n : Chain[j][m] \in S
    BY DEF Above
  <1>3. Chain[j] = SubSeq(Chain[i], k + 1, Len(Chain[i]))
    BY <1>1, ViewAssumption
  <1>4. /\ Len(Chain[j]) = Len(Chain[i]) - k
        /\ \A m \in 1..Len(Chain[j]) : Chain[j][m] = Chain[i][k + m]
    BY <1>0, <1>1, <1>3
  <1>5. k + n \in 1..Len(Chain[i]) /\ l = Chain[i][k + n]
    BY <1>0, <1>1, <1>2, <1>4
  <1>6. ASSUME NEW m \in 1..(k + n) PROVE Chain[i][m] \in S
    <2>1. CASE m <= k
      BY <1>1, <2>1
    <2>2. CASE m > k
      <3>1. m - k \in 1..n /\ m - k \in 1..Len(Chain[j]) /\ m = k + (m - k)
        BY <1>0, <1>1, <1>2, <1>4, <2>2
      <3>2. QED
        BY <1>2, <1>4, <3>1
    <2>3. QED
      BY <1>0, <1>1, <1>2, <2>1, <2>2
  <1>7. QED
    BY <1>5, <1>6 DEF Above

(* An island that is not around another may go without the other noticing. *)
LEMMA AboveWithout ==
  ASSUME NEW S, NEW i, NEW j, i \notin Above(j, S)
  PROVE  Above(j, S) \subseteq Above(j, S \ {i})
  <1> SUFFICES ASSUME NEW l \in Above(j, S) PROVE l \in Above(j, S \ {i})
    OBVIOUS
  <1>1. PICK k \in 1..Len(Chain[j]) : l = Chain[j][k] /\ \A m \in 1..k : Chain[j][m] \in S
    BY DEF Above
  <1>2. ASSUME NEW m \in 1..k PROVE Chain[j][m] \in S \ {i}
    <2>1. m \in 1..Len(Chain[j]) /\ \A n \in 1..m : n \in 1..k
      BY <1>1
    <2>2. Chain[j][m] \in Above(j, S)
      BY <1>1, <2>1 DEF Above
    <2>3. QED
      BY <1>1, <2>2
  <1>3. QED
    BY <1>1, <1>2 DEF Above

-----------------------------------------------------------------------------
(* The inductive invariant of the view.                                    *)

(* View and document agree on what is collapsed: what the document says is *)
(* collapsed in the view, and the view adds only what lies inside.         *)
InStep(d, c, w) ==
    /\ w = {} => d.collapsed \subseteq c /\ c \subseteq Below(d.collapsed, d.islands)
    /\ w \cap {"preset", "file"} = {} => c \subseteq d.islands

Papers == {d \in [id : DocIds, islands : SUBSET Islands, collapsed : SUBSET Islands] : DocOK(d)}

StoreOK ==
    /\ stored \in [DocIds -> Papers] /\ \A x \in DocIds : stored[x].id = x
    /\ storedMode \in [DocIds -> Modes]
    /\ past \in Seq(Papers) /\ future \in Seq(Papers)
    /\ reading = NoDocument \/ reading \in Papers
    /\ drift \subseteq {"nested", "undo", "reloaded", "preset", "file"}

ViewInv == Shape(ui) /\ AtRest(ui) /\ StoreOK /\ InStep(ui.document, ui.collapsed, drift)

LEMMA PaperOK == \A d : d \in Papers <=> DocOK(d)
  BY DEF Papers, DocOK

LEMMA BelowIs ==
  ASSUME NEW R, NEW S
  PROVE  Below(R, S) \subseteq S /\ R \cap S \subseteq Below(R, S)
  BY DEF Below

LEMMA BelowMerges ==
  ASSUME NEW d, DocOK(d), NEW c, d.collapsed \subseteq c, c \subseteq Below(d.collapsed, d.islands)
  PROVE  Below(c, d.islands) = Below(d.collapsed, d.islands)
  <1>1. Below(d.collapsed, d.islands) \subseteq Below(c, d.islands)
    BY DEF Below
  <1>2. ASSUME NEW i \in Below(c, d.islands) PROVE i \in Below(d.collapsed, d.islands)
    <2>1. i \in d.islands /\ i \in Islands
      BY <1>2 DEF Below, DocOK
    <2>2. PICK r \in c : r = i \/ r \in Above(i, d.islands)
      BY <1>2 DEF Below
    <2>3. PICK q \in d.collapsed : q = r \/ q \in Above(r, d.islands)
      BY <2>2 DEF Below
    <2>4. q = i \/ q \in Above(i, d.islands)
      BY <2>1, <2>2, <2>3, AboveTransitive
    <2>5. QED
      BY <2>1, <2>3, <2>4 DEF Below
  <1>3. QED
    BY <1>1, <1>2

Viewed ==
    /\ ViewTypeOK /\ ComesToRest /\ OnWhatIsShown /\ LevelFollowsDepth
    /\ ModeDictates /\ CollapsedStaysHidden /\ OpenShowsCards /\ CollapseInStep

LEMMA RestIsRest == ViewInv => ComesToRest
  <1> SUFFICES ASSUME ViewInv PROVE ComesToRest
    OBVIOUS
  <1> DEFINE r == Round(ui, ui)
  <1>1. Shape(ui) /\ IsView(ui) /\ AtRest(ui)
    BY DEF ViewInv, Shape
  <1>2. Rounded(ui, ui, r) /\ Steered(ui, ui, r)
    BY <1>1, RoundIs
  <1>3. ~NewDocument(ui, ui) /\ ~ReappliesMode(ui, ui)
    BY DEF NewDocument, ReappliesMode
  <1> HIDE DEF r
  <1>4. r.collapsed = ui.collapsed /\ r.imported = ui.imported /\ r.history = ui.history
        /\ r.reveal = ui.reveal /\ r.filters = ui.filters /\ r.level = ui.level
    BY <1>2, <1>3 DEF Rounded, CollapsedAfter, ImportedAfter
  <1>5. r.peek = ui.peek /\ r.selected = ui.selected
    BY <1>1, <1>2 DEF Rounded, AtRest, KeptIfVisible
  <1>6. r.summaryReveal = ui.summaryReveal
    BY <1>1, <1>2 DEF Rounded, AtRest
  <1>7. r.document = ui.document /\ r.mode = ui.mode /\ r.stamp = ui.stamp /\ r.saved = ui.saved
        /\ r.far = ui.far /\ IsView(r)
    BY <1>2 DEF Rounded
  <1>8. /\ r.summary = ui.summary /\ r.abstract = ui.abstract /\ r.maxDepth = ui.maxDepth
        /\ r.lod = ui.lod /\ r.perspective = ui.perspective /\ r.strict = ui.strict /\ r.active = ui.active
        /\ r.focus = ui.focus
    BY <1>1, <1>2, <1>3 DEF Steered, AtRest, KeptIfVisible
  <1>9. \A f \in Fields : r[f] = ui[f]
    BY <1>4, <1>5, <1>6, <1>7, <1>8 DEF Fields
  <1>10. r = ui
    BY <1>1, <1>7, <1>9 DEF IsView
  <1>11. QED
    BY <1>10 DEF r, ComesToRest

(* A card two collapsed islands hide stays hidden unless one was asked for. *)
LEMMA HiddenStays == CollapsedStaysHidden
  <1> SUFFICES ASSUME NEW c \in VisibleCards(ui) \ (ui.reveal \cup CardsIn({ui.peek})),
                      NEW h \in Home[c] \cap ScopeIslands(ui),
                      NEW a \in {h} \cup Above(h, ScopeIslands(ui)),
                      ~Asked(a), ({a} \cup Above(a, ScopeIslands(ui))) \cap ui.collapsed # {}
               PROVE  FALSE
    BY DEF CollapsedStaysHidden
  <1>1. c \in Cards /\ c \notin CollapseHidden(ui)
    BY DEF VisibleCards, HiddenCards, ScopeCards, CardsIn, CardsOf
  <1>2. a \in ScopeIslands(ui)
    BY AboveIn
  <1>3. a \in CollapsedInScope(ui)
    BY <1>2 DEF CollapsedInScope, Below
  <1>4. a \in EffectiveCollapsed(ui)
    BY <1>2, <1>3 DEF EffectiveCollapsed, Asked
  <1>5. h \in Below(EffectiveCollapsed(ui), ScopeIslands(ui))
    BY <1>4 DEF Below
  <1>6. c \in CardsIn(Below(EffectiveCollapsed(ui), ScopeIslands(ui)))
    BY <1>1, <1>5 DEF CardsIn
  <1>7. QED
    BY <1>1, <1>6 DEF CollapseHidden

LEMMA OpenShows == OpenShowsCards
  <1> SUFFICES ASSUME NEW i, i \notin Below(EffectiveCollapsed(ui), ScopeIslands(ui)),
                      NEW c \in CardsIn({i}) \cap CollapseHidden(ui)
               PROVE  \E k \in CardsIn({i}) : Cardinality(Home[k]) > 1
    BY DEF OpenShowsCards
  <1>1. c \in Cards /\ i \in Home[c] /\ Home[c] \in SUBSET Islands
    BY ViewAssumption DEF CardsIn
  <1>2. PICK j \in Home[c] : j \in Below(EffectiveCollapsed(ui), ScopeIslands(ui))
    BY DEF CollapseHidden, CardsIn
  <1>3. j # i /\ {i, j} \subseteq Home[c] /\ i \in {i, j}
    BY <1>1, <1>2
  <1>4. IsFiniteSet(Home[c])
    BY <1>1, ViewAssumption, FS_Subset
  <1>5. Cardinality({i, j}) = 2 /\ Cardinality({i, j}) <= Cardinality(Home[c]) /\ Cardinality(Home[c]) \in Nat
    <2>1. IsFiniteSet({i}) /\ Cardinality({i}) = 1
      BY FS_Singleton
    <2>2. {i, j} = {i} \cup {j}
      OBVIOUS
    <2>3. Cardinality({i} \cup {j}) = Cardinality({i}) + 1
      BY <1>3, <2>1, FS_AddElement
    <2>4. Cardinality({i, j}) = 2
      BY <2>1, <2>2, <2>3
    <2>5. QED
      BY <1>3, <1>4, <2>4, FS_Subset, FS_CardinalityType
  <1>6. QED
    BY <1>5

LEMMA ViewImplied == ViewInv => Viewed
  <1> SUFFICES ASSUME ViewInv PROVE Viewed
    OBVIOUS
  <1>1. Shape(ui) /\ AtRest(ui) /\ StoreOK /\ InStep(ui.document, ui.collapsed, drift)
    BY DEF ViewInv
  <1>2. ViewTypeOK
    BY <1>1 DEF ViewTypeOK, Shape, StoreOK, DocOK, IslandOrNone
  <1>3. OnWhatIsShown /\ LevelFollowsDepth /\ ModeDictates
    BY <1>1 DEF AtRest, Dictated, OnWhatIsShown, LevelFollowsDepth, ModeDictates
  <1>4. CollapseInStep
    BY <1>1, BelowMerges DEF Shape, InStep, CollapseInStep
  <1>5. QED
    BY <1>2, <1>3, <1>4, RestIsRest, HiddenStays, OpenShows DEF Viewed

LEMMA FirstView == ViewInit => ViewInv
  <1> SUFFICES ASSUME ViewInit PROVE ViewInv
    OBVIOUS
  <1>1. PICK id \in DocIds, i \in Islands \cup {Nowhere} :
          LET d == [NewDoc(id) EXCEPT !.collapsed = {i} \cap Structure[id]]
          IN  /\ ui = [InitView(d) EXCEPT !.collapsed = Below(d.collapsed, d.islands)]
              /\ stored = [x \in DocIds |-> IF x = id THEN d ELSE NewDoc(x)]
    BY DEF ViewInit
  <1> DEFINE d == [NewDoc(id) EXCEPT !.collapsed = {i} \cap Structure[id]]
  <1>2. \A x \in DocIds : Structure[x] \in SUBSET Islands
    BY ViewAssumption
  <1>3. /\ d = [id |-> id, islands |-> Structure[id], collapsed |-> {i} \cap Structure[id]]
        /\ d \in Papers /\ d.id = id
    BY <1>2 DEF NewDoc, Papers, DocOK
  <1>4. \A x \in DocIds : NewDoc(x) \in Papers /\ NewDoc(x).id = x
    BY <1>2 DEF NewDoc, Papers, DocOK
  <1>5. ui = [InitView(d) EXCEPT !.collapsed = Below(d.collapsed, d.islands)]
        /\ stored = [x \in DocIds |-> IF x = id THEN d ELSE NewDoc(x)]
    BY <1>1
  <1> HIDE DEF d
  <1>6. /\ IsView(ui) /\ ui.document = d /\ ui.collapsed = Below(d.collapsed, d.islands)
        /\ ui.imported = NothingImported /\ ui.focus = Nowhere /\ ui.history = <<>> /\ ui.maxDepth = All
        /\ ui.level = "detail" /\ ui.summary = FALSE /\ ui.abstract = FALSE /\ ui.peek = Nowhere
        /\ ui.summaryReveal = {} /\ ui.selected = Nowhere /\ ui.mode = "explore" /\ ui.saved = <<>>
    BY <1>5 DEF InitView, IsView, Fields
  <1>7. DocOK(d) /\ d.islands \subseteq Islands
    BY <1>3, PaperOK DEF DocOK
  <1>8. Below(d.collapsed, d.islands) \subseteq d.islands /\ d.collapsed \subseteq Below(d.collapsed, d.islands)
    BY <1>7, BelowIs DEF DocOK
  <1>9. Shape(ui)
    <2>1. ui.collapsed \subseteq Islands /\ ui.imported.collapsed \subseteq Islands
      BY <1>6, <1>7, <1>8 DEF NothingImported
    <2>2. ui.focus \in IslandOrNone /\ ui.selected \in IslandOrNone /\ ui.maxDepth \in Nat
      BY <1>6 DEF IslandOrNone, All
    <2>3. ui.level \in Levels /\ ui.mode \in Modes /\ ui.history \in Seq(Entry)
      BY <1>6 DEF Levels, Modes
    <2>4. QED
      BY <1>6, <1>7, <2>1, <2>2, <2>3 DEF Shape
  <1>10. AtRest(ui)
    BY <1>6 DEF AtRest, ClampedDepth, ResolveLevel, Dictated
  <1>11. StoreOK
    <2>1. stored \in [DocIds -> Papers] /\ \A x \in DocIds : stored[x].id = x
      BY <1>3, <1>4, <1>5
    <2>2. storedMode \in [DocIds -> Modes]
      BY DEF ViewInit, Modes
    <2>3. past \in Seq(Papers) /\ future \in Seq(Papers)
      BY DEF ViewInit
    <2>4. QED
      BY <2>1, <2>2, <2>3 DEF ViewInit, StoreOK
  <1>12. InStep(ui.document, ui.collapsed, drift)
    BY <1>6, <1>8 DEF InStep, ViewInit
  <1>13. QED
    BY <1>9, <1>10, <1>11, <1>12 DEF ViewInv

-----------------------------------------------------------------------------
(* Handlers.  What a handler leaves when it changes the document or not.   *)

LEMMA ModeStored ==
  ASSUME StoreOK, NEW s, Set(s), Shape(ui')
  PROVE  storedMode' \in [DocIds -> Modes]
  BY DEF StoreOK, Set, Shape, DocOK

(* A handler that changes the view only.                                   *)
Turned(s) ==
    /\ Shape(s) /\ s.document = ui.document
    /\ s.level = ResolveLevel(s.maxDepth) \/ s.maxDepth # ui.maxDepth

LEMMA TurnedReady == ASSUME ViewInv, NEW s, Turned(s) PROVE Ready(s, ui)
  BY DEF ViewInv, AtRest, Turned, Ready

LEMMA TurnKeeps ==
  ASSUME ViewInv, NEW s, Turned(s), s.collapsed = ui.collapsed, SetView(s)
  PROVE  ViewInv'
  <1>1. /\ AtRest(ui') /\ Shape(ui') /\ ui'.document = s.document
        /\ ui'.collapsed = CollapsedAfter(s, ui)
    BY TurnedReady, SetSettles DEF SetView
  <1>2. ui'.document = ui.document /\ ui'.collapsed = ui.collapsed
    BY <1>1 DEF Turned, CollapsedAfter, NewDocument
  <1>3. UNCHANGED <<stored, past, future, reading, drift>> /\ storedMode' \in [DocIds -> Modes]
    BY <1>1, ModeStored DEF SetView, ViewInv
  <1>4. StoreOK'
    BY <1>3 DEF ViewInv, StoreOK
  <1>5. InStep(ui.document, ui.collapsed, drift)'
    BY <1>2, <1>3 DEF ViewInv
  <1>6. QED
    BY <1>1, <1>4, <1>5 DEF ViewInv

(* A handler that changes fields no other part of the view depends on.     *)
Lighter == {"peek", "reveal", "summaryReveal", "perspective", "strict", "lod", "far", "filters",
            "active", "stamp"}

LEMMA LightKeeps ==
  ASSUME ViewInv, NEW s, SetView(s), IsView(s), \A f \in Fields \ Lighter : s[f] = ui[f]
  PROVE  ViewInv'
  <1>1. /\ s.document = ui.document /\ s.collapsed = ui.collapsed /\ s.imported = ui.imported
        /\ s.focus = ui.focus /\ s.history = ui.history /\ s.maxDepth = ui.maxDepth
        /\ s.level = ui.level /\ s.summary = ui.summary /\ s.abstract = ui.abstract
        /\ s.selected = ui.selected /\ s.mode = ui.mode /\ s.saved = ui.saved
    BY DEF Fields, Lighter
  <1>2. Turned(s)
    BY <1>1 DEF ViewInv, AtRest, Shape, Turned
  <1>3. QED
    BY <1>1, <1>2, TurnKeeps

LEMMA UiIsView == ViewInv => IsView(ui) /\ DOMAIN ui = Fields
  BY DEF ViewInv, Shape, IsView

LEMMA LightActions ==
  ASSUME ViewInv,
         \/ \E i \in Islands : PeekStart(i)
         \/ PeekEnd \/ RevealGrounding \/ ClearReveal \/ ToggleSummaryReveal
         \/ \E c \in Cards : InspectCard(c)
         \/ \E on \in BOOLEAN : SetLod(on, on)
         \/ \E p \in {"default", "facts"}, strict \in BOOLEAN : SetPerspective(p, strict)
         \/ \E f \in {"search", "state", "merged"} : ToggleFilter(f)
         \/ RenamePreset
  PROVE  ViewInv'
  <1>0. IsView(ui) /\ DOMAIN ui = Fields
    BY UiIsView
  <1>1. PICK s : SetView(s) /\ IsView(s) /\ \A f \in Fields \ Lighter : s[f] = ui[f]
    <2> DEFINE Light(s) == IsView(s) /\ \A f \in Fields \ Lighter : s[f] = ui[f]
    <2>1. ASSUME NEW v PROVE Light([ui EXCEPT !.peek = v]) /\ Light([ui EXCEPT !.reveal = v])
                             /\ Light([ui EXCEPT !.summaryReveal = v]) /\ Light([ui EXCEPT !.filters = v])
                             /\ Light([ui EXCEPT !.stamp = v])
      BY <1>0 DEF IsView, Fields, Lighter
    <2>2. ASSUME NEW v, NEW w PROVE Light([ui EXCEPT !.lod = v, !.far = w])
                                    /\ Light([ui EXCEPT !.perspective = v, !.strict = w])
      BY <1>0 DEF IsView, Fields, Lighter
    <2> HIDE DEF Light
    <2>3. \E s : SetView(s) /\ Light(s)
      <3>1. CASE \E i \in Islands : PeekStart(i)
        BY <2>1, <3>1 DEF PeekStart
      <3>2. CASE PeekEnd
        BY <2>1, <3>2 DEF PeekEnd
      <3>3. CASE RevealGrounding
        BY <2>1, <3>3 DEF RevealGrounding
      <3>4. CASE ClearReveal
        BY <2>1, <3>4 DEF ClearReveal
      <3>5. CASE ToggleSummaryReveal
        BY <2>1, <3>5 DEF ToggleSummaryReveal
      <3>6. CASE \E c \in Cards : InspectCard(c)
        BY <2>1, <3>6 DEF InspectCard
      <3>7. CASE \E on \in BOOLEAN : SetLod(on, on)
        BY <2>2, <3>7 DEF SetLod
      <3>8. CASE \E p \in {"default", "facts"}, strict \in BOOLEAN : SetPerspective(p, strict)
        BY <2>2, <3>8 DEF SetPerspective
      <3>9. CASE \E f \in {"search", "state", "merged"} : ToggleFilter(f)
        BY <2>1, <3>9 DEF ToggleFilter
      <3>10. CASE RenamePreset
        BY <2>1, <3>10 DEF RenamePreset
      <3>11. QED
        BY <3>1, <3>2, <3>3, <3>4, <3>5, <3>6, <3>7, <3>8, <3>9, <3>10
    <2>4. QED
      BY <2>3 DEF Light
  <1>2. QED
    BY <1>1, LightKeeps

(* What TurnKeeps asks of a state, for those that keep the collapsed       *)
(* islands.                                                                *)
Turns(s) == Turned(s) /\ s.collapsed = ui.collapsed

LEMMA FocusActions ==
  ASSUME ViewInv,
         \/ \E i \in Islands : FocusIsland(i) \/ SelectIsland(i)
         \/ FocusCard \/ ClearFocus \/ FocusBack
  PROVE  ViewInv'
  <1>0. /\ IsView(ui) /\ DOMAIN ui = Fields /\ Shape(ui) /\ ui.level = ResolveLevel(ui.maxDepth)
        /\ ui.history \in Seq(Entry)
    BY UiIsView DEF ViewInv, AtRest, Shape
  <1>1. Snapshot \in Entry
    BY <1>0 DEF Snapshot, Entry, Shape
  <1>2. ASSUME NEW f \in IslandOrNone, NEW h \in Seq(Entry), NEW n \in Nat
        PROVE  /\ Turns([ui EXCEPT !.focus = f]) /\ Turns([ui EXCEPT !.selected = f])
               /\ Turns([ui EXCEPT !.focus = f, !.history = h])
               /\ Turns([ui EXCEPT !.history = h, !.focus = f, !.maxDepth = n])
    <2>1. Turns([ui EXCEPT !.focus = f])
      BY <1>0 DEF Turns, Turned, Shape, IsView, Fields
    <2>2. Turns([ui EXCEPT !.selected = f])
      BY <1>0 DEF Turns, Turned, Shape, IsView, Fields
    <2>3. Turns([ui EXCEPT !.focus = f, !.history = h])
      BY <1>0 DEF Turns, Turned, Shape, IsView, Fields
    <2>4. Turns([ui EXCEPT !.history = h, !.focus = f, !.maxDepth = n])
      BY <1>0 DEF Turns, Turned, Shape, IsView, Fields
    <2>5. QED
      BY <2>1, <2>2, <2>3, <2>4
  <1>3. Nowhere \in IslandOrNone /\ Islands \subseteq IslandOrNone
    BY DEF IslandOrNone
  <1>4. Append(ui.history, Snapshot) \in Seq(Entry)
    BY <1>0, <1>1
  <1>5. \E s : SetView(s) /\ Turns(s)
    <2>1. CASE \E i \in Islands : FocusIsland(i)
      BY <1>2, <1>3, <1>4, <2>1 DEF FocusIsland
    <2>2. CASE \E i \in Islands : SelectIsland(i)
      BY <1>0, <1>2, <1>3, <2>2 DEF SelectIsland
    <2>3. CASE FocusCard
      BY <1>2, <1>3, <1>4, <2>3 DEF FocusCard
    <2>4. CASE ClearFocus
      BY <1>0, <1>2, <1>3, <2>4 DEF ClearFocus
    <2>5. CASE FocusBack
      <3> DEFINE h == SubSeq(ui.history, 1, Len(ui.history) - 1)
                 top == ui.history[Len(ui.history)]
      <3>1. ui.history # <<>> /\ Len(ui.history) \in 1..Len(ui.history)
        BY <1>0, <2>5 DEF FocusBack
      <3>2. h \in Seq(Entry) /\ top \in Entry
        BY <1>0, <3>1
      <3>3. top.focus \in IslandOrNone /\ top.maxDepth \in Nat
        BY <3>2 DEF Entry
      <3>4. Turns([ui EXCEPT !.history = h, !.focus = top.focus, !.maxDepth = top.maxDepth])
        BY <1>2, <3>2, <3>3
      <3>5. QED
        BY <2>5, <3>4 DEF FocusBack
    <2>6. QED
      BY <2>1, <2>2, <2>3, <2>4, <2>5
  <1>6. QED
    BY <1>5, TurnKeeps DEF Turns

LEMMA DepthActions ==
  ASSUME ViewInv,
         \/ \E n \in {2, All} : SetMaxDepth(n)
         \/ \E l \in Levels : SetHierarchyLevel(l)
         \/ \E n \in {0, 1, All} : ApplyDepthPreset(n)
  PROVE  ViewInv'
  <1>0. /\ IsView(ui) /\ DOMAIN ui = Fields /\ Shape(ui) /\ ui.level = ResolveLevel(ui.maxDepth)
    BY UiIsView DEF ViewInv, AtRest
  <1>1. ASSUME NEW n \in Nat
        PROVE  /\ Turns([ui EXCEPT !.maxDepth = n]) /\ Turns([ui EXCEPT !.focus = Nowhere, !.maxDepth = n])
    BY <1>0 DEF Turns, Turned, Shape, IsView, Fields, IslandOrNone
  <1>2. ASSUME NEW l \in Levels PROVE Turns([ui EXCEPT !.level = l, !.maxDepth = LevelDepth(l)])
    <2>1. LevelDepth(l) \in Nat /\ ResolveLevel(LevelDepth(l)) = l
      BY DEF Levels, LevelDepth, ResolveLevel, All
    <2>2. QED
      BY <1>0, <2>1 DEF Turns, Turned, Shape, IsView, Fields
  <1>3. {0, 1, 2, All} \subseteq Nat
    BY DEF All
  <1>4. \E s : SetView(s) /\ Turns(s)
    <2>1. CASE \E n \in {2, All} : SetMaxDepth(n)
      BY <1>1, <1>3, <2>1 DEF SetMaxDepth
    <2>2. CASE \E l \in Levels : SetHierarchyLevel(l)
      BY <1>2, <2>2 DEF SetHierarchyLevel
    <2>3. CASE \E n \in {0, 1, All} : ApplyDepthPreset(n)
      BY <1>1, <1>3, <2>3 DEF ApplyDepthPreset
    <2>4. QED
      BY <2>1, <2>2, <2>3
  <1>5. QED
    BY <1>4, TurnKeeps DEF Turns

LEMMA SwitchActions ==
  ASSUME ViewInv,
         \/ \E on \in BOOLEAN : SetSummary(on) \/ SetAbstract(on)
         \/ SavePreset \/ DeletePreset
  PROVE  ViewInv'
  <1>0. /\ IsView(ui) /\ DOMAIN ui = Fields /\ Shape(ui) /\ ui.level = ResolveLevel(ui.maxDepth)
    BY UiIsView DEF ViewInv, AtRest
  <1>1. ASSUME NEW on \in BOOLEAN
        PROVE  /\ Turns([ui EXCEPT !.summary = on])
               /\ Turns([ui EXCEPT !.abstract = on, !.summary = @ \/ on])
    <2>1. (ui.summary \/ on) \in BOOLEAN
      OBVIOUS
    <2>2. Turns([ui EXCEPT !.summary = on])
      BY <1>0 DEF Turns, Turned, Shape, IsView, Fields
    <2>3. Turns([ui EXCEPT !.abstract = on, !.summary = @ \/ on])
      BY <1>0, <2>1 DEF Turns, Turned, Shape, IsView, Fields
    <2>4. QED
      BY <2>2, <2>3
  <1>2. PatchOK(CaptureView(ui))
    BY <1>0 DEF CaptureView, PatchFields, PatchOK, Shape
  <1>3. ASSUME NEW q, q = <<>> \/ PatchOK(q), NEW a, NEW n
        PROVE  Turns([ui EXCEPT !.saved = q, !.active = a, !.stamp = n])
               /\ Turns([ui EXCEPT !.saved = q, !.stamp = n, !.active = a])
    BY <1>0, <1>3 DEF Turns, Turned, Shape, IsView, Fields
  <1>4. \E s : SetView(s) /\ Turns(s)
    <2>1. CASE \E on \in BOOLEAN : SetSummary(on)
      BY <1>1, <2>1 DEF SetSummary
    <2>2. CASE \E on \in BOOLEAN : SetAbstract(on)
      BY <1>1, <2>2 DEF SetAbstract
    <2>3. CASE SavePreset
      <3>1. Turns([ui EXCEPT !.saved = CaptureView(ui), !.active = "saved", !.stamp = 1 - ui.stamp])
        BY <1>2, <1>3
      <3>2. QED
        BY <2>3, <3>1 DEF SavePreset
    <2>4. CASE DeletePreset
      <3>1. Turns([ui EXCEPT !.saved = <<>>, !.stamp = 1 - ui.stamp,
                             !.active = IF ui.active = "saved" THEN Nowhere ELSE ui.active])
        BY <1>3
      <3>2. QED
        BY <2>4, <3>1 DEF DeletePreset
    <2>5. QED
      BY <2>1, <2>2, <2>3, <2>4
  <1>5. QED
    BY <1>4, TurnKeeps DEF Turns

-----------------------------------------------------------------------------
(* Modes, presets and files.                                               *)

LEMMA ModeActions ==
  ASSUME ViewInv, NEW m \in Modes, ApplyViewMode(m)
  PROVE  ViewInv'
  <1> DEFINE p == DefaultPatch(m)
             s == [ApplyViewPatch(ui, p) EXCEPT !.mode = m, !.active = m]
  <1>0. /\ IsView(ui) /\ Shape(ui) /\ ui.level = ResolveLevel(ui.maxDepth)
    BY UiIsView DEF ViewInv, AtRest
  <1>1. /\ DOMAIN p \subseteq PatchFields \ {"level", "collapsed"}
        /\ "focus" \in DOMAIN p => p.focus = Nowhere
        /\ "maxDepth" \in DOMAIN p => p.maxDepth \in Nat
        /\ "abstract" \in DOMAIN p => p.abstract \in BOOLEAN
        /\ "summary" \in DOMAIN p => p.summary \in BOOLEAN
    BY DEF DefaultPatch, Modes, PatchFields, All
  <1>2. SetView(s)
    BY DEF ApplyViewMode
  <1> HIDE DEF p
  <1>3. PatchedTo(ui, p, m, s)
    <2>1. \E a : s = [ApplyViewPatch(ui, p) EXCEPT !.mode = m, !.active = a]
      OBVIOUS
    <2>2. DOMAIN p \subseteq PatchFields
      BY <1>1
    <2> HIDE DEF s
    <2>3. QED
      BY <1>0, <2>1, <2>2, PatchedSo
  <1> HIDE DEF s
  <1>4. /\ s.document = ui.document /\ s.collapsed = ui.collapsed /\ s.imported = ui.imported
        /\ s.level = ui.level /\ s.selected = ui.selected /\ s.history = ui.history
        /\ s.saved = ui.saved /\ s.mode = m /\ IsView(s)
    BY <1>1, <1>3 DEF PatchedTo, Fields, PatchFields
  <1>5. s.focus \in IslandOrNone /\ s.abstract \in BOOLEAN
    BY <1>0, <1>1, <1>3 DEF PatchedTo, Fields, Shape, IslandOrNone
  <1>6. s.summary \in BOOLEAN
    BY <1>3 DEF PatchedTo, SummaryOfPatch
  <1>7. s.maxDepth \in Nat
    <2>1. s.maxDepth = Over(p, ui).maxDepth
      BY <1>1, <1>3 DEF PatchedTo, DepthOfPatch
    <2>2. Over(p, ui).maxDepth = IF "maxDepth" \in DOMAIN p THEN p.maxDepth ELSE ui.maxDepth
      BY <1>0 DEF Over, IsView, Fields
    <2>3. QED
      BY <1>0, <1>1, <2>1, <2>2 DEF Shape
  <1>8. Turned(s)
    BY <1>0, <1>4, <1>5, <1>6, <1>7 DEF Turned, Shape
  <1>9. QED
    BY <1>2, <1>4, <1>8, TurnKeeps

(* A handler that changes more than the view.                              *)
LEMMA ChangeKeeps ==
  ASSUME ViewInv, NEW s, Set(s), Ready(s, ui),
         stored' \in [DocIds -> Papers], \A x \in DocIds : stored'[x].id = x,
         past' \in Seq(Papers), future' \in Seq(Papers),
         reading' = NoDocument \/ reading' \in Papers,
         drift' \subseteq {"nested", "undo", "reloaded", "preset", "file"},
         InStep(s.document, CollapsedAfter(s, ui), drift')
  PROVE  ViewInv'
  <1>1. /\ AtRest(ui') /\ Shape(ui') /\ ui'.document = s.document
        /\ ui'.collapsed = CollapsedAfter(s, ui)
    BY SetSettles
  <1>2. storedMode' \in [DocIds -> Modes]
    BY <1>1, ModeStored DEF ViewInv
  <1>3. StoreOK'
    BY <1>2 DEF StoreOK
  <1>4. InStep(ui.document, ui.collapsed, drift)'
    BY <1>1
  <1>5. QED
    BY <1>1, <1>3, <1>4 DEF ViewInv

LEMMA ReadyHere ==
  ASSUME ViewInv, NEW s, Shape(s),
         s.level = ResolveLevel(s.maxDepth) \/ s.maxDepth # ui.maxDepth
  PROVE  Ready(s, ui)
  BY DEF ViewInv, AtRest, Ready

LEMMA PresetAction ==
  ASSUME ViewInv, ApplyPreset
  PROVE  ViewInv'
  <1> DEFINE p == ui.saved
             s == [ApplyViewPatch(ui, p) EXCEPT !.active = "saved"]
  <1>0. IsView(ui) /\ Shape(ui) /\ StoreOK
    BY UiIsView DEF ViewInv
  <1>1. PatchOK(p)
    BY <1>0 DEF ApplyPreset, Shape
  <1>2. Set(s)
    BY DEF ApplyPreset
  <1> HIDE DEF p
  <1>3. PatchedTo(ui, p, ui.mode, s)
    <2>1. \E a : s = [ApplyViewPatch(ui, p) EXCEPT !.active = a]
      OBVIOUS
    <2>2. DOMAIN p \subseteq PatchFields
      BY <1>1 DEF PatchOK
    <2> HIDE DEF s
    <2>3. QED
      BY <1>0, <2>1, <2>2, PatchedSo
  <1> HIDE DEF s
  <1>4. /\ s.document = ui.document /\ s.imported = ui.imported /\ s.selected = ui.selected
        /\ s.history = ui.history /\ s.saved = ui.saved /\ s.mode = ui.mode /\ IsView(s)
    BY <1>1, <1>3 DEF PatchedTo, Fields, PatchFields, PatchOK
  <1>5. s.focus = p.focus /\ s.abstract = p.abstract /\ s.level = p.level /\ s.collapsed = p.collapsed
    BY <1>1, <1>3 DEF PatchedTo, Fields, PatchFields, PatchOK
  <1>6. s.summary \in BOOLEAN
    BY <1>3 DEF PatchedTo, SummaryOfPatch
  <1>7. s.maxDepth = p.maxDepth
    <2>1. s.maxDepth = Over(p, ui).maxDepth
      BY <1>1, <1>3 DEF PatchedTo, DepthOfPatch, PatchOK, PatchFields
    <2>2. Over(p, ui).maxDepth = p.maxDepth
      BY <1>0, <1>1 DEF Over, IsView, Fields, PatchOK, PatchFields
    <2>3. QED
      BY <2>1, <2>2
  <1>8. s.level \in Levels
    BY <1>1, <1>5 DEF PatchOK, ResolveLevel, Levels
  <1>9. Shape(s) /\ s.level = ResolveLevel(s.maxDepth)
    BY <1>0, <1>1, <1>4, <1>5, <1>6, <1>7, <1>8 DEF Shape, PatchOK
  <1>10. Ready(s, ui)
    BY <1>9, ReadyHere
  <1>11. /\ UNCHANGED <<stored, past, future, reading>> /\ drift' = drift \cup {"preset"}
    BY DEF ApplyPreset
  <1>12. InStep(s.document, CollapsedAfter(s, ui), drift')
    BY <1>11 DEF InStep
  <1>13. QED
    BY <1>0, <1>2, <1>10, <1>11, <1>12, ChangeKeeps DEF StoreOK

LEMMA FileActions ==
  ASSUME ViewInv, OpenFile \/ ApplyImportedView
  PROVE  ViewInv'
  <1>0. IsView(ui) /\ DOMAIN ui = Fields /\ Shape(ui) /\ StoreOK
    BY UiIsView DEF ViewInv
  <1>1. CASE OpenFile
    <2>1. ui.document \in Papers
      BY <1>0, PaperOK DEF Shape
    <2>2. StoreOK'
      BY <1>0, <1>1, <2>1 DEF OpenFile, StoreOK
    <2>3. Shape(ui)' /\ AtRest(ui)' /\ InStep(ui.document, ui.collapsed, drift)'
      BY <1>1 DEF OpenFile, ViewInv
    <2>4. QED
      BY <2>2, <2>3 DEF ViewInv
  <1>2. CASE ApplyImportedView
    <2> DEFINE c == File.collapsed \cap reading.islands
               f == IF File.focus \in reading.islands THEN File.focus ELSE Nowhere
               o == Over(File, ui)
               s == [o EXCEPT !.summary = File.summary \/ File.abstract,
                              !.collapsed = c,
                              !.imported = [id |-> reading.id, collapsed |-> c],
                              !.saved = <<>>, !.stamp = 1 - @, !.active = Nowhere,
                              !.focus = f]
    <2>1. Set(s)
      BY <1>2 DEF ApplyImportedView
    <2>2. reading \in Papers /\ c \subseteq Islands /\ f \in IslandOrNone
      BY <1>0, <1>2 DEF ApplyImportedView, StoreOK, Papers, IslandOrNone
    <2>3. o = [x \in Fields |-> IF x \in PatchFields THEN File[x] ELSE ui[x]]
      BY <1>0, ViewAssumption DEF Over
    <2> HIDE DEF c, f, o
    <2>4. /\ IsView(s) /\ s.document = ui.document /\ s.selected = ui.selected
          /\ s.history = ui.history /\ s.saved = <<>> /\ s.mode = ui.mode
      <3>1. DOMAIN o = Fields
        BY <2>3
      <3>2. IsView(s)
        BY <3>1 DEF IsView
      <3>3. s.saved = <<>>
        BY <3>1 DEF Fields
      <3>4. /\ s.document = o.document /\ s.selected = o.selected
            /\ s.history = o.history /\ s.mode = o.mode
        BY <3>1 DEF Fields
      <3>5. /\ o.document = ui.document /\ o.selected = ui.selected
            /\ o.history = ui.history /\ o.mode = ui.mode
        BY <2>3 DEF Fields, PatchFields
      <3>6. QED
        BY <3>2, <3>3, <3>4, <3>5
    <2>5. /\ s.summary = (File.summary \/ File.abstract) /\ s.abstract = File.abstract
          /\ s.maxDepth = File.maxDepth /\ s.level = File.level
      BY <2>3 DEF Fields, PatchFields
    <2>6. s.collapsed = c /\ s.imported.collapsed = c /\ s.focus = f
      BY <2>3 DEF Fields, PatchFields
    <2> HIDE DEF s
    <2>7. s.summary \in BOOLEAN /\ s.abstract \in BOOLEAN
      BY <2>5, ViewAssumption
    <2>8. s.maxDepth \in Nat /\ s.level = ResolveLevel(s.maxDepth)
      BY <2>5, ViewAssumption
    <2>9. s.level \in Levels
      BY <2>8 DEF ResolveLevel, Levels
    <2>10. Shape(s)
      BY <1>0, <2>2, <2>4, <2>6, <2>7, <2>8, <2>9 DEF Shape
    <2>11. Ready(s, ui)
      BY <2>8, <2>10, ReadyHere
    <2>12. /\ UNCHANGED <<stored, past, future>> /\ reading' = NoDocument /\ drift' = drift \cup {"file"}
      BY <1>2 DEF ApplyImportedView
    <2>13. InStep(s.document, CollapsedAfter(s, ui), drift')
      BY <2>12 DEF InStep
    <2>14. QED
      BY <1>0, <2>1, <2>11, <2>12, <2>13, ChangeKeeps DEF StoreOK
  <1>3. QED
    BY <1>1, <1>2

-----------------------------------------------------------------------------
(* Handlers that change the document.                                      *)

(* The document s is left with, its islands collapsed so far.              *)
Edited(s, d, c) == Shape(s) /\ s.document = d /\ s.collapsed = c /\ s.maxDepth = ui.maxDepth
                   /\ s.level = ui.level /\ s.imported = ui.imported

LEMMA EditedReady ==
  ASSUME ViewInv, NEW s, NEW d, NEW c, Edited(s, d, c)
  PROVE  Ready(s, ui)
  BY ReadyHere DEF Edited, ViewInv, AtRest

LEMMA EditKeeps ==
  ASSUME ViewInv, NEW s, NEW d, NEW c, Edited(s, d, c), SetDocument(s), d.id = ui.document.id,
         drift' \subseteq {"nested", "undo", "reloaded", "preset", "file"},
         InStep(d, IF d = ui.document THEN c ELSE c \cap d.islands, drift')
  PROVE  ViewInv'
  <1>1. StoreOK /\ ui.document \in Papers
    BY PaperOK DEF ViewInv, Shape
  <1>2. /\ Set(s) /\ UNCHANGED <<stored, reading>>
        /\ past' = past \/ past' = Append(past, ui.document)
        /\ future' = future \/ future' = <<>>
    BY DEF SetDocument
  <1>3. past' \in Seq(Papers) /\ future' \in Seq(Papers)
    <2>1. past \in Seq(Papers) /\ future \in Seq(Papers)
      BY <1>1 DEF StoreOK
    <2>2. Append(past, ui.document) \in Seq(Papers) /\ <<>> \in Seq(Papers)
      BY <1>1, <2>1
    <2>3. QED
      BY <1>2, <2>1, <2>2
  <1>4. CollapsedAfter(s, ui) = (IF d = ui.document THEN c ELSE c \cap d.islands)
    BY DEF CollapsedAfter, NewDocument, Edited
  <1>5. s.document = d
    BY DEF Edited
  <1>6. InStep(s.document, CollapsedAfter(s, ui), drift')
    BY <1>4, <1>5
  <1>7. Ready(s, ui)
    BY EditedReady
  <1>8. stored' \in [DocIds -> Papers] /\ \A x \in DocIds : stored'[x].id = x
    BY <1>1, <1>2 DEF StoreOK
  <1>9. reading' = NoDocument \/ reading' \in Papers
    BY <1>1, <1>2 DEF StoreOK
  <1>10. QED
    BY <1>2, <1>3, <1>6, <1>7, <1>8, <1>9, ChangeKeeps

LEMMA CollapseKeepsStep ==
  ASSUME NEW d, DocOK(d), NEW c, NEW w, InStep(d, c, w), NEW i \in d.islands,
         c \cup {i} \subseteq d.islands,
         NEW e, e.islands = d.islands, e.collapsed = d.collapsed \cup {i}
  PROVE  InStep(e, c \cup {i}, w)
  <1>1. ASSUME w = {} PROVE e.collapsed \subseteq c \cup {i} /\ c \cup {i} \subseteq Below(e.collapsed, e.islands)
    <2>1. d.collapsed \subseteq c /\ c \subseteq Below(d.collapsed, d.islands)
      BY <1>1 DEF InStep
    <2>2. QED
      BY <2>1 DEF Below
  <1>2. QED
    BY <1>1 DEF InStep

LEMMA ExpandKeepsStep ==
  ASSUME NEW d, DocOK(d), NEW c, NEW w, InStep(d, c, w), NEW i \in d.islands,
         c \ {i} \subseteq d.islands,
         NEW e, e.islands = d.islands, e.collapsed = d.collapsed \ {i},
         \A j \in c \ {i} : i \notin Above(j, d.islands)
  PROVE  InStep(e, c \ {i}, w)
  <1>1. ASSUME w = {} PROVE e.collapsed \subseteq c \ {i} /\ c \ {i} \subseteq Below(e.collapsed, e.islands)
    <2>1. d.collapsed \subseteq c /\ c \subseteq Below(d.collapsed, d.islands)
      BY <1>1 DEF InStep
    <2>2. QED
      BY <2>1 DEF Below
  <1>2. QED
    BY <1>1 DEF InStep

LEMMA DeleteKeepsStep ==
  ASSUME NEW d, DocOK(d), NEW c, NEW w, InStep(d, c, w), NEW i \in d.islands,
         NEW e, e.islands = d.islands \ {i}, e.collapsed = d.collapsed \ {i},
         \A j \in c \cap d.islands : i \notin Above(j, d.islands)
  PROVE  InStep(e, c \cap e.islands, w)
  <1>1. e.islands = d.islands \ {i} /\ e.collapsed = d.collapsed \ {i}
    OBVIOUS
  <1>3. ASSUME w = {} PROVE e.collapsed \subseteq c \cap e.islands /\ c \cap e.islands \subseteq Below(e.collapsed, e.islands)
    <2>1. d.collapsed \subseteq c /\ c \subseteq Below(d.collapsed, d.islands)
      BY <1>3 DEF InStep
    <2>2. e.collapsed \subseteq c \cap e.islands
      BY <1>1, <2>1 DEF DocOK
    <2>3. ASSUME NEW j \in c \cap e.islands PROVE j \in Below(e.collapsed, e.islands)
      <3>1. j \in c \cap d.islands /\ j # i /\ j \in Below(d.collapsed, d.islands)
        BY <1>1, <2>1, <2>3
      <3>2. Above(j, d.islands) \subseteq Above(j, e.islands)
        BY <1>1, <3>1, AboveWithout
      <3>3. j \in d.collapsed \/ \E r \in d.collapsed : r \in Above(j, d.islands) /\ r # i
        BY <3>1 DEF Below
      <3>4. QED
        BY <1>1, <2>3, <3>1, <3>2, <3>3 DEF Below
    <2>4. QED
      BY <2>2, <2>3
  <1>4. QED
    BY <1>1, <1>3 DEF InStep

LEMMA EditedSo ==
  ASSUME ViewInv, NEW d, DocOK(d), NEW c \in SUBSET Islands, NEW s, IsView(s), s.document = d, s.collapsed = c,
         s.selected \in IslandOrNone,
         \A f \in Fields \ {"document", "collapsed", "selected", "mode"} : s[f] = ui[f], s.mode \in Modes
  PROVE  Edited(s, d, c)
  <1>1. /\ s.imported = ui.imported /\ s.focus = ui.focus /\ s.maxDepth = ui.maxDepth
        /\ s.level = ui.level /\ s.summary = ui.summary /\ s.abstract = ui.abstract
        /\ s.history = ui.history /\ s.saved = ui.saved
    BY DEF Fields
  <1>2. Shape(ui)
    BY DEF ViewInv
  <1>3. Shape(s)
    BY <1>1, <1>2 DEF Shape
  <1>4. QED
    BY <1>1, <1>3 DEF Edited

LEMMA CollapseActions ==
  ASSUME ViewInv, NEW i \in Islands, NEW collapse \in BOOLEAN, SetIslandCollapsed(i, collapse)
  PROVE  ViewInv'
  <1> DEFINE d == ui.document
             next == IF collapse THEN ui.collapsed \cup {i} ELSE ui.collapsed \ {i}
             flags == IF collapse THEN d.collapsed \cup {i} ELSE d.collapsed \ {i}
             e == [d EXCEPT !.collapsed = flags]
             s == [ui EXCEPT !.collapsed = next, !.document.collapsed = flags]
  <1>0. /\ IsView(ui) /\ DOMAIN ui = Fields /\ Shape(ui) /\ DocOK(d) /\ StoreOK
        /\ InStep(d, ui.collapsed, drift)
    BY UiIsView DEF ViewInv, Shape
  <1>1. /\ i \in d.islands /\ next \subseteq d.islands /\ SetDocument(s)
        /\ drift' = IF ~collapse /\ \E j \in next : i \in Above(j, d.islands)
                    THEN drift \cup {"nested"} ELSE drift
    BY DEF SetIslandCollapsed
  <1>2. DocOK(e) /\ e.id = d.id /\ e.islands = d.islands
    BY <1>0, <1>1 DEF DocOK
  <1>3. next \in SUBSET Islands
    BY <1>0, <1>1 DEF DocOK
  <1>4. Edited(s, e, next)
    <2>1. /\ IsView(s) /\ s.document = e /\ s.collapsed = next /\ s.selected = ui.selected
          /\ s.mode = ui.mode
      BY <1>0 DEF IsView, Fields
    <2>2. \A f \in Fields \ {"document", "collapsed", "selected", "mode"} : s[f] = ui[f]
      BY <1>0 DEF Fields
    <2> HIDE DEF s, e, next
    <2>3. QED
      BY <1>0, <1>2, <1>3, <2>1, <2>2, EditedSo DEF Shape
  <1>5. InStep(e, next, drift')
    <2>0. e.islands = d.islands /\ e.collapsed = flags
      BY <1>0 DEF DocOK
    <2> HIDE DEF e
    <2>1. CASE collapse
      <3>1. next = ui.collapsed \cup {i} /\ flags = d.collapsed \cup {i} /\ drift' = drift
        BY <1>1, <2>1
      <3> HIDE DEF d, next, flags
      <3>2. QED
        BY <1>0, <1>1, <2>0, <3>1, CollapseKeepsStep
    <2>2. CASE ~collapse /\ \E j \in next : i \in Above(j, d.islands)
      <3>1. drift' = drift \cup {"nested"} /\ next \subseteq e.islands
        BY <1>1, <2>0, <2>2
      <3>2. QED
        BY <3>1 DEF InStep
    <2>3. CASE ~collapse /\ \A j \in next : i \notin Above(j, d.islands)
      <3>1. drift' = drift /\ next = ui.collapsed \ {i} /\ flags = d.collapsed \ {i}
        BY <1>1, <2>3
      <3> HIDE DEF d, next, flags
      <3>2. QED
        BY <1>0, <1>1, <2>0, <2>3, <3>1, ExpandKeepsStep
    <2>4. QED
      BY <2>1, <2>2, <2>3
  <1>6. drift' \subseteq {"nested", "undo", "reloaded", "preset", "file"}
    BY <1>0, <1>1 DEF StoreOK
  <1>7. (IF e = d THEN next ELSE next \cap e.islands) = next
    BY <1>1, <1>2
  <1> HIDE DEF s, e, next, d
  <1>8. QED
    BY <1>1, <1>2, <1>4, <1>5, <1>6, <1>7, EditKeeps DEF d

LEMMA AllActions ==
  ASSUME ViewInv, NEW collapse \in BOOLEAN, SetAllCollapsed(collapse)
  PROVE  ViewInv'
  <1> DEFINE d == ui.document
             all == IF collapse THEN d.islands ELSE {}
             e == [d EXCEPT !.collapsed = all]
             s == [ui EXCEPT !.collapsed = all, !.document.collapsed = all]
  <1>0. /\ IsView(ui) /\ DOMAIN ui = Fields /\ Shape(ui) /\ DocOK(d)
    BY UiIsView DEF ViewInv, Shape
  <1>1. SetDocument(s) /\ drift' = {}
    BY DEF SetAllCollapsed
  <1>2. DocOK(e) /\ e.id = d.id /\ e.islands = d.islands /\ e.collapsed = all
    BY <1>0 DEF DocOK
  <1>3. all \in SUBSET Islands /\ all \subseteq d.islands
    BY <1>0 DEF DocOK
  <1>4. Edited(s, e, all)
    <2>1. /\ IsView(s) /\ s.document = e /\ s.collapsed = all /\ s.selected = ui.selected
          /\ s.mode = ui.mode
      BY <1>0 DEF IsView, Fields
    <2>2. \A f \in Fields \ {"document", "collapsed", "selected", "mode"} : s[f] = ui[f]
      BY <1>0 DEF Fields
    <2> HIDE DEF s, e, all
    <2>3. QED
      BY <1>0, <1>2, <1>3, <2>1, <2>2, EditedSo DEF Shape
  <1>5. InStep(e, IF e = d THEN all ELSE all \cap e.islands, drift')
    <2>1. (IF e = d THEN all ELSE all \cap e.islands) = all
      BY <1>2, <1>3
    <2> HIDE DEF e, all
    <2>2. QED
      BY <1>2, <1>3, <2>1 DEF InStep, Below
  <1> HIDE DEF s, e, all, d
  <1>6. QED
    BY <1>1, <1>2, <1>4, <1>5, EditKeeps DEF d

LEMMA DeleteActions ==
  ASSUME ViewInv, NEW i \in Islands, DeleteIsland(i)
  PROVE  ViewInv'
  <1> DEFINE d == ui.document
             e == [d EXCEPT !.islands = d.islands \ {i}, !.collapsed = d.collapsed \ {i}]
             s == [ui EXCEPT !.document.islands = @ \ {i}, !.document.collapsed = @ \ {i},
                             !.selected = IF @ = i THEN Nowhere ELSE @]
  <1>0. /\ IsView(ui) /\ DOMAIN ui = Fields /\ Shape(ui) /\ DocOK(d) /\ StoreOK
        /\ InStep(d, ui.collapsed, drift)
    BY UiIsView DEF ViewInv, Shape
  <1>1. /\ i \in d.islands /\ SetDocument(s)
        /\ drift' = IF \E j \in ui.collapsed \cap d.islands : i \in Above(j, d.islands)
                    THEN drift \cup {"nested"} ELSE drift
    BY DEF DeleteIsland
  <1>2. DocOK(e) /\ e.id = d.id
    BY <1>0 DEF DocOK
  <1>3. Edited(s, e, ui.collapsed)
    <2>1. s.document = e
      BY <1>0 DEF Fields, DocOK
    <2>2. IsView(s) /\ s.collapsed = ui.collapsed /\ s.mode = ui.mode
      BY <1>0 DEF IsView, Fields
    <2>3. s.selected \in IslandOrNone
      BY <1>0 DEF Fields, Shape, IslandOrNone
    <2>4. \A f \in Fields \ {"document", "collapsed", "selected", "mode"} : s[f] = ui[f]
      BY <1>0 DEF Fields
    <2> HIDE DEF s, e
    <2>5. QED
      BY <1>0, <1>2, <2>1, <2>2, <2>3, <2>4, EditedSo DEF Shape
  <1>4. InStep(e, IF e = d THEN ui.collapsed ELSE ui.collapsed \cap e.islands, drift')
    <2>1. CASE \E j \in ui.collapsed \cap d.islands : i \in Above(j, d.islands)
      <3>1. drift' = drift \cup {"nested"}
        BY <1>1, <2>1
      <3>2. e # d
        BY <1>0, <1>1 DEF DocOK
      <3> HIDE DEF e
      <3>3. QED
        BY <3>1, <3>2 DEF InStep
    <2>2. CASE \A j \in ui.collapsed \cap d.islands : i \notin Above(j, d.islands)
      <3>1. drift' = drift
        BY <1>1, <2>2
      <3>2. e.islands = d.islands \ {i} /\ e.collapsed = d.collapsed \ {i} /\ e # d
        BY <1>0, <1>1 DEF DocOK
      <3> HIDE DEF d, e
      <3>3. InStep(e, ui.collapsed \cap e.islands, drift)
        BY <1>0, <1>1, <2>2, <3>2, DeleteKeepsStep
      <3>4. QED
        BY <3>1, <3>2, <3>3
    <2>3. QED
      BY <2>1, <2>2
  <1>5. drift' \subseteq {"nested", "undo", "reloaded", "preset", "file"}
    BY <1>0, <1>1 DEF StoreOK
  <1> HIDE DEF s, e, d
  <1>6. QED
    BY <1>1, <1>2, <1>3, <1>4, <1>5, EditKeeps DEF d

(* Whatever document comes, what is collapsed afterwards is in it.         *)
LEMMA CollapsedIn ==
  ASSUME NEW s, s.collapsed = ui.collapsed, NEW w, InStep(ui.document, ui.collapsed, w),
         w \cap {"preset", "file"} = {}
  PROVE  CollapsedAfter(s, ui) \subseteq s.document.islands
  <1>1. Below(s.document.collapsed, s.document.islands) \subseteq s.document.islands
    BY BelowIs
  <1>2. ui.collapsed \subseteq ui.document.islands
    BY DEF InStep
  <1>3. QED
    BY <1>1, <1>2 DEF CollapsedAfter

LEMMA DriftedStep ==
  ASSUME ViewInv, NEW s, s.collapsed = ui.collapsed, NEW k
  PROVE  InStep(s.document, CollapsedAfter(s, ui), drift \cup {k})
  <1>1. InStep(ui.document, ui.collapsed, drift)
    BY DEF ViewInv
  <1>2. ASSUME (drift \cup {k}) \cap {"preset", "file"} = {}
        PROVE  CollapsedAfter(s, ui) \subseteq s.document.islands
    <2>1. drift \cap {"preset", "file"} = {}
      BY <1>2
    <2>2. QED
      BY <1>1, <2>1, CollapsedIn
  <1>3. QED
    BY <1>2 DEF InStep

LEMMA UndoneSo ==
  ASSUME ViewInv, NEW d \in Papers
  PROVE  Edited([ui EXCEPT !.document = d], d, ui.collapsed)
  <1> DEFINE s == [ui EXCEPT !.document = d]
  <1>0. IsView(ui) /\ DOMAIN ui = Fields /\ Shape(ui) /\ DocOK(d)
    BY UiIsView, PaperOK DEF ViewInv
  <1>1. /\ IsView(s) /\ s.document = d /\ s.collapsed = ui.collapsed /\ s.selected = ui.selected
        /\ s.mode = ui.mode
    BY <1>0 DEF IsView, Fields
  <1>2. \A f \in Fields \ {"document", "collapsed", "selected", "mode"} : s[f] = ui[f]
    BY <1>0 DEF Fields
  <1> HIDE DEF s
  <1>3. Edited(s, d, ui.collapsed)
    BY <1>0, <1>1, <1>2, EditedSo DEF Shape
  <1>4. QED
    BY <1>3 DEF s

LEMMA UndoActions ==
  ASSUME ViewInv, Undo \/ Redo
  PROVE  ViewInv'
  <1>0. StoreOK /\ past \in Seq(Papers) /\ future \in Seq(Papers) /\ ui.document \in Papers
    BY PaperOK DEF ViewInv, StoreOK, Shape
  <1>1. PICK d \in Papers : Set([ui EXCEPT !.document = d])
    <2>1. CASE Undo
      <3>1. past # <<>> /\ Len(past) \in 1..Len(past)
        BY <1>0, <2>1 DEF Undo
      <3>2. past[Len(past)] \in Papers
        BY <1>0, <3>1
      <3>3. QED
        BY <2>1, <3>2 DEF Undo
    <2>2. CASE Redo
      <3>1. Head(future) \in Papers
        BY <1>0, <2>2 DEF Redo
      <3>2. QED
        BY <2>2, <3>1 DEF Redo
    <2>3. QED
      BY <2>1, <2>2
  <1>2. past' \in Seq(Papers) /\ future' \in Seq(Papers)
    <2>1. CASE Undo
      <3>1. past # <<>> /\ Len(past) - 1 \in 0..Len(past)
        BY <1>0, <2>1 DEF Undo
      <3>2. SubSeq(past, 1, Len(past) - 1) \in Seq(Papers)
        BY <1>0, <3>1
      <3>3. <<ui.document>> \o future \in Seq(Papers)
        BY <1>0
      <3>4. QED
        BY <2>1, <3>2, <3>3 DEF Undo
    <2>2. CASE Redo
      <3>1. Tail(future) \in Seq(Papers)
        BY <1>0, <2>2 DEF Redo
      <3>2. Append(past, ui.document) \in Seq(Papers)
        BY <1>0
      <3>3. QED
        BY <2>2, <3>1, <3>2 DEF Redo
    <2>3. QED
      BY <2>1, <2>2
  <1>3. UNCHANGED <<stored, reading>> /\ drift' = drift \cup {"undo"}
    BY DEF Undo, Redo
  <1> DEFINE s == [ui EXCEPT !.document = d]
  <1>4. Edited(s, d, ui.collapsed) /\ Set(s)
    BY <1>1, UndoneSo
  <1> HIDE DEF s
  <1>5. Ready(s, ui) /\ s.collapsed = ui.collapsed
    BY <1>4, EditedReady DEF Edited
  <1>6. InStep(s.document, CollapsedAfter(s, ui), drift')
    BY <1>3, <1>5, DriftedStep
  <1>7. stored' \in [DocIds -> Papers] /\ \A x \in DocIds : stored'[x].id = x
    BY <1>0, <1>3 DEF StoreOK
  <1>8. /\ reading' = NoDocument \/ reading' \in Papers
        /\ drift' \subseteq {"nested", "undo", "reloaded", "preset", "file"}
    BY <1>0, <1>3 DEF StoreOK
  <1>9. QED
    BY <1>2, <1>4, <1>5, <1>6, <1>7, <1>8, ChangeKeeps

LEMMA LoadActions ==
  ASSUME ViewInv, NEW id \in DocIds, NEW saved \in BOOLEAN, Load(id, saved)
  PROVE  ViewInv'
  <1> DEFINE kept == IF saved THEN [stored EXCEPT ![ui.document.id] = ui.document] ELSE stored
             d == kept[id]
             s == [ui EXCEPT !.document = d, !.mode = storedMode[id], !.selected = Nowhere]
  <1>0. /\ IsView(ui) /\ DOMAIN ui = Fields /\ Shape(ui) /\ StoreOK /\ ui.document \in Papers
        /\ ui.document.id \in DocIds
    BY UiIsView, PaperOK DEF ViewInv, Shape, Papers
  <1>1. kept \in [DocIds -> Papers] /\ \A x \in DocIds : kept[x].id = x
    BY <1>0 DEF StoreOK
  <1>2. /\ Set(s) /\ stored' = kept /\ past' = <<>> /\ future' = <<>> /\ UNCHANGED reading
        /\ drift' = CASE id = ui.document.id -> drift \cup {"reloaded"}
                      [] id # ui.document.id /\ ui.imported.id = id -> {"file"}
                      [] OTHER -> {}
    BY DEF Load
  <1> HIDE DEF kept
  <1>3. d \in Papers /\ d.id = id /\ DocOK(d)
    BY <1>1, PaperOK
  <1> HIDE DEF d
  <1>4. storedMode[id] \in Modes
    BY <1>0 DEF StoreOK
  <1>5. Edited(s, d, ui.collapsed)
    <2>1. /\ IsView(s) /\ s.document = d /\ s.collapsed = ui.collapsed /\ s.selected = Nowhere
          /\ s.mode = storedMode[id]
      BY <1>0 DEF IsView, Fields
    <2>2. \A f \in Fields \ {"document", "collapsed", "selected", "mode"} : s[f] = ui[f]
      BY <1>0 DEF Fields
    <2> HIDE DEF s
    <2>3. QED
      BY <1>0, <1>3, <1>4, <2>1, <2>2, EditedSo DEF Shape, IslandOrNone
  <1> HIDE DEF s
  <1>6. Ready(s, ui) /\ s.document = d /\ s.collapsed = ui.collapsed /\ s.imported = ui.imported
    BY <1>5, EditedReady DEF Edited
  <1>7. InStep(s.document, CollapsedAfter(s, ui), drift')
    <2>1. CASE id = ui.document.id
      <3>1. drift' = drift \cup {"reloaded"}
        BY <1>2, <2>1
      <3>2. QED
        BY <1>6, <3>1, DriftedStep
    <2>2. CASE id # ui.document.id /\ ui.imported.id = id
      <3>1. drift' = {"file"}
        BY <1>2, <2>2
      <3>2. QED
        BY <3>1 DEF InStep
    <2>3. CASE id # ui.document.id /\ ui.imported.id # id
      <3>1. CollapsedAfter(s, ui) = Below(d.collapsed, d.islands)
        BY <1>3, <1>6, <2>3 DEF CollapsedAfter, NewDocument
      <3>2. d.collapsed \subseteq Below(d.collapsed, d.islands)
            /\ Below(d.collapsed, d.islands) \subseteq d.islands
        BY <1>3, BelowIs DEF DocOK
      <3>3. QED
        BY <1>6, <3>1, <3>2 DEF InStep
    <2>4. QED
      BY <2>1, <2>2, <2>3
  <1>8. drift' \subseteq {"nested", "undo", "reloaded", "preset", "file"}
    BY <1>0, <1>2 DEF StoreOK
  <1>9. past' \in Seq(Papers) /\ future' \in Seq(Papers)
    BY <1>2
  <1>10. reading' = NoDocument \/ reading' \in Papers
    BY <1>0, <1>2 DEF StoreOK
  <1>11. stored' \in [DocIds -> Papers] /\ \A x \in DocIds : stored'[x].id = x
    BY <1>1, <1>2
  <1>12. QED
    BY <1>2, <1>6, <1>7, <1>8, <1>9, <1>10, <1>11, ChangeKeeps

-----------------------------------------------------------------------------

LEMMA CollapseSteps == ViewInv /\ CollapseNext => ViewInv'
  <1> SUFFICES ASSUME ViewInv, CollapseNext PROVE ViewInv'
    OBVIOUS
  <1>1. CASE \E i \in Islands, collapse \in BOOLEAN : SetIslandCollapsed(i, collapse)
    BY <1>1, CollapseActions
  <1>2. CASE \E collapse \in BOOLEAN : SetAllCollapsed(collapse)
    BY <1>2, AllActions
  <1>3. CASE \E i \in Islands : DeleteIsland(i)
    BY <1>3, DeleteActions
  <1>4. CASE \E i \in Islands : FocusIsland(i)
    BY <1>4, FocusActions
  <1>5. CASE Undo \/ Redo
    BY <1>5, UndoActions
  <1>6. CASE \E id \in DocIds, saved \in BOOLEAN : Load(id, saved)
    BY <1>6, LoadActions
  <1>7. CASE \E m \in Modes : ApplyViewMode(m)
    BY <1>7, ModeActions
  <1>8. CASE SavePreset \/ DeletePreset
    BY <1>8, SwitchActions
  <1>9. CASE ApplyPreset
    BY <1>9, PresetAction
  <1>10. CASE RenamePreset
    BY <1>10, LightActions
  <1>11. CASE OpenFile \/ ApplyImportedView
    BY <1>11, FileActions
  <1>12. QED
    BY <1>1, <1>2, <1>3, <1>4, <1>5, <1>6, <1>7, <1>8, <1>9, <1>10, <1>11 DEF CollapseNext

LEMMA ShowSteps == ViewInv /\ ShowNext => ViewInv'
  <1> SUFFICES ASSUME ViewInv, ShowNext PROVE ViewInv'
    OBVIOUS
  <1>1. CASE \E i \in Islands : SetIslandCollapsed(i, TRUE)
    BY <1>1, CollapseActions
  <1>2. CASE \/ \E i \in Islands : FocusIsland(i) \/ SelectIsland(i)
             \/ FocusCard \/ ClearFocus \/ FocusBack
    BY <1>2, FocusActions
  <1>3. CASE \/ \E i \in Islands : PeekStart(i)
             \/ PeekEnd \/ RevealGrounding \/ ClearReveal \/ ToggleSummaryReveal
             \/ \E c \in Cards : InspectCard(c)
    BY <1>3, LightActions
  <1>4. CASE \/ \E n \in {2, All} : SetMaxDepth(n)
             \/ \E l \in Levels : SetHierarchyLevel(l)
             \/ \E n \in {0, 1, All} : ApplyDepthPreset(n)
    BY <1>4, DepthActions
  <1>5. CASE \E on \in BOOLEAN : SetSummary(on) \/ SetAbstract(on)
    BY <1>5, SwitchActions
  <1>6. CASE \/ \E on \in BOOLEAN : SetLod(on, on)
             \/ \E p \in {"default", "facts"}, strict \in BOOLEAN : SetPerspective(p, strict)
             \/ \E f \in {"search", "state", "merged"} : ToggleFilter(f)
    BY <1>6, LightActions
  <1>7. CASE \E m \in Modes : ApplyViewMode(m)
    BY <1>7, ModeActions
  <1>8. QED
    BY <1>1, <1>2, <1>3, <1>4, <1>5, <1>6, <1>7 DEF ShowNext

(* Opened on any document, and whatever handlers follow one another, the   *)
(* effects of the view come to rest, and what is shown agrees with the     *)
(* view and the document as ViewHolds says below (App.tsx).                *)
THEOREM ViewStays == ViewSpec => []Viewed
  <1>1. ViewInv /\ [CollapseNext \/ ShowNext]_viewVars => ViewInv'
    <2> SUFFICES ASSUME ViewInv, [CollapseNext \/ ShowNext]_viewVars PROVE ViewInv'
      OBVIOUS
    <2>1. CASE UNCHANGED viewVars
      BY <2>1 DEF viewVars, ViewInv, StoreOK
    <2>2. QED
      BY <2>1, CollapseSteps, ShowSteps
  <1>2. QED
    BY FirstView, <1>1, ViewImplied, PTL DEF ViewSpec

(* The effects of the view come to rest, focus and selection stay on       *)
(* islands shown, level follows depth, the preset of the mode prevails, a  *)
(* collapsed island hides its cards, an open one shows them, and view and  *)
(* document agree on what is collapsed (App.tsx).                          *)
THEOREM ViewHolds == SnapshotSpec => []ViewInvariant
  <1> DEFINE Inv == explored # "store" => ViewInv
  <1>1. SnapshotInit => Inv
    BY FirstView DEF SnapshotInit
  <1>2. Inv /\ [SnapshotNext]_<<explored, vars, viewVars>> => Inv'
    <2> SUFFICES ASSUME Inv, [SnapshotNext]_<<explored, vars, viewVars>>, explored' # "store"
        PROVE  ViewInv'
      OBVIOUS
    <2>1. explored' = explored /\ ViewInv
      BY DEF SnapshotNext
    <2>2. CASE UNCHANGED viewVars
      BY <2>1, <2>2 DEF viewVars, ViewInv, StoreOK
    <2>3. CASE CollapseNext
      BY <2>1, <2>3, CollapseSteps
    <2>4. CASE ShowNext
      BY <2>1, <2>4, ShowSteps
    <2>5. QED
      BY <2>1, <2>2, <2>3, <2>4 DEF SnapshotNext
  <1>3. Inv => ViewInvariant
    BY ViewImplied DEF Viewed, ViewInvariant
  <1>4. QED
    BY <1>1, <1>2, <1>3, PTL DEF SnapshotSpec
=============================================================================
