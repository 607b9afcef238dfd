----------------------------- MODULE CueAssets -----------------------------
(***************************************************************************)
(* Drawn and cropped visual cues of islands                                *)
(* (representative_visual_cue_assets.ts and its editors).  A document only *)
(* names its cue; the picture is a record of the browser's database, which *)
(* all tabs share and which is never sent to the server.  An editor stores *)
(* the picture first and then puts its name into the document; whenever a  *)
(* tab's history changes, the pictures of its document that the history no *)
(* longer names are swept, by a transaction that runs later with the names *)
(* collected then.                                                         *)
(*                                                                         *)
(* A document has one island.  Pictures, their encoding and their size     *)
(* limits are left out: a picture either is a valid record or is refused.  *)
(***************************************************************************)
EXTENDS Naturals, Sequences, SequencesExt

CONSTANTS Tabs,          \* tabs of one browser, under one storage scope
          Docs,          \* document ids
          Refs,          \* imageRefs
          HistoryLimit,  \* HISTORY_LIMIT
          MaxTurns       \* bound: changes of a history

VARIABLES stored,    \* per imageRef: the document of its record, NoDoc if there is none
          cloud,     \* per document: the cue of the copy on the server
          view,      \* per tab: its history
          sweeps,    \* sweeps that have not run
          easel,     \* per tab: the editor or import that is at work
          drawn,     \* imageRefs drawn so far
          unkept,    \* imageRefs left behind by a failure
          exposed,   \* imageRefs that came to a history too late or not alone
          rounds     \* changes of a history so far

cueVars == <<stored, cloud, view, sweeps, easel, drawn, unkept, exposed, rounds>>

NoDoc == "no document"
NoCue == "no cue"

Page == [id : Docs, cue : Refs \cup {NoCue}]

Blank == [step |-> "idle", base |-> [id |-> NoDoc, cue |-> NoCue], ref |-> NoCue]

Opened(d, c) == [past |-> <<>>, present |-> [id |-> d, cue |-> c], future |-> <<>>]

Init ==
    /\ stored = [r \in Refs |-> NoDoc]
    /\ cloud = [d \in Docs |-> NoCue]
    /\ \E d \in Docs : view = [t \in Tabs |-> Opened(d, NoCue)]
    /\ sweeps = {} /\ easel = [t \in Tabs |-> Blank] /\ drawn = {}
    /\ unkept = {} /\ exposed = {} /\ rounds = 0

-----------------------------------------------------------------------------
(* What a history names.                                                   *)

Pages(h) == ToSet(h.past) \cup {h.present} \cup ToSet(h.future)

(* collectPortableVisualCueImageRefs *)
Named(S) == {p.cue : p \in S} \ {NoCue}

(* Mutant: only what is shown is kept. *)
KeptByPresent(h) == Named({h.present})

(* What the sweep started by a change of the history spares. *)
Kept(h) == Named(Pages(h))

Doomed(r) == \E s \in sweeps : s.id = stored[r] /\ r \notin s.keep

(* An imageRef is exposed when it gets into a history after its record has *)
(* gone, under a sweep that does not know it, or in a document that does   *)
(* not own the record; when it gets there while another tab shows the      *)
(* document that owns it; and when another tab's sweep of that document    *)
(* does not know it.                                                       *)
Exposing(t, h) ==
    {r \in Named(Pages(h)) :
        \/ r \notin Named(Pages(view[t])) /\ (stored[r] # h.present.id \/ Doomed(r))
        \/ \E u \in Tabs \ {t} : view[u].present.id = stored[r]}
    \cup {r \in Refs \ Named(Pages(h)) :
            stored[r] = h.present.id /\ \E u \in Tabs \ {t} : r \in Named(Pages(view[u]))}

(* A new history and the effect that follows it. *)
Turn(t, h) ==
    /\ rounds < MaxTurns
    /\ rounds' = rounds + 1
    /\ view' = [view EXCEPT ![t] = h]
    /\ sweeps' = sweeps \cup {[tab |-> t, id |-> h.present.id, keep |-> Kept(h)]}
    /\ exposed' = exposed \cup Exposing(t, h)

-----------------------------------------------------------------------------
(* The document.                                                           *)

Pushed(h, p) ==
    [past |-> LET all == Append(h.past, h.present)
              IN  IF Len(all) > HistoryLimit THEN Tail(all) ELSE all,
     present |-> p, future |-> <<>>]

Load(t, d) ==
    /\ Turn(t, Opened(d, cloud[d]))
    /\ UNCHANGED <<stored, cloud, easel, drawn, unkept>>

(* A saved document starts a new history. *)
Save(t) ==
    LET p == view[t].present
    IN  /\ cloud' = [cloud EXCEPT ![p.id] = p.cue]
        /\ Turn(t, Opened(p.id, p.cue))
        /\ UNCHANGED <<stored, easel, drawn, unkept>>

(* handleIslandRepresentativeVisualCueChange with no cue or a preset. *)
RemoveCue(t) ==
    /\ view[t].present.cue # NoCue
    /\ Turn(t, Pushed(view[t], [view[t].present EXCEPT !.cue = NoCue]))
    /\ UNCHANGED <<stored, cloud, easel, drawn, unkept>>

OtherEdit(t) ==
    /\ Turn(t, Pushed(view[t], view[t].present))
    /\ UNCHANGED <<stored, cloud, easel, drawn, unkept>>

Undo(t) ==
    /\ view[t].past # <<>>
    /\ Turn(t, [past |-> Front(view[t].past), present |-> Last(view[t].past),
                future |-> <<view[t].present>> \o view[t].future])
    /\ UNCHANGED <<stored, cloud, easel, drawn, unkept>>

Redo(t) ==
    /\ view[t].future # <<>>
    /\ Turn(t, [past |-> Pushed(view[t], view[t].present).past,
                present |-> Head(view[t].future), future |-> Tail(view[t].future)])
    /\ UNCHANGED <<stored, cloud, easel, drawn, unkept>>

(* duplicateDocumentWithNewId: the copy names the same record. *)
Duplicate(t, d) ==
    /\ \A u \in Tabs : \A p \in Pages(view[u]) : p.id # d
    /\ cloud[d] = NoCue
    /\ Turn(t, Opened(d, view[t].present.cue))
    /\ UNCHANGED <<stored, cloud, easel, drawn, unkept>>

-----------------------------------------------------------------------------
(* deleteUnreferencedRepresentativeVisualCueAssets: one transaction over   *)
(* the records of one document.                                            *)

SweepRuns(s) ==
    /\ stored' = [r \in Refs |-> IF stored[r] = s.id /\ r \notin s.keep THEN NoDoc
                                 ELSE stored[r]]
    /\ sweeps' = sweeps \ {s}
    /\ UNCHANGED <<cloud, view, easel, drawn, unkept, exposed, rounds>>

(* Best effort: the next change of the history tries again. *)
SweepFails(s) ==
    /\ sweeps' = sweeps \ {s}
    /\ unkept' = unkept \cup {r \in Refs : stored[r] = s.id /\ r \notin s.keep}
    /\ UNCHANGED <<stored, cloud, view, easel, drawn, exposed, rounds>>

-----------------------------------------------------------------------------
(* The editors.                                                            *)

(* handleSave, handleAdopt: the document shown now is the one that will be *)
(* changed.                                                                *)
StartDrawing(t) ==
    /\ easel[t].step = "idle"
    /\ easel' = [easel EXCEPT ![t] = [step |-> "saving", base |-> view[t].present, ref |-> NoCue]]
    /\ UNCHANGED <<stored, cloud, view, sweeps, drawn, unkept, exposed, rounds>>

(* saveRepresentativeVisualCueAsset: a fresh imageRef, added in one        *)
(* transaction.                                                            *)
AssetStored(t, r) ==
    /\ easel[t].step = "saving"
    /\ r \in Refs \ drawn
    /\ stored' = [stored EXCEPT ![r] = easel[t].base.id]
    /\ drawn' = drawn \cup {r}
    /\ easel' = [easel EXCEPT ![t].step = "stored", ![t].ref = r]
    /\ UNCHANGED <<cloud, view, sweeps, unkept, exposed, rounds>>

NothingStored(t) ==
    /\ easel[t].step = "saving"
    /\ easel' = [easel EXCEPT ![t] = Blank]
    /\ UNCHANGED <<stored, cloud, view, sweeps, drawn, unkept, exposed, rounds>>

(* The cue goes into the document the editor was opened on, whatever is    *)
(* shown by now.                                                           *)
Adopt(t) ==
    /\ easel[t].step = "stored"
    /\ Turn(t, Pushed(view[t], [easel[t].base EXCEPT !.cue = easel[t].ref]))
    /\ easel' = [easel EXCEPT ![t] = Blank]
    /\ UNCHANGED <<stored, cloud, drawn, unkept>>

(* The session has become read-only: the record is taken back, if that     *)
(* does not fail too.                                                      *)
Refuse(t) ==
    /\ easel[t].step = "stored"
    /\ easel' = [easel EXCEPT ![t] = Blank]
    /\ \/ stored' = [stored EXCEPT ![easel[t].ref] = NoDoc] /\ UNCHANGED unkept
       \/ UNCHANGED stored /\ unkept' = unkept \cup {easel[t].ref}
    /\ UNCHANGED <<cloud, view, sweeps, drawn, exposed, rounds>>

-----------------------------------------------------------------------------
(* Review packs.                                                           *)

(* A pack without pictures: stripPortableVisualCues. *)
ImportStripped(t, d) ==
    /\ Turn(t, Opened(d, NoCue))
    /\ UNCHANGED <<stored, cloud, easel, drawn, unkept>>

(* Mutant: a record of another document is taken over. *)
RestoreTakingOver(t, d, r) ==
    /\ easel[t].step = "idle"
    /\ stored' = [stored EXCEPT ![r] = d]
    /\ drawn' = drawn \cup {r}
    /\ easel' = [easel EXCEPT ![t] = [step |-> "restored", base |-> [id |-> d, cue |-> r],
                                      ref |-> r]]
    /\ UNCHANGED <<cloud, view, sweeps, unkept, exposed, rounds>>

(* restoreRepresentativeVisualCueAssetBundle: refused when another         *)
(* document owns the record.  A pack names pictures that were in use.      *)
Restore(t, d, r) ==
    /\ easel[t].step = "idle"
    /\ \A u \in Tabs : easel[u].ref # r
    /\ stored[r] \in {NoDoc, d}
    /\ stored' = [stored EXCEPT ![r] = d]
    /\ drawn' = drawn \cup {r}
    /\ easel' = [easel EXCEPT ![t] = [step |-> "restored", base |-> [id |-> d, cue |-> r],
                                      ref |-> r]]
    /\ UNCHANGED <<cloud, view, sweeps, unkept, exposed, rounds>>

(* The rest of the import. *)
ImportRestored(t) ==
    /\ easel[t].step = "restored"
    /\ Turn(t, Opened(easel[t].base.id, easel[t].base.cue))
    /\ easel' = [easel EXCEPT ![t] = Blank]
    /\ UNCHANGED <<stored, cloud, drawn, unkept>>

(* The rest of the pack is refused, or the tenant has changed. *)
ImportDropped(t) ==
    /\ easel[t].step = "restored"
    /\ easel' = [easel EXCEPT ![t] = Blank]
    /\ unkept' = unkept \cup {easel[t].ref}
    /\ UNCHANGED <<stored, cloud, view, sweeps, drawn, exposed, rounds>>

-----------------------------------------------------------------------------
Next ==
    \/ \E s \in sweeps : SweepRuns(s) \/ SweepFails(s)
    \/ \E t \in Tabs :
           \/ Save(t) \/ RemoveCue(t) \/ OtherEdit(t) \/ Undo(t) \/ Redo(t)
           \/ StartDrawing(t) \/ NothingStored(t) \/ Adopt(t) \/ Refuse(t)
           \/ ImportRestored(t) \/ ImportDropped(t)
           \/ \E d \in Docs : Load(t, d) \/ Duplicate(t, d) \/ ImportStripped(t, d)
           \/ \E r \in Refs : AssetStored(t, r)
           \/ \E d \in Docs, r \in Refs : Restore(t, d, r)

Spec == Init /\ [][Next]_cueVars

-----------------------------------------------------------------------------
TypeOK ==
    /\ stored \in [Refs -> Docs \cup {NoDoc}]
    /\ cloud \in [Docs -> Refs \cup {NoCue}]
    /\ \A t \in Tabs : Pages(view[t]) \subseteq Page /\ Len(view[t].past) <= HistoryLimit
    /\ drawn \subseteq Refs /\ unkept \subseteq Refs /\ exposed \subseteq Refs

(* Undo and redo always find the picture: what some document of a tab's    *)
(* history names has its record, unless the name was exposed as above.     *)
(* Sweeps that run late, fail or run twice never take a record that was in *)
(* the history when they were started.                                     *)
HistoryHasAssets ==
    \A t \in Tabs : \A r \in Named(Pages(view[t])) : stored[r] # NoDoc \/ r \in exposed

(* A tab that has the document to itself and nothing under way keeps no    *)
(* record the history does not name, but for exposed ones and for what a   *)
(* failure left behind.                                                    *)
Collected ==
    \A t \in Tabs :
        LET d == view[t].present.id
        IN  (/\ easel[t].step = "idle"
             /\ \A s \in sweeps : s.tab # t
             /\ \A u \in Tabs \ {t} : /\ \A p \in Pages(view[u]) : p.id # d
                                      /\ easel[u].base.id # d)
            => \A r \in Refs : stored[r] = d => r \in Named(Pages(view[t])) \cup unkept \cup exposed
=============================================================================
