--------------------------- MODULE DocumentMerge ---------------------------
(***************************************************************************)
(* Bringing other people's changes into the open document: the comparison  *)
(* of a loaded document item by item (frontend diff/), and patch files     *)
(* (domain/patch/), with the checks both run before they touch anything.   *)
(*                                                                         *)
(* A document maps every identifier to what it has under it, or to Absent: *)
(* cards, islands (their members), edges and evidence links (between ends  *)
(* that belong to the identifier).  The fields of a card are offered one   *)
(* by one and applied together, so an item is an identifier.               *)
(***************************************************************************)
EXTENDS Naturals, FiniteSets, Sequences, SequencesExt

CONSTANTS Cards, Islands, Edges, Links,   \* identifiers
          Absent,          \* no entity under an identifier
          Joined,          \* an edge or a link is there
          Ends,            \* what an edge or a link joins
          Contents,        \* what a card may say
          Start,           \* the document that was opened
          Others,          \* documents a comparison file may hold
          MaxEdits         \* bound: edits of the document in a behaviour

VARIABLES doc,         \* the document
          base,        \* reviewDiffBaseSnapshot, or NoDoc
          incoming,    \* comparisonDocument
          confirmed,   \* mergeWarningConfirmationKey: the selection, or {}
          premerge,    \* lastMergeSnapshot, or NoDoc
          original,    \* pendingPatchImport.originalPatch, <<>> without one
          patch,       \* pendingPatchImport.patch
          chosen,      \* patchSelectedOpIdSet
          theirs,      \* operations whose resolution is "theirs"
          baseline,    \* patchBaselineDoc, or NoDoc
          edits,       \* edits so far
          did          \* what the last step did

vars == <<doc, base, incoming, confirmed, premerge, original, patch, chosen,
          theirs, baseline, edits, did>>

NoDoc == <<>>

Ids == Cards \cup Islands \cup Edges \cup Links

Values(i) == {Absent} \cup (IF i \in Cards THEN Contents
                            ELSE IF i \in Islands THEN SUBSET Cards ELSE {Joined})

IsDoc(d) == d = [i \in Ids |-> d[i]] /\ \A i \in Ids : d[i] \in Values(i)

Has(d, i) == d[i] # Absent

-----------------------------------------------------------------------------
(* Operations, lint and conflicts: domain/patch.                           *)

Op(n, i, v) == [id |-> n, on |-> i, val |-> v]

(* applyPatchOp: an upsert or a delete; deleting a card deletes its links. *)
ApplyOp(d, op) ==
    [i \in Ids |-> IF i = op.on THEN op.val
                   ELSE IF /\ op.val = Absent /\ op.on \in Cards
                           /\ i \in Links /\ op.on \in Ends[i]
                        THEN Absent ELSE d[i]]

ApplyOps(d, ops) ==
    LET upto[n \in 0..Len(ops)] == IF n = 0 THEN d ELSE ApplyOp(upto[n - 1], ops[n])
    IN  upto[Len(ops)]

(* Lint looks at the document with every operation applied, deleted cards  *)
(* leaving their links behind.                                             *)
LintView(d, ops) ==
    LET upto[n \in 0..Len(ops)] ==
            IF n = 0 THEN d ELSE [upto[n - 1] EXCEPT ![ops[n].on] = ops[n].val]
    IN  upto[Len(ops)]

(* The operations of p that are in S, in their order. *)
Keeping(p, S) ==
    LET upto[n \in 0..Len(p)] ==
            IF n = 0 THEN <<>>
            ELSE IF p[n] \in S THEN Append(upto[n - 1], p[n]) ELSE upto[n - 1]
    IN  upto[Len(p)]

DanglingIslands(d) == {i \in Islands : Has(d, i) /\ \E c \in d[i] : ~Has(d, c)}

DanglingJoins(d) ==
    {i \in Edges \cup Links : Has(d, i) /\ \E e \in Ends[i] : ~Has(d, e)}

Sound(d) == DanglingIslands(d) = {} /\ DanglingJoins(d) = {}

LintErrorsInIdsOnly(d, ops) ==     \* mutant: references unchecked
    \E m, n \in DOMAIN ops : m # n /\ ops[m].id = ops[n].id

(* An error, as opposed to a warning: P001, P002, P009 and P007. *)
LintErrors(d, ops) ==
    \/ ~Sound(LintView(d, ops))
    \/ \E m, n \in DOMAIN ops : m # n /\ ops[m].id = ops[n].id

(* A warning: two upserts of one entity, or a deleted island with edges. *)
LintWarns(ops) ==
    \E m, n \in DOMAIN ops : m # n /\ ops[m].on = ops[n].on /\ Absent \notin {ops[m].val, ops[n].val}

ConflictsInContentOnly(from, d, op) ==     \* mutant: deletions never conflict
    /\ Absent \notin {from[op.on], d[op.on], op.val}
    /\ from[op.on] # d[op.on] /\ d[op.on] # op.val

(* detectPatchConflicts: both sides changed it, and differently. *)
Conflicts(from, d, op) ==
    /\ from[op.on] # d[op.on]
    /\ from[op.on] # op.val
    /\ d[op.on] # op.val

-----------------------------------------------------------------------------
(* Merging a comparison document: diff/.                                   *)

(* The items offered; an edge or a link is only ever added or removed. *)
Items ==
    {i \in Ids : /\ base[i] # incoming[i]
                 /\ i \in Links => Absent \in {base[i], incoming[i]}}

(* What a selected item needs: the cards of an added link, the links of a  *)
(* removed card.                                                           *)
Needs(i) ==
    IF i \in Links /\ Has(incoming, i) THEN {c \in Ends[i] : ~Has(base, c)}
    ELSE IF i \in Cards /\ ~Has(incoming, i)
    THEN {l \in Links : Has(base, l) /\ i \in Ends[l]}
    ELSE {}

(* evaluateMergeSelection, with prerequisites included automatically. *)
WithPrerequisites(S, auto) ==
    IF auto THEN S \cup {i \in Items : \E s \in S : i \in Needs(s)} ELSE S

(* selectWithAutoPrerequisites: what preflight adds itself, and refuses. *)
Included(S) == UNION {Needs(i) : i \in S} \ S

Refused(S) ==
    \/ \E i \in Included(S) : i \in Cards /\ ~Has(incoming, i)
    \/ \E i \in Included(S) : i \in Links /\ Has(incoming, i)

(* buildOpList, sorted by operation: deletes of cards, edges, links and    *)
(* islands, then upserts in the same order of kinds.                       *)
Ops(S) ==
    LET of(K, gone) == {i \in S \cap K : gone = ~Has(incoming, i)}
        list(K, gone) == [n \in 1..Cardinality(of(K, gone)) |->
                             LET i == SetToSeq(of(K, gone))[n]
                             IN  Op(i, i, incoming[i])]
    IN  list(Cards, TRUE) \o list(Edges, TRUE) \o list(Links, TRUE)
          \o list(Islands, TRUE) \o list(Cards, FALSE) \o list(Edges, FALSE)
          \o list(Links, FALSE) \o list(Islands, FALSE)

LinksHold(d) == DanglingJoins(d) \cap Links = {}

Preflight(S) ==
    /\ LinksHold(base) /\ LinksHold(incoming)
    /\ ~Refused(S)
    /\ ~LintErrors(base, Ops(S \cup Included(S)))

(* applyMergeTransaction: warnings have to be confirmed for this very      *)
(* selection; then conflicts, lint and validation against the document as  *)
(* it is now.                                                              *)
Warned(S) == Included(S) # {}

Mergeable(S) ==
    LET ops == Ops(S \cup Included(S))
    IN  /\ \A n \in DOMAIN ops : ~Conflicts(base, doc, ops[n])
        /\ ~LintErrors(doc, ops)
        /\ LinksHold(ApplyOps(doc, ops))

-----------------------------------------------------------------------------
Init ==
    /\ doc = Start /\ base = NoDoc /\ incoming = NoDoc
    /\ confirmed = {} /\ premerge = NoDoc
    /\ original = <<>> /\ patch = <<>> /\ chosen = {} /\ theirs = {}
    /\ baseline = NoDoc /\ edits = 0 /\ did = "set"

Merging == <<base, incoming, confirmed, premerge>>
Patching == <<original, patch, chosen, theirs, baseline>>

(* An edit on the canvas: one entity, leaving the document sound. *)
Edit(i, v) ==
    /\ edits < MaxEdits
    /\ doc[i] # v
    /\ LET d == ApplyOp(doc, Op(0, i, v))
       IN  Sound(d) /\ doc' = d
    /\ edits' = edits + 1 /\ did' = "edit"
    /\ UNCHANGED <<Merging, Patching>>

LoadComparison(d) ==
    /\ base' = doc /\ incoming' = d
    /\ confirmed' = {} /\ premerge' = NoDoc
    /\ did' = "set"
    /\ UNCHANGED <<doc, Patching, edits>>

ApplyMerge(S, auto) ==
    /\ base # NoDoc
    /\ LET sel == WithPrerequisites(S, auto)
       IN  /\ sel # {}
           /\ \A i \in sel : Needs(i) \subseteq sel
           /\ Preflight(sel)
           /\ IF Warned(sel) /\ confirmed # sel
              THEN /\ confirmed' = sel /\ did' = "set"
                   /\ UNCHANGED <<doc, premerge>>
              ELSE /\ Mergeable(sel)
                   /\ confirmed' = {} /\ did' = "merge"
                   /\ premerge' = doc
                   /\ doc' = ApplyOps(doc, Ops(sel \cup Included(sel)))
    /\ UNCHANGED <<base, incoming, Patching, edits>>

UndoLastMerge ==
    /\ premerge # NoDoc
    /\ doc' = premerge /\ premerge' = NoDoc /\ confirmed' = {}
    /\ did' = "revert"
    /\ UNCHANGED <<base, incoming, Patching, edits>>

-----------------------------------------------------------------------------
(* Patch files.                                                            *)

OpIds(p) == {p[n].id : n \in DOMAIN p}

LoadPatch(p) ==
    /\ original' = p /\ patch' = p
    /\ chosen' = OpIds(p) /\ theirs' = {}
    /\ did' = "set"
    /\ UNCHANGED <<doc, Merging, baseline, edits>>

LoadBaseline(d) ==
    /\ baseline' = d /\ did' = "set"
    /\ UNCHANGED <<doc, Merging, original, patch, chosen, theirs, edits>>

ToggleOp(n) ==
    /\ n \in OpIds(patch)
    /\ chosen' = IF n \in chosen THEN chosen \ {n} ELSE chosen \cup {n}
    /\ did' = "set"
    /\ UNCHANGED <<doc, Merging, original, patch, theirs, baseline, edits>>

Resolve(n) ==
    /\ n \in OpIds(patch)
    /\ theirs' = IF n \in theirs THEN theirs \ {n} ELSE theirs \cup {n}
    /\ did' = "set"
    /\ UNCHANGED <<doc, Merging, original, patch, chosen, baseline, edits>>

PruneMissingNow(after, op) ==     \* mutant: looks at the document as it is
    IF op.on \in Islands /\ op.val # Absent
    THEN [op EXCEPT !.val = {c \in @ : Has(doc, c)}] ELSE op

(* proposeFixes and applyFixesToPatch: members the patched document would  *)
(* not have leave an upserted island, edges it could not join are dropped. *)
Prune(after, op) ==
    IF op.on \in Islands /\ op.val # Absent
    THEN [op EXCEPT !.val = {c \in @ : Has(after, c)}] ELSE op

Unjoinable(after, op) ==
    op.on \in Edges \cap DanglingJoins(after) /\ op.val # Absent

Fixable(d, p) ==
    LET after == LintView(d, p)
    IN  {op \in Range(p) : Prune(after, op) # op \/ Unjoinable(after, op)}

Fixed(d, p, S) ==
    LET after == LintView(d, p)
        kept == Keeping(p, Range(p) \ {op \in S : Unjoinable(after, op)})
    IN  [n \in DOMAIN kept |-> IF kept[n] \in S THEN Prune(after, kept[n]) ELSE kept[n]]

ApplyFixesKeepingChoices(S) ==     \* mutant: choices outlive their operations
    /\ S # {}
    /\ patch' = Fixed(doc, patch, S)
    /\ did' = "fix"
    /\ UNCHANGED <<doc, Merging, original, chosen, theirs, baseline, edits>>

ApplyFixes(S) ==
    /\ S # {}
    /\ patch' = Fixed(doc, patch, S)
    /\ chosen' = chosen \cap OpIds(patch')
    /\ theirs' = theirs \cap OpIds(patch')
    /\ did' = "fix"
    /\ UNCHANGED <<doc, Merging, original, baseline, edits>>

ResetPatch ==
    /\ original # <<>>
    /\ patch' = original /\ chosen' = OpIds(original) /\ theirs' = {}
    /\ did' = "set"
    /\ UNCHANGED <<doc, Merging, original, baseline, edits>>

TakenIfChosen ==     \* mutant: resolutions not consulted
    Keeping(patch, {op \in Range(patch) : op.id \in chosen})

(* Operations that are selected, and not in conflict unless "theirs". *)
Taken ==
    Keeping(patch, {op \in Range(patch) :
        /\ op.id \in chosen
        /\ \/ baseline = NoDoc
           \/ ~Conflicts(baseline, doc, op)
           \/ op.id \in theirs})

ApplyPatch ==
    /\ original # <<>>
    /\ ~LintErrors(doc, patch)
    /\ doc' = ApplyOps(doc, Taken)
    /\ did' = "patch"
    /\ UNCHANGED <<Merging, Patching, edits>>

-----------------------------------------------------------------------------
(* Bound: two operations, each changing the document that was opened;     *)
(* their identifiers may coincide.                                         *)
OneOps(n) == UNION {{Op(n, i, v) : v \in Values(i) \ {Start[i]}} : i \in Ids}

Patches ==
    {<<o, p>> : o \in OneOps(1), p \in OneOps(2)} \cup {<<o, o>> : o \in OneOps(1)}

(* Bound: a behaviour opens one comparison file or one patch file.         *)
Merge ==
    /\ original = <<>>
    /\ \/ base = NoDoc /\ \E d \in Others : LoadComparison(d)
       \/ base # NoDoc /\ \E S \in SUBSET Items, auto \in BOOLEAN : ApplyMerge(S, auto)
       \/ UndoLastMerge

Patch ==
    /\ base = NoDoc
    /\ \/ original = <<>> /\ \E p \in Patches : LoadPatch(p)
       \/ baseline = NoDoc /\ LoadBaseline(doc)
       \/ \E n \in {1, 2} : ToggleOp(n) \/ Resolve(n)
       \/ \E S \in SUBSET Fixable(doc, patch) : ApplyFixes(S)
       \/ ResetPatch
       \/ ApplyPatch

Next ==
    \/ \E i \in Ids : \E v \in Values(i) : Edit(i, v)
    \/ Merge
    \/ Patch

Spec == Init /\ [][Next]_vars

-----------------------------------------------------------------------------
(* Properties.                                                             *)

(* Documents are documents; choices and resolutions are about operations   *)
(* the patch has, also after fixes dropped some of them.                   *)
TypeOK ==
    /\ IsDoc(doc)
    /\ \A d \in {base, incoming, premerge, baseline} : d = NoDoc \/ IsDoc(d)
    /\ confirmed \subseteq Ids
    /\ chosen \cup theirs \subseteq OpIds(patch)
    /\ OpIds(patch) \subseteq OpIds(original)
    /\ edits \in 0..MaxEdits

(* applyMergeTransaction never overwrites or removes what the user changed *)
(* after the comparison was loaded, not even through the cascade from a    *)
(* deleted card to its links; and it takes over only what the other        *)
(* document says.                                                          *)
MergeKeepsLocalWork ==
    [][did' = "merge" =>
         \A i \in Ids :
            /\ doc[i] \notin {base[i], incoming[i]} => doc'[i] = doc[i]
            /\ doc'[i] # doc[i] => doc'[i] = incoming[i]]_vars

(* A merge leaves no member, edge or evidence link without its ends,       *)
(* whatever selection was confirmed and whatever was edited meanwhile.     *)
MergeKeepsReferences ==
    [][did' = "merge" => \A i \in Ids : Has(doc', i) =>
          /\ i \in Islands => \A c \in doc'[i] : Has(doc', c)
          /\ i \in Edges \cup Links => \A e \in Ends[i] : Has(doc', e)]_vars

(* A patch applied in full - every operation selected, conflicts all       *)
(* resolved as "theirs" - has no dangling reference.  With part of it      *)
(* selected this is not so: lint looks at the whole patch.                 *)
WholePatchKeepsReferences ==
    [][did' = "patch" /\ chosen = OpIds(patch)
         /\ (baseline = NoDoc \/ theirs = OpIds(patch)) =>
          \A i \in Ids : Has(doc', i) =>
            /\ i \in Islands => \A c \in doc'[i] : Has(doc', c)
            /\ i \in Edges \cup Links => \A e \in Ends[i] : Has(doc', e)]_vars

(* Against a baseline, what the user and the patch changed differently     *)
(* stays the user's unless the conflict was resolved as "theirs".  Links   *)
(* are left out: deleting a card takes them along, in conflict or not.     *)
ConflictsStayYours ==
    [][did' = "patch" /\ baseline # NoDoc =>
         \A i \in Ids \ Links :
            /\ doc[i] # baseline[i]
            /\ \A n \in DOMAIN patch : patch[n].on = i =>
                  /\ patch[n].val \notin {doc[i], baseline[i]}
                  /\ patch[n].id \notin theirs
            => doc'[i] = doc[i]]_vars

(* An operation rewritten by a fix refers only to cards the document will  *)
(* have once the whole fixed patch is applied, whichever of the proposed   *)
(* fixes were selected.                                                    *)
FixesResolve ==
    [][did' = "fix" =>
         \A n \in DOMAIN patch' :
            LET op == patch'[n]
            IN  op \notin Range(patch) =>
                  \A c \in op.val : Has(ApplyOps(doc, patch'), c)]_vars
=============================================================================
