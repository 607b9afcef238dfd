--------------------------- MODULE MCInquiryPanel ---------------------------
(* The inquiry panel from two sides, each side on its own: panels of   *)
(* one principal storing bundles on the server, and the journey a bundle   *)
(* records.                                                                *)
EXTENDS InquiryPanel, TLC

CONSTANTS user,
          Sheets, Notes, Texts, Stages, Times, MaxDeeds

VARIABLES side,   \* the side this behaviour is about
          sheet, undo, shown, checkpoint, clock, work, files, given, deeds, strayed

Journey == INSTANCE InquiryJourney
           WITH bundle <- shown, past <- undo, steps <- deeds,
                DocIds <- Sheets, Cards <- Notes, MaxSteps <- MaxDeeds

(* The clock has a latest time; a card without a text is no card.          *)
ASSUME JourneyAssumption ==
    /\ Sheets # {} /\ Texts # {} /\ Stages # {}
    /\ Journey!NoCard.text \notin Texts
    /\ Times \subseteq Nat /\ \E t \in Times : \A u \in Times : t >= u
    /\ MaxDeeds \in Nat

journeyVars == <<sheet, undo, shown, checkpoint, clock, work, files, given, deeds, strayed>>

OneUser == [c \in Clients |-> user]

PanelSymmetry == Permutations(Clients) \cup Permutations(Journeys)

InquiryInit ==
    /\ side \in {"server", "journey"}
    /\ PanelInit /\ Journey!Init
    /\ side = "server" => files = {}

InquiryNext ==
    /\ UNCHANGED side
    /\ \/ side = "server" /\ PanelNext /\ UNCHANGED journeyVars
       \/ side = "journey" /\ Journey!Next /\ UNCHANGED vars

InquirySpec == InquiryInit /\ [][InquiryNext]_<<side, vars, journeyVars>>

(* Whatever rounds, branches, handoffs, imports and their late answers     *)
(* lead to, the bundle on screen is one that can be written, stored, shared*)
(* and read again, belongs to the open document and tells where each of    *)
(* its cards comes from; and what was shared shows nothing in the clear    *)
(* and nothing beyond the selected round.                                  *)
JourneyInvariant ==
    /\ Journey!TypeOK
    /\ Journey!AlwaysSaveable
    /\ Journey!OfThisDocument
    /\ Journey!SharedIsSafe
    /\ Journey!LineageTold
=============================================================================
