--------------------------- MODULE MCCanvasEditor ---------------------------
EXTENDS CanvasEditor

(* What holds between the handlers of the canvas: every reference of every *)
(* document in the history names something that is there, and the shelf    *)
(* holds the cards whose mark says so.                                     *)
CanvasInvariant == CanvasTypeOK /\ ReferencesSound /\ ShelfMatchesMark
=============================================================================
