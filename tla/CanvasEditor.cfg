SPECIFICATION CanvasSpec
CONSTANTS
  CardIds = {"a", "b", "n"}
  IslandIds = {"p", "q"}
  OldCards = {"a", "b"}
  Outer = "p"
  Inner = "q"
  Places = {0, 1}
  HistoryLimit = 2
  MaxEdits = 2
CHECK_DEADLOCK FALSE
INVARIANTS  DragOnlyMoves
