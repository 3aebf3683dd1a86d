SPECIFICATION CarefulSpec
CONSTANTS
  Chars <- Letters
  FirstText <- FirstLines
  Typed <- Keys
  Blocks <- OneBlock
  Import <- ImportLine
  MaxRow = 3
  MaxCol = 3
  Goals <- DraggedTo
  MaxEdits = 2
  Drops = TRUE
INVARIANTS TypeOK CleanIsSaved
PROPERTY ImplementsHistory
CHECK_DEADLOCK FALSE
