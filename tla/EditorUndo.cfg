SPECIFICATION Spec
CONSTANTS
  Chars <- Letters
  FirstText <- FirstLines
  Typed <- Keys
  Blocks <- OneBlock
  Import <- ImportLine
  MaxRow = 3
  MaxCol = 3
  Goals <- DraggedTo
  MaxEdits = 2
  Drops = FALSE
PROPERTY UndoTakesBack
CHECK_DEADLOCK FALSE
