\* Programs of one module, library files that do not share its id.
SPECIFICATION Spec
CONSTANTS
  Lines = {1, 2, 3}
  Programs <- OneModulePrograms
  Local = TRUE
INVARIANTS
  TypeOK TableHoldsMarks HitsAreKnown
  MarkedLinesStop OnlyAskedLinesStop CursorLineStops
