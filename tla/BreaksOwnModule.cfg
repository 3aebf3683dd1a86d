\* A program with a module of its own.
SPECIFICATION Spec
CONSTANTS
  Lines = {1, 2, 3}
  Programs <- ModulePrograms
  Local = TRUE
INVARIANTS
  MarkedLinesStop
