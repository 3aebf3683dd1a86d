\* Step into from a pause.
SPECIFICATION Spec
CONSTANTS
  Programs <- OneProgram
  MaxRecursion = 3
  Commands = {"step", "into"}
  Features = {}
  Patient = TRUE
  MaxPending = 1
INVARIANTS
  PauseMeansSuspended
