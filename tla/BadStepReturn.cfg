\* Steps after a breakpoint in a continuous run.
SPECIFICATION Spec
CONSTANTS
  Programs <- OneProgram
  MaxRecursion = 3
  Commands = {"step", "cont"}
  Features = {"break"}
  Patient = TRUE
  MaxPending = 1
INVARIANTS
  StepStopsAtNextLine
