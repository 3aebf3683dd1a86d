\* Step into, then step, with no call in between.
SPECIFICATION Spec
CONSTANTS
  Programs <- OneProgram
  MaxRecursion = 3
  Commands = {"step", "into"}
  Features = {}
  Patient = TRUE
  MaxPending = 1
INVARIANTS
  StepTreatsCallAsOneStep
