\* Stepping over calls, with breakpoints and pauses; stepping into them.
SPECIFICATION SteppingSpec
CONSTANTS
  Programs <- AllPrograms
  MaxRecursion = 4
  Commands = {"step", "into", "cont", "stop"}
  Features = {"fail", "library", "break", "pause"}
  Patient = TRUE
  MaxPending = 2
INVARIANTS
  StepsOverCalls StepsLineByLine
