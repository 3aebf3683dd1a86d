\* Commands and stops at any time, with input and refused tests.
SPECIFICATION Spec
CONSTANTS
  Programs <- MainPrograms
  MaxRecursion = 3
  Commands = {"cont", "cursor", "test", "step", "into", "out", "stop"}
  Features = {"break", "pause", "fail", "input"}
  Patient = FALSE
  MaxPending = 1
INVARIANTS
  IdleIffDone EditableIffIdle IdleIsOver RunHasItsProgram RunningWillEnd
PROPERTIES
  StopEndsTheRun
