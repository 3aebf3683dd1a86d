\* A patient user, every command and every feature.
SPECIFICATION Spec
CONSTANTS
  Programs <- TwoPrograms
  MaxRecursion = 3
  Commands = {"blind", "cont", "cursor", "test", "step", "into", "out", "stop"}
  Features = {"break", "pause", "halt", "fail", "input", "library"}
  Patient = TRUE
  MaxPending = 1
INVARIANTS
  TypeOK EvaluatesLoadedProgram PauseIsResumable DepthBounded StepOutStopsAtReturn
PROPERTIES
  ImplementsSession
