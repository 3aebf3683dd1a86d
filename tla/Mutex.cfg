SPECIFICATION Spec
CONSTANTS
  Instructions <- EveryInstruction
  MaxQuanta = 2
  MaxPending = 2
INVARIANTS
  TypeOK
  NoSelfDeadlock
  WaitsAreUnlocked
  LockIsFreed
  ResetFreesNothing
  DelayHearsStop
PROPERTIES
  StopEndsEvaluation
  GuiIsServed
CHECK_DEADLOCK FALSE
