SPECIFICATION Spec
CONSTANTS
  MaxFields = 2
  MaxRequests = 3
  MaxPosted = 2
INVARIANTS
  TypeOK
  AnswerIsOwn
  ClearsUndisturbed
  WaitCanBeAnswered
  AstrayOnlyAfterStop
PROPERTIES
  AnswersEndTheWait
  OutputStays
CHECK_DEADLOCK FALSE
