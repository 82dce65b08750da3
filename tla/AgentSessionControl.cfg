SPECIFICATION Spec
CONSTANTS
  Caller = {u1, u2}
  Slot = {t1, t2}
  Entry = {"m1", "r1", "op1", "op2"}
  KindOf <- MCKindOf
  SteeringMode = "all"
  FollowUpMode = "one-at-a-time"
  Calls = {"send", "sendRequest", "sendWhenAvailable", "continue", "requestContinuation", "cancel", "close", "recordContext", "queueNextTurnContext", "followUp", "queueOperation", "reorder", "resumeQueue", "restoreQueue"}
  MaxCalls = 2
  Faults = {"failure", "persistence"}
  None = None
SYMMETRY Symmetry
INVARIANTS
  TypeOK
  AtMostOneTurn
  OperationIsBarrier
  OperationRunsAlone
  NobodyIsForgotten
PROPERTIES
  RecoveryIsFinal
CHECK_DEADLOCK FALSE
