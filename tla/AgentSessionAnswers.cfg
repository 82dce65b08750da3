SPECIFICATION FairSpec
CONSTANTS
  Caller = {u1, u2}
  Slot = {t1, t2}
  Entry = {"m1", "op1"}
  KindOf <- MCKindOf
  SteeringMode = "all"
  FollowUpMode = "one-at-a-time"
  Calls = {"sendWhenAvailable", "requestContinuation", "followUp", "queueOperation", "restoreQueue", "resumeQueue", "cancel", "close", "recordContext"}
  MaxCalls = 2
  Faults = {"failure"}
  None = None
PROPERTIES
  ContinuationsAnswered
  PromptsAnswered
  OperationsRun
CHECK_DEADLOCK FALSE
