SPECIFICATION Spec
CONSTANTS
  Caller = {u1, u2}
  Slot = {t1, t2}
  Entry = {"m1", "r1", "c1"}
  KindOf <- MCKindOf
  SteeringMode = "all"
  FollowUpMode = "one-at-a-time"
  Calls = {"send", "queueIfRunning", "steer", "followUp", "queueContext", "clearQueue", "removeQueued", "reorder", "promote", "resumeQueue", "cancel", "sendQueuedNow"}
  MaxCalls = 3
  Faults = {"failure", "persistence", "policy", "orphan"}
  None = None
SYMMETRY Symmetry
INVARIANTS
  EntriesInOnePlace
  LeftoversStay
CHECK_DEADLOCK FALSE
