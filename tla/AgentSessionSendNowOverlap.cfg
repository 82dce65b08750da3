SPECIFICATION Spec
CONSTANTS
  Caller = {u1, u2}
  Slot = {t1, t2}
  Entry = {"m1"}
  KindOf <- MCKindOf
  SteeringMode = "all"
  FollowUpMode = "one-at-a-time"
  Calls = {"send", "followUp", "sendQueuedNow"}
  MaxCalls = 2
  Faults = {}
  None = None
SYMMETRY Symmetry
INVARIANTS
  AtMostOneTurn
CHECK_DEADLOCK FALSE
