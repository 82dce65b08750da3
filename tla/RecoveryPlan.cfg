SPECIFICATION Spec
CONSTANTS
  Turn = {t1, t2}
  None = None
  MaxEvents = 4
INVARIANTS
  PlanIsTheHistory
CHECK_DEADLOCK FALSE
