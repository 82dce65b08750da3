SPECIFICATION FairSpec
CONSTANTS
  Path = {a, b}
  Call = {c1, c2}
  Session = {s1, s2}
  None = None
  Stored = {a}
  MaxChanges = 1
  MaxFaults = 1
CHECK_DEADLOCK FALSE
INVARIANTS
  TypeOK
  AcquiredOnce
  ClosedIsEmpty
  SidecarIsCurrent
PROPERTIES
  EverybodyIsAnswered
