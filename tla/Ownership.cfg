SPECIFICATION FairSpec
CONSTANTS
  p1 = p1
  p2 = p2
  p3 = p3
  here = here
  there = there
  Process = {p1, p2, p3}
  HostOf <- MCHostOf
  Path = {a, b}
  None = None
  RaceRetries = 3
  MaxCreates <- MCMaxCreates
  MaxCrashes = 1
CHECK_DEADLOCK FALSE
INVARIANTS
  TypeOK
  LeaseIsOnDisk
  ExclusiveUnlessSnatched
  TargetIsOwned
  LockIsLeased
PROPERTIES
  DeadLockIsReclaimed
