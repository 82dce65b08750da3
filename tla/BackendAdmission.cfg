SPECIFICATION FairSpec
CONSTANTS
  Agent = {a, b}
  Catalogued = {a, b}
  Caller = {c1, c2}
  MaxGenerations = 2
  MaxFaults = 2
CHECK_DEADLOCK FALSE
INVARIANTS
  TypeOK
  HeldIsThere
PROPERTIES
  RetirementEnds
