SPECIFICATION Spec
CONSTANTS
  Session = {s1, s2, s3}
  Scope = {p, q}
  Key = {key}
  key = key
  KeyOf <- MCKeyOf
  MaxCompositions = 4
  MaxSources = 2
  MaxFaults = 2
SYMMETRY Symmetry
CHECK_DEADLOCK FALSE
INVARIANTS
  TypeOK
  InUseIsOpen
  OpenIsCounted
  EverythingGoes
