CONSTANTS
  s1 = s1
  s2 = s2
  s3 = s3
  c1 = c1
  Servers = {s1, s2, s3}
  Sessions = {c1}
  MaxSets = 4
SPECIFICATION FairSpec
CHECK_DEADLOCK FALSE
INVARIANTS
  TypeOK
  ValuesAreRight
  KeepsItsSet
PROPERTIES
  Returns
