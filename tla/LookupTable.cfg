SPECIFICATION Spec
CONSTANTS
  Books <- OneBook
  LOOKUP_CAP = 6
  POOL = 3
  MAX_ID = 4
INVARIANTS
  PerBookLookup
  ProbesEnd
