SPECIFICATION Spec
CONSTANTS
  Books <- TwoBooks
  LOOKUP_CAP = 4
  POOL = 2
  MAX_ID = 2
INVARIANTS
  PerBookLookup
