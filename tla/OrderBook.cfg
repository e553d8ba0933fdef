SPECIFICATION Spec
CONSTANTS
  Prices <- ThreePrices
  Qtys <- TwoQtys
  OB_MAX_ORDERS = 3
  OB_MAX_LEVELS = 2
  MAX_ID = 4
  MAX_TS = 4
INVARIANTS
  TypeOK
  IndexesAgree
  TimePriority
  TotalsAgree
  CrossOnlyByModify
  ScratchSuffices
  SlotsConserved
PROPERTIES
  AbstractBook
  CallReturns
