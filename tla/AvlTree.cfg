SPECIFICATION Spec
VIEW View
CONSTANTS
  Slots <- SevenSlots
  OB_NULL_IDX = 0
  Prices <- EightPrices
  Lots <- OneLot
  MAX_QTY <- UpToTwo
INVARIANTS
  SearchTree
  MoveArrives
  QueriesAgree
PROPERTIES
  LadderSpec
