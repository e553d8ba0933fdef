SPECIFICATION Spec
CONSTANTS
  Orders <- MCOrders
  Stops <- MCStops
  Ttls = {TRUE}
  Prices <- MCPrices
  Amounts <- TwoQtys
  MAX_PRICE = 4
  OB_MAX_ORDERS = 4
  OB_MAX_LEVELS = 3
  RootOf <- AnyRoot
  ME_MAX_STOPS = 2
  ME_EVENT_QUEUE_CAP = 8
  MAX_TS = 3
INVARIANTS
  EventsTellTheBook
  TopOfBookTold
  ImmediateOrdersDoNotRest
  NoStopLeftBehind
  CascadeBounded
