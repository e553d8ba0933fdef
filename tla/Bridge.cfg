SPECIFICATION BridgeSpec
CONSTANTS
  Accounts <- MCAccounts
  NewOrders <- MCNewOrders
  Amendments <- MCAmendments
  max_position = 0
  max_order_notional = 0
  fat_finger_bps = 0
  PIPELINE_MAX_ID_MAP = 4
  MAX_SUBMIT = 15
  GW_RING_CAP = 2
  GW_IDEM_CAP = 1
  max_tokens = 1
  MAX_PRICE = 20
  OB_MAX_ORDERS = 4
  OB_MAX_LEVELS = 2
  RootOf <- AnyRoot
  ME_MAX_STOPS = 1
  ME_EVENT_QUEUE_CAP = 16
  id_base = 10
  BRIDGE_EVENT_QUEUE_CAP = 6
INVARIANTS
  TypeOK
  ViewsMatchEngine
  StreamTellsViews
  PortfoliosAgree
  LadderTold
PROPERTIES
  TerminalIsFinal
