SPECIFICATION Spec
CONSTANTS
  Accounts <- TwoAccounts
  NewOrders <- MCNewOrders
  Amendments <- MCAmendments
  max_position = 3
  max_order_notional = 0
  fat_finger_bps = 1000
  PIPELINE_MAX_ID_MAP = 4
  MAX_SUBMIT = 4
  GW_RING_CAP = 2
  GW_IDEM_CAP = 2
  max_tokens = 1
  MAX_PRICE = 20
  OB_MAX_ORDERS = 4
  OB_MAX_LEVELS = 2
  RootOf <- AnyRoot
  ME_MAX_STOPS = 1
  ME_EVENT_QUEUE_CAP = 16
INVARIANTS
  FillsReachTheirAccount
  ProfitExplainsCash
  AdmittedOnce
