SPECIFICATION Spec
CONSTANTS
  Codes = {c1}
  Instruments = {btc, eth}
  btc = btc
  eth = eth
  Choices <- BothOrOne
  NoInstrument = none
  MAX_ENGINE_ACCOUNTS = 8
  BRIDGE_MAX_SYMBOLS = 2
  DURATION = 1
  MAX_TIME = 1
  MAX_STARTS = 2
  Traders = {1}
  MAX_FILLS = 1
INVARIANTS
  TypeOK
  OneBotPerBook
  FinalStands
PROPERTIES
  FullTimeLocks
  BotsLeave
CHECK_DEADLOCK FALSE
