SPECIFICATION Spec
CONSTANTS
  Orders = {o1, o2}
  EVENT_CAP = 3
  OUT_CAP = 2
  MAX_CHANGES = 2
  MAX_CONNECTS = 3
INVARIANT
  LastWordArrives
CHECK_DEADLOCK FALSE
