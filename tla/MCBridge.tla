------------------------------- MODULE MCBridge -------------------------------
(* Instances of Bridge for TLC.                                            *)
EXTENDS BridgeProps

MCAccounts == {1, 2}

New(type, a, s, p, q) == Message("NEW", a, 0, type, s, p, 0, q, 0)

MCNewOrders ==
  {New("LIMIT", 1, "BID", 10, 2), New("LIMIT", 2, "ASK", 10, 1), New("IOC", 1, "ASK", 10, 3),
   New("MARKET", 2, "BID", 0, 2), Message("NEW", 2, 0, "STOP", "ASK", 0, 10, 1, 0),
   New("LIMIT", 1, "BID", 0, 1),     \* refused by validation
   New("LIMIT", 1, "BID", 10, 0)}    \* refused by the gateway
MCAmendments == {<<11, 1>>}

(* A stop, and orders that trade and trigger it. *)
StopOrders ==
  {New("LIMIT", 1, "BID", 10, 2), New("LIMIT", 2, "ASK", 10, 1),
   Message("NEW", 2, 0, "STOP", "ASK", 0, 10, 1, 0), New("LIMIT", 1, "BID", 10, 0)}
NoAmendments == {}

(* The least level gets to the root, and the greatest, by turns. *)
AnyRoot(clock, s, before, after) ==
  CHOOSE p \in after : \A r \in after : IF clock % 2 = 0 THEN p <= r ELSE p >= r
==============================================================================
