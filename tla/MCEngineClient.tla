---------------------------- MODULE MCEngineClient ----------------------------
(* Instances of EngineClient for TLC: price 1 is the limit of a market    *)
(* sell and MAX_PRICE = 4 that of a market buy, so both also occur as an   *)
(* ordinary price's neighbour.                                             *)
EXTENDS EngineClient

MCPrices == {2, 3}
TwoQtys == {1, 2}

Kind(type, qty, last) == [type |-> type, qty |-> qty, last |-> last]

(* Four orders and stops: the last may be a market order that rests, with *)
(* what is left of it, where a fired stop meets it.                        *)
MCOrders ==
  {Kind("LIMIT", 1, 4), Kind("LIMIT", 2, 2), Kind("MARKET", 2, 4),
   Kind("IOC", 2, 3), Kind("FOK", 2, 3)}
MCStops == {Kind("STOP", 1, 4), Kind("STOP_LIMIT", 2, 2)}

(* The least level gets to the root, and the greatest, by turns. *)
AnyRoot(clock, s, before, after) ==
  CHOOSE p \in after : \A r \in after : IF clock % 2 = 0 THEN p <= r ELSE p >= r
==============================================================================
