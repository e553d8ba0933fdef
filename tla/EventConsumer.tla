---------------------------- MODULE EventConsumer ----------------------------
(***************************************************************************)
(* A consumer of the engine's events: what a subscriber of the stream can  *)
(* keep up to date of the book with nothing but the events.                *)
(***************************************************************************)
EXTENDS MatchingEngine

Without(f, id) == [j \in DOMAIN f \ {id} |-> f[j]]
With(f, id, n) == [j \in DOMAIN f \cup {id} |-> IF j = id THEN n ELSE f[j]]

Learn(v, ev) ==
  CASE ev.type = "ACCEPTED" /\ ev.order_type \in {"STOP", "STOP_LIMIT"} ->
         [v EXCEPT !.stops = @ \cup {ev.id}]
    [] ev.type \in {"ACCEPTED", "PARTIAL", "MODIFIED"}
         /\ ev.order_type \notin {"STOP", "STOP_LIMIT"} ->
         [v EXCEPT !.orders = With(@, ev.id, ev.qty_remain)]
    [] ev.type = "CANCELLED" ->
         [v EXCEPT !.orders = Without(@, ev.id), !.stops = @ \ {ev.id}]
    [] ev.type = "STOP_TRIGGERED" -> [v EXCEPT !.stops = @ \ {ev.id}]
    [] ev.type = "TRADE" /\ ev.resting_id \in DOMAIN v.orders ->
         LET left == v.orders[ev.resting_id] - ev.qty
         IN  [v EXCEPT !.orders = IF left > 0 THEN With(@, ev.resting_id, left)
                                  ELSE Without(@, ev.resting_id)]
    [] ev.type = "BOOK_UPDATED" -> [v EXCEPT !.tob = ev.tob]
    [] OTHER -> v

(* What the consumer knows once it has been handed the events evs. *)
Learnt(v, evs) ==
  LET after[n \in 0..Len(evs)] == IF n = 0 THEN v ELSE Learn(after[n - 1], evs[n])
  IN  after[Len(evs)]
==============================================================================
