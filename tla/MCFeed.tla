-------------------------------- MODULE MCFeed --------------------------------
(* Two orders, queues that overflow, one reconnection. *)
EXTENDS FeedProps
==============================================================================
