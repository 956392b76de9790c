---------------------------- MODULE MCOrderBook ----------------------------
(* Three orders at three prices in two sizes: orders share levels, change    *)
(* side and price, trade in part and beyond what is left, and ids come back. *)
(* The events around them are refused for an id, price or quantity of zero. *)
EXTENDS OrderBook

=============================================================================
