--------------------------- MODULE MCOrderManager ---------------------------
(* Orders of quantity up to 5 and three fills of any size at two prices:    *)
(* enough for under-, over- and exact fills around a cancel, and for the    *)
(* average to round twice.  Two orders show that an event reaches only the  *)
(* order it names; price 0 and quantity 0 are refused as fills.            *)
EXTENDS OrderManager

=============================================================================
