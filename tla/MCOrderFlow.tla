---------------------------- MODULE MCOrderFlow ----------------------------
(* Three orders of one or three shares of two symbols, and two cancel         *)
(* requests: orders rest, trade in one or more parts, are canceled before,   *)
(* between and after their fills with the reports still under way, and are   *)
(* refused by the gateway (price 0).                                       *)
EXTENDS OrderFlow

MCRequests ==
    {[client |-> c, symbol |-> s, side |-> d, type |-> "Limit", price |-> p, quantity |-> q] :
        c \in 1 .. MaxOrders, s \in Symbols, d \in Sides, p \in Prices, q \in Quantities}

=============================================================================
