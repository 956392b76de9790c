------------------------ MODULE MCExchangeSimulator ------------------------
(* Three clients and two prices on both sides, one client with up to two     *)
(* shares: orders that rest, trade with several others, trade in part and   *)
(* are canceled mid-level, and a client id that is used again.  The other   *)
(* requests are each refused for one reason of valid_new_order.             *)
EXTENDS ExchangeSimulator

Good == [client |-> 1, symbol |-> "AAPL", side |-> "Buy", type |-> "Limit",
         price |-> 1, quantity |-> 1]

MCRequests ==
    {[Good EXCEPT !.client = c[1], !.quantity = c[2], !.side = d, !.price = p] :
        c \in {<<1, 1>>, <<2, 1>>, <<3, 1>>, <<3, 2>>}, d \in BookSides, p \in {1, 2}}
        \cup {[Good EXCEPT !.client = 0], [Good EXCEPT !.symbol = ""],
              [Good EXCEPT !.type = "Market"], [Good EXCEPT !.price = 0],
              [Good EXCEPT !.quantity = 0]}

MCCancels == [client : 1 .. 3, exch : {0}, symbol : {"AAPL"}, side : {"Buy"}]

=============================================================================
