------------------------- MODULE MCTradingPipeline -------------------------
(* Files of up to four events: quotes that come, change, cross each other     *)
(* (slightly, and beyond the price band), trade and go, ids used twice,       *)
(* timestamps that go back or are zero, a header, an event line that looks    *)
(* like a header, and invalid lines.  Empty files get twenty made-up events.  *)
(* The rate limit of two orders in two ticks is reached by one event.        *)
EXTENDS TradingPipeline

Line(time, type, id, side, price, quantity) ==
    [blank |-> FALSE, header |-> FALSE, count |-> 8, sequence |-> time, timestamp |-> time,
     symbol |-> "AAPL", type |-> type, id |-> id, side |-> side, price |-> price,
     quantity |-> quantity]

FirstBid == Line(5, "add", 1, "buy", 100, 5)

MCLines ==
    {[FirstBid EXCEPT !.blank = TRUE, !.count = 1],
     [FirstBid EXCEPT !.header = TRUE, !.sequence = NotANumber],
     [FirstBid EXCEPT !.count = 7],
     [FirstBid EXCEPT !.quantity = -1],
     [FirstBid EXCEPT !.id = U64Modulus],
     [FirstBid EXCEPT !.header = TRUE, !.symbol = "SEQUENCE", !.sequence = 8, !.timestamp = 8],
     FirstBid,
     Line(6, "add", 2, "sell", 101, 5),
     Line(7, "modify", 1, "bid", 99, 3),
     Line(0, "modify", 2, "ask", 100, 5),
     Line(8, "add", 3, "sell", 98, 5),
     Line(9, "trade", 3, "sell", 98, 5),
     Line(4, "add", 4, "buy", 120, 5),
     Line(-1, "cancel", 2, "sell", 0, 0),
     Line(7, "add", 5, "sell", 115, 5)}

MCPrices == {0, 98, 99, 100, 101, 115, 120} \cup 10000 .. 10009

MCRequests ==
    {[client |-> c, symbol |-> s, side |-> d, type |-> "Limit",
      price |-> p, quantity |-> OrderQuantity] :
        c \in 1 .. MaxOrders, s \in Symbols, d \in Sides, p \in Prices}

=============================================================================
