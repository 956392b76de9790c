------------------------- MODULE StrategySimulator -------------------------
(***************************************************************************)
(* StrategySimulator (src/strategy/strategy_simulator.cpp): quotes on the   *)
(* best prices of the market data book when its spread is small enough.  A  *)
(* crossed book has a negative spread, which is always small enough.       *)
(***************************************************************************)
EXTENDS Integers, Sequences

CONSTANTS StrategySymbol,   \* config_.symbol
          OrderQuantity,    \* config_.order_quantity
          MaxSpread,        \* config_.max_spread
          GenerateBuy,      \* config_.generate_buy
          GenerateSell      \* config_.generate_sell

ASSUME StrategyAssumption ==
    /\ OrderQuantity \in Int /\ MaxSpread \in Int
    /\ GenerateBuy \in BOOLEAN /\ GenerateSell \in BOOLEAN

VARIABLE next_strategy_id   \* next_client_order_id_, which the OMS does not use

StrategyInit == next_strategy_id = 1

Quote(side, price) ==
    [symbol |-> StrategySymbol, side |-> side, price |-> price, quantity |-> OrderQuantity]

\* The orders on_book_update returns for a book with these quotes; GeneratedOrders
\* has room for both.
Generated(has_bid, has_ask, bid, ask) ==
    IF ~has_bid \/ ~has_ask \/ ask - bid > MaxSpread \/ OrderQuantity <= 0 THEN <<>>
    ELSE (IF GenerateBuy THEN <<Quote("Buy", bid)>> ELSE <<>>)
            \o (IF GenerateSell THEN <<Quote("Sell", ask)>> ELSE <<>>)

AllocateIds(generated) == next_strategy_id' = next_strategy_id + Len(generated)

=============================================================================
