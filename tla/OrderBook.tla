----------------------------- MODULE OrderBook -----------------------------
(***************************************************************************)
(* OrderBook (src/md/order_book.cpp): the market data book, kept twice: the *)
(* orders by id, and the summed quantity per price level on each side.     *)
(* Nothing compares the two and the symbol of an event is not looked at.   *)
(* Events come from a replay file, so they come in any order.  A refused    *)
(* event changes nothing and is no step.                                   *)
(***************************************************************************)
EXTENDS Integers, Sequences, FiniteSets, Functions

CONSTANTS MdIds,         \* market data order ids, 0 included to meet the guard
          MdPrices,      \* prices of events, 0 included to meet the guard
          MdQuantities   \* quantities of events, 0 included to meet the guard

ASSUME BookAssumption ==
    MdIds \subseteq Nat /\ MdPrices \subseteq Nat /\ MdQuantities \subseteq Nat

VARIABLES md_orders,  \* orders_: BookOrder by id
          levels      \* bids_ ("Buy") and asks_ ("Sell"): quantity by price

bookVars == <<md_orders, levels>>

MdSides == {"Buy", "Sell"}

NoEntries == [x \in {} |-> 0]
WithEntry(map, key, value) ==
    [x \in DOMAIN map \cup {key} |-> IF x = key THEN value ELSE map[x]]
Erased(map, key) == Restrict(map, DOMAIN map \ {key})

-----------------------------------------------------------------------------
(* What the strategy and the risk check read. *)

has_level(side) == DOMAIN levels[side] # {}

\* Mutant: both maps are in ascending order.
RanksAscending(side, p, q) == p < q

\* The order of the two maps: bids_ from the highest price, asks_ from the lowest.
Ranks(side, p, q) == IF side = "Buy" THEN p > q ELSE p < q

\* The prices of a side in the order of its map.
Ranked(side) ==
    LET prices == DOMAIN levels[side]
    IN CHOOSE s \in [1 .. Cardinality(prices) -> prices] :
          \A k, l \in DOMAIN s : k < l => Ranks(side, s[k], s[l])

best(side) == IF has_level(side) THEN Head(Ranked(side)) ELSE 0

spread == IF has_level("Buy") /\ has_level("Sell") THEN best("Sell") - best("Buy") ELSE 0

quantity_at(side, price) ==
    IF price \in DOMAIN levels[side] THEN levels[side][price] ELSE 0

has_order(id) == id \in DOMAIN md_orders

top_levels(side, depth) ==
    [k \in 1 .. (IF depth < Len(Ranked(side)) THEN depth ELSE Len(Ranked(side))) |->
        [price |-> Ranked(side)[k], quantity |-> levels[side][Ranked(side)[k]]]]

-----------------------------------------------------------------------------
\* The levels ls of both sides with quantity more at one price.
add_quantity(ls, side, price, quantity) ==
    [ls EXCEPT ![side] =
        WithEntry(@, price, quantity + IF price \in DOMAIN @ THEN @[price] ELSE 0)]

\* Mutant: an emptied level is kept with quantity zero.
remove_quantity_kept(ls, side, price, quantity) ==
    IF price \notin DOMAIN ls[side] THEN ls
    ELSE [ls EXCEPT ![side][price] = @ - quantity]

\* A level that is not there is not missed, and an emptied one goes.
remove_quantity(ls, side, price, quantity) ==
    IF price \notin DOMAIN ls[side] THEN ls
    ELSE IF ls[side][price] - quantity <= 0
    THEN [ls EXCEPT ![side] = Erased(@, price)]
    ELSE [ls EXCEPT ![side][price] = @ - quantity]

BookInit ==
    /\ md_orders = NoEntries
    /\ levels = [d \in MdSides |-> NoEntries]

add_order(id, side, price, quantity) ==
    /\ id # 0 /\ price > 0 /\ quantity > 0
    /\ ~has_order(id)
    /\ md_orders' = WithEntry(md_orders, id,
                              [side |-> side, price |-> price, quantity |-> quantity])
    /\ levels' = add_quantity(levels, side, price, quantity)

\* Side, price and quantity may all change.
modify_order(id, side, price, quantity) ==
    /\ price > 0 /\ quantity > 0
    /\ has_order(id)
    /\ LET order == md_orders[id]
           without == remove_quantity(levels, order.side, order.price, order.quantity)
       IN levels' = add_quantity(without, side, price, quantity)
    /\ md_orders' = [md_orders EXCEPT
                        ![id] = [side |-> side, price |-> price, quantity |-> quantity]]

cancel_order(id) ==
    /\ has_order(id)
    /\ LET order == md_orders[id]
       IN levels' = remove_quantity(levels, order.side, order.price, order.quantity)
    /\ md_orders' = Erased(md_orders, id)

\* Mutant: a trade takes its whole quantity, whatever the order has left.
TradedUnclamped(order, quantity) == quantity

\* std::min(order.quantity, event.quantity)
Traded(order, quantity) == IF order.quantity < quantity THEN order.quantity ELSE quantity

\* The trade counts against the order's own side and price, not the event's.
trade_order(id, quantity) ==
    /\ quantity > 0
    /\ has_order(id)
    /\ LET order == md_orders[id]
           traded == Traded(order, quantity)
       IN /\ levels' = remove_quantity(levels, order.side, order.price, traded)
          /\ md_orders' = IF order.quantity = traded
                          THEN Erased(md_orders, id)
                          ELSE [md_orders EXCEPT ![id].quantity = @ - traded]

\* OrderBook::apply returns true.
Applies(event) ==
    /\ event.type = "Add" <=> ~has_order(event.id)
    /\ event.type = "Add" => event.id # 0
    /\ event.type \in {"Add", "Modify"} => event.price > 0
    /\ event.type # "Cancel" => event.quantity > 0

\* OrderBook::apply(event), for an event that Applies.
apply_event_to_book(event) ==
    \/ /\ event.type = "Add"
       /\ add_order(event.id, event.side, event.price, event.quantity)
    \/ /\ event.type = "Modify"
       /\ modify_order(event.id, event.side, event.price, event.quantity)
    \/ event.type = "Cancel" /\ cancel_order(event.id)
    \/ event.type = "Trade" /\ trade_order(event.id, event.quantity)

clear == md_orders' = NoEntries /\ levels' = [d \in MdSides |-> NoEntries]

\* OrderBook::apply, and clear.
BookNext ==
    \/ \E id \in MdIds, d \in MdSides, p \in MdPrices, q \in MdQuantities :
          add_order(id, d, p, q) \/ modify_order(id, d, p, q)
    \/ \E id \in MdIds : cancel_order(id)
    \/ \E id \in MdIds, q \in MdQuantities : trade_order(id, q)
    \/ clear

BookSpec == BookInit /\ [][BookNext]_bookVars

-----------------------------------------------------------------------------
BookTypeOK ==
    /\ DOMAIN md_orders \subseteq MdIds \ {0}
    /\ \A id \in DOMAIN md_orders :
          md_orders[id] \in [side : MdSides, price : MdPrices \ {0}, quantity : Nat \ {0}]
    /\ \A d \in MdSides : /\ DOMAIN levels[d] \subseteq MdPrices \ {0}
                          /\ \A p \in DOMAIN levels[d] : levels[d][p] \in Nat

OrdersAt(side, price) ==
    {id \in DOMAIN md_orders : md_orders[id].side = side /\ md_orders[id].price = price}

(* The levels are the sums of the orders after any sequence of adds, changes *)
(* of side, price or size, cancels and trades of any size: a price is shown  *)
(* exactly while an order is there, with the quantity of its orders, so      *)
(* remove_quantity never meets a level that is missing or too small.        *)
LevelsExact ==
    \A d \in MdSides :
        levels[d] = [p \in {md_orders[id].price : id \in {i \in DOMAIN md_orders :
                                                            md_orders[i].side = d}} |->
            SumFunctionOnSet([id \in DOMAIN md_orders |-> md_orders[id].quantity],
                             OrdersAt(d, p))]

(* What readers are shown is the top of the book as the orders have it: no   *)
(* order of a side is better than the best price, the depth view runs away   *)
(* from it without a gap, and an empty side shows the price 0.              *)
ViewsAgree ==
    \A d \in MdSides :
        LET prices == {md_orders[id].price : id \in {i \in DOMAIN md_orders :
                                                        md_orders[i].side = d}}
        IN /\ IF prices = {} THEN best(d) = 0
              ELSE /\ best(d) \in prices
                   /\ \A p \in prices : IF d = "Buy" THEN p <= best(d) ELSE p >= best(d)
           /\ \A depth \in 0 .. 2 :
                 LET top == top_levels(d, depth)
                 IN /\ Len(top) <= depth
                    /\ \A k \in DOMAIN top :
                          /\ top[k].quantity = quantity_at(d, top[k].price)
                          /\ Cardinality({p \in prices : IF d = "Buy" THEN p > top[k].price
                                                         ELSE p < top[k].price}) = k - 1

=============================================================================
