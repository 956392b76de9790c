---------------------------- MODULE OrderManager ----------------------------
(***************************************************************************)
(* OrderManager (src/oms/order_manager.cpp): the orders the system has      *)
(* created and the events applied to them.  Client order ids are handed    *)
(* out from 1 and orders are never erased, so the map orders_ is a         *)
(* sequence and next_client_order_id_ is the length plus one.  A call that *)
(* returns false changes nothing and is no step.                           *)
(*                                                                         *)
(* Here the callers are arbitrary: events come in any order, repeated,     *)
(* late or with fills larger or smaller than what remains.                 *)
(***************************************************************************)
EXTENDS OrderStateMachine, Sequences, FiniteSets

CONSTANTS Symbols,     \* instruments
          Prices,      \* limit and fill prices
          Quantities,  \* order and fill quantities
          MaxOrders,   \* bound: how many orders are created
          MaxFills     \* bound: how many fills one order takes

ASSUME OrderAssumption ==
    /\ Prices \subseteq Nat /\ Quantities \subseteq Nat
    /\ MaxOrders \in Nat \ {0} /\ MaxFills \in Nat

VARIABLES orders,   \* orders_
          paid,     \* history: exact notional of the fills applied to each order
          fills     \* history: how many fills were applied to each order

orderVars == <<orders, paid, fills>>

ClientIds == 1 .. Len(orders)

\* next_client_order_id_
next_client_order_id == Len(orders) + 1

Order(symbol, side, price, quantity) ==
    [symbol |-> symbol, side |-> side, price |-> price, quantity |-> quantity,
     filled |-> 0, remaining |-> quantity, average |-> 0, status |-> "Created",
     exchange_id |-> 0]

OrdersInit == orders = <<>> /\ paid = <<>> /\ fills = <<>>

create_order(symbol, side, price, quantity) ==
    /\ Len(orders) < MaxOrders
    /\ orders' = Append(orders, Order(symbol, side, price, quantity))
    /\ paid' = Append(paid, 0) /\ fills' = Append(fills, 0)

\* apply_event finds the order and the state machine takes the event.
Takes(id, event, quantity, price) ==
    id \in ClientIds /\ Accepts(orders[id], event, quantity, price)

apply_event(id, event) ==
    /\ Takes(id, event, 0, 0)
    /\ orders' = [orders EXCEPT ![id] = apply(@, event, 0, 0)]
    /\ UNCHANGED <<paid, fills>>

submit(id) == apply_event(id, "Submit")
on_new_reject(id) == apply_event(id, "NewReject")
request_cancel(id) == apply_event(id, "CancelRequest")
on_cancel_ack(id) == apply_event(id, "CancelAck")
on_cancel_reject(id) == apply_event(id, "CancelReject")

on_new_ack(id, exchange_id) ==
    /\ Takes(id, "NewAck", 0, 0)
    /\ orders' = [orders EXCEPT
                    ![id] = [apply(@, "NewAck", 0, 0) EXCEPT !.exchange_id = exchange_id]]
    /\ UNCHANGED <<paid, fills>>

ApplyFillEvent(id, event, quantity, price) ==
    /\ Takes(id, event, quantity, price)
    /\ orders' = [orders EXCEPT ![id] = apply(@, event, quantity, price)]
    /\ paid' = [paid EXCEPT ![id] = @ + price * AppliedQuantity(orders[id], quantity)]
    /\ fills' = [fills EXCEPT ![id] = @ + 1]

on_partial_fill(id, quantity, price) == ApplyFillEvent(id, "PartialFill", quantity, price)
on_fill(id, quantity, price) == ApplyFillEvent(id, "Fill", quantity, price)

active_order_count == Cardinality({id \in ClientIds : is_active(orders[id].status)})

OrdersNext ==
    \/ \E s \in Symbols, d \in Sides, p \in Prices, q \in Quantities : create_order(s, d, p, q)
    \/ \E id \in ClientIds :
          \/ submit(id)
          \/ on_new_ack(id, id)
          \/ on_new_reject(id)
          \/ request_cancel(id)
          \/ on_cancel_ack(id)
          \/ on_cancel_reject(id)
          \/ /\ fills[id] < MaxFills
             /\ \E q \in Quantities, p \in Prices :
                   on_partial_fill(id, q, p) \/ on_fill(id, q, p)

OrdersSpec == OrdersInit /\ [][OrdersNext]_orderVars

-----------------------------------------------------------------------------
OrderType ==
    [symbol : Symbols, side : Sides, price : Prices, quantity : Quantities,
     filled : Nat, remaining : Nat, average : Nat, status : OrderStatus,
     exchange_id : Nat]

OrdersTypeOK ==
    /\ orders \in Seq(OrderType)
    /\ paid \in Seq(Nat) /\ fills \in Seq(Nat)
    /\ Len(paid) = Len(orders) /\ Len(fills) = Len(orders)

FillsAddUp(o) ==
    /\ o.filled <= o.quantity
    /\ o.status # "Filled" => o.filled + o.remaining = o.quantity
    /\ o.status = "Filled" => o.filled > 0 /\ o.remaining = 0
    /\ o.status \in {"Created", "PendingNew", "Acked", "Rejected"} => o.filled = 0
    /\ o.status = "PartiallyFilled" => o.filled > 0
    /\ o.status \in Working /\ o.filled > 0 => o.remaining > 0

(* The fill arithmetic and the lifecycle agree however fills, cancels and   *)
(* their answers race: no order is filled beyond its quantity, the status   *)
(* tells whether it has fills, and an order that is not Filled still        *)
(* accounts for its whole quantity.                                        *)
FillAccounting == \A id \in ClientIds : FillsAddUp(orders[id])

(* A finished order is final: no late, repeated or crossing event changes   *)
(* it.  An order that reached the venue is not taken back to before its     *)
(* acknowledgement, never loses fills, and never changes its venue id.     *)
LifecycleMonotone ==
    [][ \A id \in ClientIds :
          LET o == orders[id]  n == orders'[id]
          IN /\ is_terminal(o.status) => n = o
             /\ o.status \in Working =>
                   /\ n.status \in Working \cup {"Filled", "Canceled"}
                   /\ n.exchange_id = o.exchange_id
             /\ n.filled >= o.filled /\ n.remaining <= o.remaining
      ]_orderVars

AverageOf(o, notional, count) ==
    /\ o.average * o.filled <= notional
    /\ notional - o.average * o.filled <= count * (IF o.filled = 0 THEN 0 ELSE o.filled - 1)

(* The integer average of apply_fill never overstates what was paid, and    *)
(* the rounding it accumulates stays below the filled quantity per fill.   *)
AverageHonest ==
    \A id \in ClientIds : AverageOf(orders[id], paid[id], fills[id])

=============================================================================
