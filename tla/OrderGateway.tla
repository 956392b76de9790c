---------------------------- MODULE OrderGateway ----------------------------
(***************************************************************************)
(* OrderGateway (src/gateway/order_gateway.cpp): turns an order of the OMS  *)
(* into a numbered request for the exchange, or refuses it.                *)
(***************************************************************************)
EXTENDS Integers

VARIABLE next_sequence

GatewayInit == next_sequence = 1

\* Mutant: requests share a sequence number.
allocate_sequence_kept == UNCHANGED next_sequence

allocate_sequence == next_sequence' = next_sequence + 1

last_sequence == next_sequence - 1

valid_new_order(client, order) ==
    client # 0 /\ order.symbol # "" /\ order.price > 0 /\ order.quantity > 0

valid_cancel_order(client, order) ==
    /\ client # 0 /\ order.symbol # ""
    /\ order.status \in {"Acked", "PartiallyFilled", "PendingCancel"}
    /\ order.remaining > 0

\* The fields of the GatewayRequest that the exchange reads.
new_order_request(client, order) ==
    [client |-> client, symbol |-> order.symbol, side |-> order.side, type |-> "Limit",
     price |-> order.price, quantity |-> order.quantity]

cancel_request(client, order) ==
    [client |-> client, exch |-> order.exchange_id, symbol |-> order.symbol,
     side |-> order.side]

=============================================================================
