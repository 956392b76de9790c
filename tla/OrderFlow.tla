----------------------------- MODULE OrderFlow -----------------------------
(***************************************************************************)
(* The order path of process_market_data_event (apps/trading_sim.cpp): an   *)
(* order is created in the OMS, submitted, sent through the gateway and     *)
(* processed by the exchange, and the handler applies the reports in the    *)
(* order of their batches.  Here reports may still be under way when the    *)
(* next order or cancel leaves, and a report that was delivered may be      *)
(* delivered again: the cases the OMS and the handler are written for.     *)
(***************************************************************************)
EXTENDS ExecutionReportHandler, ExchangeSimulator

CONSTANT MaxCancels   \* bound: how many cancel requests are sent

ASSUME FlowAssumption == PosSymbols = Symbols /\ MaxCancels \in Nat

VARIABLES next_sequence,  \* of the gateway
          wire,           \* reports returned by the exchange, not yet handled
          delivered,      \* the reports given to on_report at least once
          cancels         \* history: how many cancel requests were sent

Gateway == INSTANCE OrderGateway

\* The exchange knows every request the gateway can make of an order.
ASSUME GatewayAssumption ==
    \A id \in 1 .. MaxOrders, s \in Symbols, d \in Sides, p \in Prices, q \in Quantities :
        Gateway!new_order_request(id, Order(s, d, p, q)) \in Requests

flowVars == <<handlerVars, exchangeVars, next_sequence, wire, delivered, cancels>>

FlowInit ==
    /\ HandlerInit /\ ExchangeInit /\ Gateway!GatewayInit
    /\ wire = <<>> /\ delivered = {} /\ cancels = 0

\* create_order and submit.
CreateAndSubmit(order) ==
    /\ Len(orders) < MaxOrders
    /\ orders' = Append(orders, apply(order, "Submit", 0, 0))
    /\ paid' = Append(paid, 0) /\ fills' = Append(fills, 0)
    /\ UNCHANGED <<positionVars, seen_reports, delivered, cancels>>

\* The gateway takes the order and the exchange starts on it.
SendNew(order) ==
    LET id == next_client_order_id
        request == Gateway!new_order_request(id, order)
    IN /\ CreateAndSubmit(order)
       /\ Gateway!valid_new_order(id, order) /\ Gateway!allocate_sequence
       /\ process_new_order(request)
       /\ wire' = IF work' = Idle THEN wire \o batch' ELSE wire

\* The gateway refuses the order, and nobody tells the OMS.
RefuseNew(order) ==
    /\ work = Idle
    /\ CreateAndSubmit(order)
    /\ ~Gateway!valid_new_order(next_client_order_id, order)
    /\ UNCHANGED <<exchangeVars, next_sequence, wire>>

ExchangeMatches ==
    /\ Match
    /\ UNCHANGED <<handlerVars, next_sequence, wire, delivered, cancels>>

ExchangeReturns ==
    /\ Finish
    /\ wire' = wire \o batch
    /\ UNCHANGED <<handlerVars, next_sequence, delivered, cancels>>

\* gateway.send_cancel_order(id, orders) and what the exchange answers.
SendCancel(id, order) ==
    /\ cancels < MaxCancels
    /\ Gateway!valid_cancel_order(id, order) /\ Gateway!allocate_sequence
    /\ process_cancel_order(Gateway!cancel_request(id, order))
    /\ wire' = wire \o batch'
    /\ cancels' = cancels + 1
    /\ UNCHANGED <<positionVars, seen_reports, delivered>>

CancelOrder(id) == request_cancel(id) /\ SendCancel(id, orders'[id])

\* A cancel that is still unanswered is sent again.
ResendCancel(id) ==
    /\ orders[id].status = "PendingCancel"
    /\ SendCancel(id, orders[id])
    /\ UNCHANGED orderVars

Deliver ==
    /\ work = Idle /\ wire # <<>>
    /\ on_report(Head(wire))
    /\ wire' = Tail(wire)
    /\ delivered' = delivered \cup {Head(wire)}
    /\ UNCHANGED <<exchangeVars, next_sequence, cancels>>

Redeliver(report) ==
    /\ work = Idle
    /\ on_report(report)
    /\ UNCHANGED <<exchangeVars, next_sequence, wire, delivered, cancels>>

FlowNext ==
    \/ \E s \in Symbols, d \in Sides, p \in Prices, q \in Quantities :
          SendNew(Order(s, d, p, q)) \/ RefuseNew(Order(s, d, p, q))
    \/ ExchangeMatches
    \/ ExchangeReturns
    \/ \E id \in ClientIds : CancelOrder(id) \/ ResendCancel(id)
    \/ Deliver
    \/ \E report \in delivered : Redeliver(report)

\* Calls return and every report of a batch is handled.
FlowSpec ==
    FlowInit /\ [][FlowNext]_flowVars
        /\ WF_flowVars(ExchangeMatches \/ ExchangeReturns) /\ WF_flowVars(Deliver)

-----------------------------------------------------------------------------
FlowTypeOK ==
    /\ OrdersTypeOK /\ PositionsTypeOK
    /\ next_sequence \in Nat /\ Gateway!last_sequence = Len(ledger) + cancels
    /\ seen_reports \subseteq {report_key(r) : r \in delivered}

IsFill(report) == report.type \in {"PartialFill", "Fill"}

\* Reports of the exchange the handler has not seen, in their order.
InTransit == IF work = Idle THEN wire ELSE wire \o batch

FilledInTransit(exch) ==
    SumFunctionOnSet([k \in DOMAIN InTransit |-> InTransit[k].last],
        {k \in DOMAIN InTransit : IsFill(InTransit[k]) /\ InTransit[k].exch = exch})

(* Every fill of the exchange reaches its order exactly once: what the OMS   *)
(* has booked and what is still under way add up to what was reported,       *)
(* however cancels cross fills and whatever is delivered twice.             *)
EveryFillOnce ==
    \A x \in DOMAIN ledger :
        ledger[x].reported = orders[ledger[x].client].filled + FilledInTransit(x)

\* Orders the gateway refused stay PendingNew, and count as active.
Refused(id) == ~Gateway!valid_new_order(id, orders[id])

(* When no report is under way, OMS and exchange agree: an order is working  *)
(* in the OMS exactly when it rests at the exchange, and with the same       *)
(* quantities and exchange order id (otherwise it is "believed canceled      *)
(* while still live at the venue").  Only orders that the gateway refused    *)
(* are active without resting.                                             *)
QuiescentAgreement ==
    InTransit = <<>> =>
        /\ {id \in ClientIds : orders[id].status \in Working}
               = {r.order.client : r \in Resting}
        /\ active_order_count =
              Cardinality(Resting) + Cardinality({id \in ClientIds : Refused(id)})
        /\ \A r \in Resting :
              LET o == orders[r.order.client]
              IN /\ o.exchange_id = r.order.exch /\ o.filled = r.order.filled
                 /\ o.remaining = resting_quantity(r.order.client)
                 /\ o.side = r.side /\ o.price = r.price /\ o.symbol = r.order.symbol

SignedFilled(symbol) ==
    SumFunctionOnSet([id \in ClientIds |-> SignedFill(orders[id].side, orders[id].filled)],
                     {id \in ClientIds : orders[id].symbol = symbol})

(* The position of a symbol is the sum of what its orders have filled, at    *)
(* every moment: a report the OMS refuses never moves a position.           *)
PositionIsFills ==
    \A s \in Symbols : positions[s].quantity = SignedFilled(s)

(* The exchange has not accepted two orders whose ids the report key mixes    *)
(* into the same byte.                                                      *)
KeysDistinct ==
    \A x, y \in DOMAIN ledger :
        MixedIds(ledger[x].client, x) = MixedIds(ledger[y].client, y) => x = y

\* The gateway took the order's last request and its answer is not in.
Waits(id) ==
    /\ id \in ClientIds /\ orders[id].status \in {"PendingNew", "PendingCancel"}
    /\ ~Refused(id)

(* An order that waits for the exchange gets its answer: once the gateway    *)
(* took it, it stays neither PendingNew nor PendingCancel for ever.         *)
AnswersArrive == \A id \in 1 .. MaxOrders : Waits(id) ~> ~Waits(id)

=============================================================================
