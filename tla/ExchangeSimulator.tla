------------------------- MODULE ExchangeSimulator -------------------------
(***************************************************************************)
(* ExchangeSimulator (src/exchange/exchange_simulator.cpp): a limit order   *)
(* book with price-time priority that answers each request with a batch of *)
(* execution reports.  process() is a call: one request is in work at a    *)
(* time, its matching loop is the step Match taken until the loop ends,    *)
(* and the next request starts when process() has returned.                *)
(*                                                                         *)
(* A level of a book is a list of resting orders.  A list iterator names   *)
(* its node by the exchange order id, which is never handed out twice.     *)
(* There is one book, whatever the symbol, as in the code.                 *)
(***************************************************************************)
EXTENDS Integers, Sequences, Functions

CONSTANTS Requests,     \* new orders: [client, symbol, side, type, price, quantity]
          Cancels,      \* cancel requests: [client, exch, symbol, side]
          MaxReports,   \* ExecutionReportBatch::MaxReports
          MaxAccepted   \* bound: how many new orders the exchange accepts

ASSUME ExchangeAssumption == MaxReports \in Nat /\ MaxAccepted \in Nat

\* Prices and quantities are signed, and a side is one of two.
ASSUME RequestAssumption ==
    \A r \in Requests : r.side \in {"Buy", "Sell"} /\ r.price \in Int /\ r.quantity \in Int

VARIABLES book,   \* bids_ ("Buy") and asks_ ("Sell"): levels by price
          resting_index,
          next_exchange_order_id,
          work,   \* the new order in process_new_order, or Idle
          batch,  \* the reports of the current, or else the latest, call
          ledger  \* history: per exchange order id, what was accepted and reported

exchangeVars == <<book, resting_index, next_exchange_order_id, work, batch, ledger>>

BookSides == {"Buy", "Sell"}
Opposite(side) == IF side = "Buy" THEN "Sell" ELSE "Buy"

Idle == [exch |-> 0]

EmptyMap == [x \in {} |-> 0]
MapErase(map, key) == [x \in DOMAIN map \ {key} |-> map[x]]
MapPut(map, key, value) ==
    [x \in DOMAIN map \cup {key} |-> IF x = key THEN value ELSE map[x]]

-----------------------------------------------------------------------------
(* Execution reports. *)

Report(client, exch, type, symbol, side, price, last, cumulative, leaves) ==
    [client |-> client, exch |-> exch, type |-> type, symbol |-> symbol, side |-> side,
     price |-> price, last |-> last, cumulative |-> cumulative, leaves |-> leaves]

add_ack(request, exch) ==
    Report(request.client, exch, "NewAck", request.symbol, request.side,
           0, 0, 0, request.quantity)

add_reject(request) ==
    Report(request.client, 0, "NewReject", request.symbol, request.side, 0, 0, 0, 0)

add_cancel_ack(order, side) ==
    Report(order.client, order.exch, "CancelAck", order.symbol, side,
           0, 0, 0, order.remaining)

add_cancel_reject(request) ==
    Report(request.client, request.exch, "CancelReject", request.symbol, request.side,
           0, 0, 0, 0)

add_fill_report(client, exch, symbol, side, price, last, cumulative, leaves) ==
    Report(client, exch, IF leaves = 0 THEN "Fill" ELSE "PartialFill",
           symbol, side, price, last, cumulative, leaves)

\* ExecutionReportBatch::push: a full batch drops the report.
push(reports, report) ==
    IF Len(reports) = MaxReports THEN reports ELSE Append(reports, report)

-----------------------------------------------------------------------------
(* The books: the best bid is the highest price, the best ask the lowest.   *)

Better(side, p, q) == IF side = "Buy" THEN p > q ELSE p < q

\* Mutant: both maps are ordered like the bids.
BestPriceHighest(side) ==
    CHOOSE p \in DOMAIN book[side] : \A q \in DOMAIN book[side] : p >= q

BestPrice(side) ==
    CHOOSE p \in DOMAIN book[side] : \A q \in DOMAIN book[side] : ~Better(side, q, p)

\* Mutant: a level whose last order left stays in the map.
WithLevelKept(levels, price, level) == MapPut(levels, price, level)

\* The map of levels once the level at price has changed; an empty level goes.
WithLevel(levels, price, level) ==
    IF level = <<>> THEN MapErase(levels, price) ELSE MapPut(levels, price, level)

\* The condition of the matching loop.
Crosses(incoming) ==
    LET side == Opposite(incoming.side)
    IN /\ incoming.remaining > 0 /\ DOMAIN book[side] # {}
       /\ ~Better(side, incoming.price, BestPrice(side))

\* Where the iterator of an entry points.
NodeAt(level, entry) == CHOOSE k \in DOMAIN level : level[k].exch = entry.node

\* *index.iterator
Deref(entry) ==
    LET level == book[entry.side][entry.price] IN level[NodeAt(level, entry)]

has_resting_order(client) == client \in DOMAIN resting_index

resting_quantity(client) ==
    IF has_resting_order(client) THEN Deref(resting_index[client]).remaining ELSE 0

valid_new_order(request) ==
    /\ request.client # 0 /\ request.symbol # "" /\ request.type = "Limit"
    /\ request.price > 0 /\ request.quantity > 0
    /\ ~has_resting_order(request.client)

-----------------------------------------------------------------------------
ExchangeInit ==
    /\ book = [d \in BookSides |-> EmptyMap]
    /\ resting_index = EmptyMap
    /\ next_exchange_order_id = 1
    /\ work = Idle /\ batch = <<>> /\ ledger = <<>>

Accept(request) ==
    /\ work = Idle /\ valid_new_order(request)
    /\ next_exchange_order_id <= MaxAccepted
    /\ next_exchange_order_id' = next_exchange_order_id + 1
    /\ batch' = push(<<>>, add_ack(request, next_exchange_order_id))
    /\ work' = [client |-> request.client, exch |-> next_exchange_order_id,
                symbol |-> request.symbol, side |-> request.side, price |-> request.price,
                cumulative |-> 0, remaining |-> request.quantity]
    /\ ledger' = Append(ledger, [client |-> request.client, side |-> request.side,
                                 quantity |-> request.quantity,
                                 reported |-> 0, canceled |-> 0])
    /\ UNCHANGED <<book, resting_index>>

Reject(request) ==
    /\ work = Idle /\ ~valid_new_order(request)
    /\ batch' = push(<<>>, add_reject(request))
    /\ UNCHANGED <<book, resting_index, next_exchange_order_id, work, ledger>>

\* Up to the matching loop; Match and Finish are the rest of the call.
process_new_order(request) == Accept(request) \/ Reject(request)

\* Mutant: the fill is what the incoming order wants.
SmallerFirst(a, b) == a

Smaller(a, b) == IF a < b THEN a ELSE b

\* Mutant: a partly filled order goes to the back of its level.
AfterTradeRequeued(level, order) ==
    IF order.remaining = 0 THEN Tail(level) ELSE Append(Tail(level), order)

\* Mutant: a filled order is left at the front of its level.
AfterTradeLeft(level, order) == <<order>> \o Tail(level)

\* The level after a trade with its first order.
AfterTrade(level, order) ==
    IF order.remaining = 0 THEN Tail(level) ELSE <<order>> \o Tail(level)

\* Mutant: the entry of a filled order stays in the index.
IndexAfterTradeKept(order) == resting_index

IndexAfterTrade(order) ==
    IF order.remaining = 0 THEN MapErase(resting_index, order.client) ELSE resting_index

\* One turn of the matching loop, against the first order of the best level.
Match ==
    LET side == Opposite(work.side)
        price == BestPrice(side)
        resting == book[side][price][1]
        quantity == Smaller(work.remaining, resting.remaining)
        order == [resting EXCEPT !.filled = @ + quantity, !.remaining = @ - quantity]
        incoming == [work EXCEPT !.cumulative = @ + quantity, !.remaining = @ - quantity]
        mine == push(batch, add_fill_report(order.client, order.exch, order.symbol, side,
                                price, quantity, order.filled, order.remaining))
        both == push(mine, add_fill_report(work.client, work.exch, work.symbol, work.side,
                               price, quantity, incoming.cumulative, incoming.remaining))
        Told(row, was, is) == IF is = was THEN row ELSE [row EXCEPT !.reported = @ + quantity]
    IN /\ work # Idle /\ Crosses(work)
       /\ work' = incoming
       /\ batch' = both
       /\ resting_index' = IndexAfterTrade(order)
       /\ book' = [book EXCEPT ![side] =
                      WithLevel(@, price, AfterTrade(book[side][price], order))]
       /\ ledger' = [ledger EXCEPT ![order.exch] = Told(@, batch, mine),
                                   ![work.exch] = Told(@, mine, both)]
       /\ UNCHANGED next_exchange_order_id

rest_order(incoming) ==
    LET levels == book[incoming.side]
        old == IF incoming.price \in DOMAIN levels THEN levels[incoming.price] ELSE <<>>
        order == [client |-> incoming.client, exch |-> incoming.exch,
                  symbol |-> incoming.symbol,
                  filled |-> incoming.cumulative, remaining |-> incoming.remaining]
    IN /\ book' = [book EXCEPT ![incoming.side] = MapPut(@, incoming.price, Append(old, order))]
       /\ resting_index' = MapPut(resting_index, incoming.client,
                               [side |-> incoming.side, price |-> incoming.price,
                                node |-> incoming.exch])

\* The loop is over: rest what remains and return.
Finish ==
    /\ work # Idle /\ ~Crosses(work)
    /\ IF work.remaining > 0 THEN rest_order(work) ELSE UNCHANGED <<book, resting_index>>
    /\ work' = Idle
    /\ UNCHANGED <<next_exchange_order_id, batch, ledger>>

\* Mutant: a cancel takes the first order of the level.
ErasedFromFront(level, entry) == Tail(level)

\* level.erase(entry.iterator)
ErasedFrom(level, entry) ==
    LET k == NodeAt(level, entry) IN SubSeq(level, 1, k - 1) \o SubSeq(level, k + 1, Len(level))

erase_resting_order(client) ==
    LET entry == resting_index[client]
        levels == book[entry.side]
    IN /\ book' = [book EXCEPT ![entry.side] =
                      WithLevel(@, entry.price, ErasedFrom(levels[entry.price], entry))]
       /\ resting_index' = MapErase(resting_index, client)

CancelResting(client) ==
    LET entry == resting_index[client]
        order == Deref(entry)
    IN /\ work = Idle /\ has_resting_order(client)
       /\ batch' = push(<<>>, add_cancel_ack(order, entry.side))
       /\ erase_resting_order(client)
       /\ ledger' = [ledger EXCEPT ![order.exch].canceled = order.remaining]
       /\ UNCHANGED <<next_exchange_order_id, work>>

CancelUnknown(request) ==
    /\ work = Idle /\ ~has_resting_order(request.client)
    /\ batch' = push(<<>>, add_cancel_reject(request))
    /\ UNCHANGED <<book, resting_index, next_exchange_order_id, work, ledger>>

process_cancel_order(request) == CancelResting(request.client) \/ CancelUnknown(request)

ExchangeNext ==
    \/ \E r \in Requests : process_new_order(r)
    \/ \E r \in Cancels : process_cancel_order(r)
    \/ Match
    \/ Finish

ExchangeSpec == ExchangeInit /\ [][ExchangeNext]_exchangeVars /\ WF_exchangeVars(Match \/ Finish)

-----------------------------------------------------------------------------
LevelsOf(side) == {book[side][p] : p \in DOMAIN book[side]}
RestingOn(side) ==
    UNION {{[side |-> side, price |-> p, order |-> book[side][p][k]] :
                k \in DOMAIN book[side][p]} : p \in DOMAIN book[side]}
Resting == RestingOn("Buy") \cup RestingOn("Sell")

Clients == {r.client : r \in Requests}
RestingOrder == [client : Clients, exch : Nat \ {0}, symbol : {r.symbol : r \in Requests},
                 filled : Nat, remaining : Nat \ {0}]

ExchangeTypeOK ==
    /\ DOMAIN book = BookSides
    /\ \A d \in BookSides : /\ DOMAIN book[d] \subseteq {r.price : r \in Requests}
                            /\ \A level \in LevelsOf(d) : level \in Seq(RestingOrder)
    /\ DOMAIN resting_index \subseteq Clients
    /\ next_exchange_order_id \in Nat
    /\ Len(batch) <= MaxReports
    /\ work # Idle => work.remaining \in Nat /\ work.cumulative \in Nat

(* resting_index_ and the two books describe the same orders: every entry    *)
(* points at a live node of that client in the level it names, every resting *)
(* order is indexed, and no level is left empty (the matching loop takes its *)
(* first order unasked).                                                   *)
IndexExact ==
    /\ \A d \in BookSides : <<>> \notin LevelsOf(d)
    /\ resting_index = [c \in {r.order.client : r \in Resting} |->
          LET r == CHOOSE x \in Resting : x.order.client = c
          IN [side |-> r.side, price |-> r.price, node |-> r.order.exch]]
    /\ \A r, t \in Resting : r.order.client = t.order.client => r = t

(* An order rests only when nothing on the other side would trade with it:   *)
(* every bid is below every ask, between any two turns of the loop too.     *)
NeverCrossed ==
    \A bid \in DOMAIN book["Buy"], ask \in DOMAIN book["Sell"] : bid < ask

(* Price-time priority: a trade is made with an order than which none on its *)
(* side had a better price, nor an earlier arrival at the same price, and    *)
(* the order traded with keeps its place.  Exchange order ids are given out  *)
(* in order of arrival.                                                    *)
PriceTimePriority ==
    [][ work # Idle =>
          \A r \in Resting : r \notin Resting' =>
              /\ \A t \in RestingOn(r.side) :
                    ~Better(r.side, t.price, r.price)
                    /\ (t.price = r.price => t.order.exch >= r.order.exch)
              /\ \A n \in Resting' : n.order.exch = r.order.exch =>
                    n.price = r.price /\ n.order.client = r.order.client
      ]_exchangeVars

TotalReported(side) ==
    SumFunctionOnSet([x \in DOMAIN ledger |-> ledger[x].reported],
                     {x \in DOMAIN ledger : ledger[x].side = side})

(* Shares are neither made nor lost, and every one is reported: an order     *)
(* that rests or is being matched has been reported exactly what it filled   *)
(* and holds the rest of its quantity, one that is gone was reported its     *)
(* whole quantity as filled or canceled, and buys and sells balance.        *)
ReportsAccount ==
    /\ \A r \in Resting :
          /\ ledger[r.order.exch].reported = r.order.filled
          /\ ledger[r.order.exch].quantity = r.order.filled + r.order.remaining
    /\ work # Idle =>
          /\ ledger[work.exch].reported = work.cumulative
          /\ ledger[work.exch].quantity = work.cumulative + work.remaining
    /\ \A x \in DOMAIN ledger :
          x \notin {r.order.exch : r \in Resting} \cup {work.exch} =>
              ledger[x].reported + ledger[x].canceled = ledger[x].quantity
    /\ TotalReported("Buy") = TotalReported("Sell")

(* The matching loop of every new order ends, and process() returns. *)
ProcessReturns == work # Idle ~> work = Idle

=============================================================================
