-------------------------- MODULE TradingPipeline --------------------------
(***************************************************************************)
(* trading_sim in its single-threaded mode (apps/trading_sim.cpp): the      *)
(* replay is loaded or made up, and process_market_data_event takes each    *)
(* event through book, strategy, risk, OMS, gateway, exchange and report    *)
(* handler before it takes the next.  Threaded mode hands the same events   *)
(* to the same function.                                                   *)
(***************************************************************************)
EXTENDS OrderFlow, OrderBook, PreTradeRiskEngine, StrategySimulator, MarketDataReplay

CONSTANTS Lines,            \* lines a replay file may hold
          SyntheticEvents,  \* the 20 of load_replay
          MaxEvents,        \* bound: how many events a file holds
          MaxInvalid        \* bound: how many invalid lines a file holds

ASSUME PipelineAssumption ==
    /\ U64Modulus = TimestampModulus
    /\ SyntheticEvents \in Nat /\ MaxEvents \in Nat /\ MaxInvalid \in Nat

\* The sets of the book hold what an event of the replay can put into it.
Known(event) ==
    /\ event.sequence \in Nat /\ event.time \in Timestamps
    /\ event.id \in MdIds /\ event.quantity \in MdQuantities
    /\ event.price > 0 => event.price \in MdPrices

ASSUME EventAssumption ==
    /\ \A line \in Lines : parses(line) => Known(Parsed(line))
    /\ \A k \in 1 .. SyntheticEvents : Known(Synthetic(k - 1))

\* The OMS takes the orders that the strategy makes of the book.
ASSUME QuoteAssumption ==
    /\ StrategySymbol \in Symbols /\ StrategySymbol # "" /\ MdPrices \subseteq Prices
    /\ OrderQuantity > 0 => OrderQuantity \in Quantities

VARIABLES at,         \* where the program is
          cursor,     \* how many events process_market_data_event has been given
          generated,  \* generated_orders not yet done with
          stats,      \* SimStats
          latency     \* sample count per stage of the LatencyRecorder

simVars == <<flowVars, bookVars, riskVars, next_strategy_id, replayVars,
             at, cursor, generated, stats, latency>>

Counters == {"market_data_events", "strategy_orders_generated", "risk_accepted_orders",
             "risk_rejected_orders", "gateway_sent_orders", "exchange_execution_reports",
             "fills"}

LatencyStages == {"MarketDataToStrategy", "StrategyToRisk", "RiskToGateway",
                  "GatewayToExecutionReport", "EndToEnd"}

Plus(counts, names) == [n \in DOMAIN counts |-> IF n \in names THEN counts[n] + 1 ELSE counts[n]]

\* LatencyRecorder::record; the steady clock never gives a negative sample.
record(stages) == latency' = Plus(latency, stages)

Count(names) == stats' = Plus(stats, names)

SimInit ==
    /\ FlowInit /\ BookInit /\ RiskInit /\ StrategyInit /\ ReplayInit
    /\ at = "loading" /\ cursor = 0 /\ generated = <<>>
    /\ stats = [c \in Counters |-> 0] /\ latency = [s \in LatencyStages |-> 0]

-----------------------------------------------------------------------------
(* load_replay. *)

LoadLine(line) ==
    /\ at = "loading" /\ Len(events) < MaxEvents
    /\ ~line.blank /\ ~parses(line) => invalid_line_count < MaxInvalid
    /\ ReadLine(line)
    /\ UNCHANGED <<flowVars, bookVars, riskVars, next_strategy_id,
                   at, cursor, generated, stats, latency>>

\* The file ends, or could not be opened.
FileEnds ==
    /\ at = "loading"
    /\ at' = "orders"
    /\ IF events = <<>> THEN generate_synthetic(SyntheticEvents) ELSE UNCHANGED replayVars
    /\ UNCHANGED <<flowVars, bookVars, riskVars, next_strategy_id,
                   cursor, generated, stats, latency>>

-----------------------------------------------------------------------------
(* process_market_data_event. *)

\* on_book_update(context.book, ...), once the book has taken the event.
Strategy == Generated(has_level("Buy"), has_level("Sell"), best("Buy"), best("Sell"))

\* The book takes the event and the strategy looks at it, or nothing more happens.
NextEvent ==
    LET event == events[cursor + 1]
    IN /\ at = "orders" /\ generated = <<>> /\ cursor < Len(events)
       /\ cursor' = cursor + 1
       /\ IF Applies(event)
          THEN /\ apply_event_to_book(event)
               /\ generated' = Strategy'
               /\ AllocateIds(generated')
               /\ stats' = [Plus(stats, {"market_data_events"}) EXCEPT
                              !["strategy_orders_generated"] = @ + Len(generated')]
               /\ record({"MarketDataToStrategy"})
          ELSE /\ Count({"market_data_events"})
               /\ UNCHANGED <<bookVars, next_strategy_id, generated, latency>>
       /\ UNCHANGED <<flowVars, riskVars, replayVars, at>>

\* RiskMarketState
Market(order) ==
    [best_bid |-> best("Buy"), best_ask |-> best("Sell"),
     reference_price |-> IF has_level("Buy") THEN best("Buy") ELSE order.price]

\* md_event.receive_timestamp
now == events[cursor].time

\* Mutant: the answer of the order rate check is ignored.
RiskAcceptsAnyRate(order) ==
    InsideLimits(order, positions[order.symbol].quantity, Market(order))

RiskAccepts(order) ==
    /\ InsideLimits(order, positions[order.symbol].quantity, Market(order))
    /\ order_rate_available(now)

\* Rejected by risk or refused by the gateway, the loop goes on with the next order.
Continue == generated' = Tail(generated) /\ UNCHANGED at

CreateAndSend(order) ==
    IF Gateway!valid_new_order(next_client_order_id, order)
    THEN /\ SendNew(order)
         /\ Count({"risk_accepted_orders", "gateway_sent_orders"})
         /\ at' = "sent" /\ UNCHANGED generated
    ELSE RefuseNew(order) /\ Count({"risk_accepted_orders"}) /\ Continue

\* One turn of the loop over generated_orders, up to gateway_result.
ConsiderOrder ==
    LET quote == Head(generated)
    IN /\ at = "orders" /\ generated # <<>>
       /\ validate(quote, positions[quote.symbol].quantity, Market(quote), now)
       /\ IF RiskAccepts(quote)
          THEN /\ CreateAndSend(Order(quote.symbol, quote.side, quote.price, quote.quantity))
               /\ record({"StrategyToRisk", "RiskToGateway"})
          ELSE /\ Count({"risk_rejected_orders"}) /\ Continue
               /\ record({"StrategyToRisk"})
               /\ UNCHANGED flowVars
       /\ UNCHANGED <<bookVars, next_strategy_id, replayVars, cursor>>

ExchangeMatchesOrder ==
    /\ at = "sent" /\ ExchangeMatches
    /\ UNCHANGED <<bookVars, riskVars, next_strategy_id, replayVars,
                   at, cursor, generated, stats, latency>>

\* exchange.process returns.
ExchangeAnswers ==
    /\ at = "sent" /\ at' = "reports"
    /\ IF work = Idle THEN UNCHANGED flowVars ELSE ExchangeReturns
    /\ record({"GatewayToExecutionReport"})
    /\ UNCHANGED <<bookVars, riskVars, next_strategy_id, replayVars, cursor, generated, stats>>

\* Mutant: the newest report of the batch is handled first.
TakesReportBackwards ==
    /\ work = Idle /\ wire # <<>>
    /\ on_report(wire[Len(wire)])
    /\ wire' = SubSeq(wire, 1, Len(wire) - 1)
    /\ delivered' = delivered \cup {wire[Len(wire)]}
    /\ UNCHANGED <<exchangeVars, next_sequence, cancels>>

TakesReport == Deliver

\* One turn of the loop of process_execution_reports.
HandleReport ==
    /\ at = "reports" /\ TakesReport
    /\ Count({"exchange_execution_reports"} \cup IF IsFill(Head(wire)) THEN {"fills"} ELSE {})
    /\ UNCHANGED <<bookVars, riskVars, next_strategy_id, replayVars,
                   at, cursor, generated, latency>>

\* Mutant: the loop does not move on.
NextOrderSame == UNCHANGED generated

NextOrder == generated' = Tail(generated)

OrderDone ==
    /\ at = "reports" /\ wire = <<>>
    /\ at' = "orders" /\ NextOrder
    /\ record({"EndToEnd"})
    /\ UNCHANGED <<flowVars, bookVars, riskVars, next_strategy_id, replayVars, cursor, stats>>

SimNext ==
    \/ \E line \in Lines : LoadLine(line)
    \/ FileEnds
    \/ NextEvent
    \/ ConsiderOrder
    \/ ExchangeMatchesOrder
    \/ ExchangeAnswers
    \/ HandleReport
    \/ OrderDone

\* One thread, and every file ends.
SimSpec == SimInit /\ [][SimNext]_simVars /\ WF_simVars(SimNext)

-----------------------------------------------------------------------------
SimTypeOK ==
    /\ FlowTypeOK /\ BookTypeOK /\ RiskTypeOK
    /\ at \in {"loading", "orders", "sent", "reports"}
    /\ cursor \in 0 .. Len(events)
    /\ next_strategy_id \in Nat /\ invalid_line_count \in Nat
    /\ stats \in [Counters -> Nat] /\ latency \in [LatencyStages -> Nat]
    /\ Len(generated) <= 2
    /\ at \in {"loading", "orders"} => work = Idle /\ wire = <<>>

Ascending == \A i \in 2 .. Len(events) : events[i - 1].sequence < events[i].sequence

InLoop == IF at \in {"sent", "reports"} THEN 1 ELSE 0

\* Each counter against the state of the component it speaks of.
CountsMatch ==
    /\ stats["market_data_events"] = cursor
    /\ stats["strategy_orders_generated"] = next_strategy_id - 1
    /\ stats["strategy_orders_generated"] + InLoop =
          stats["risk_accepted_orders"] + stats["risk_rejected_orders"] + Len(generated)
    /\ stats["risk_accepted_orders"] = Len(orders)
    /\ stats["risk_accepted_orders"] = Len(passed)
    /\ stats["gateway_sent_orders"] = Len(ledger)
    /\ stats["exchange_execution_reports"] = Cardinality(delivered)
    /\ stats["fills"] = SumFunction(fills)
    /\ latency["StrategyToRisk"] =
          stats["risk_accepted_orders"] + stats["risk_rejected_orders"]
    /\ latency["RiskToGateway"] = stats["risk_accepted_orders"]
    /\ latency["EndToEnd"] = stats["gateway_sent_orders"] - InLoop
    /\ sequence_order_valid <=> Ascending

(* The summary tells the truth about the components it does not ask: events, *)
(* generated, accepted, rejected and sent orders, reports and fills are what *)
(* the strategy, the OMS, the gateway, the exchange and the handler hold at  *)
(* that moment, no reported fill was lost on the way to an order, every      *)
(* order has its latency samples, and the order flag of the replay means     *)
(* what it says (print_summary, sequence_order_valid).  No order is lost     *)
(* between the counters either: the gateway never refuses what risk let      *)
(* through, so no order is left PendingNew in the OMS without a request.     *)
SummaryHonest ==
    /\ CountsMatch
    /\ stats["gateway_sent_orders"] = stats["risk_accepted_orders"]

(* The risk limit on the position holds although risk looks at filled        *)
(* quantity alone and orders rest: the program only trades with itself, so   *)
(* each trade moves the position and moves it back, without profit, before   *)
(* the next order is considered.                                           *)
PositionsBounded ==
    \A s \in Symbols :
        /\ Within(Abs(positions[s].quantity), MaxAbsPosition)
        /\ at = "orders" => positions[s].quantity = 0 /\ positions[s].realized = 0

(* What the program does is a behaviour of the order flow in which reports    *)
(* are late and cancels race, so what holds there holds here.               *)
ImplementsFlow == FlowSpec

(* The replay comes to its end: every event is taken, every order it leads    *)
(* to is sent or rejected, and every report is handled.                     *)
ReplayProcessed == <>(at = "orders" /\ cursor = Len(events) /\ generated = <<>>)

=============================================================================
