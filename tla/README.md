# Verification of the low-latency trading system

TLA+ models of the trading pipeline in `src/`, TLC runs over small instances and
TLAPS proofs for every instance. Paths below are relative to the repository root.

## 1. The system

`apps/trading_sim.cpp` replays market data, drives a toy strategy and executes its
orders against a simulated exchange. Single-threaded mode does everything in one
loop. Threaded mode (`run_threaded`) lets a producer thread replay the events
through a lock-free queue to an engine thread that does the rest.

| component | state | operations | what makes it correct |
|---|---|---|---|
| `SPSCQueue` | ring of `Capacity + 1` slots, atomic `head_`, `tail_` | `push`, `pop`, `full`, `empty`, `size_approx` | a bounded FIFO; no data race on a slot; refuses only when full or empty |
| threaded mode | `producer_done`, the two loops | push events, sentinel, flag; pop and handle | every event handled once and in order; both threads end |
| `OrderStateMachine` | none (an order is its argument) | `apply` per event | status and quantities agree; finished orders are final |
| `OrderManager` (OMS) | orders by client id, next id | `create_order`, `submit`, `request_cancel`, `on_*` | as above for any caller; honest average price |
| `OrderGateway` | next sequence number | `send_new_order`, `send_cancel_order` | one number per accepted request; refuses invalid ones |
| `ExchangeSimulator` | bids, asks, index of list iterators, next id | `process` (new, cancel) | book and index agree; never crossed; price-time priority; every share reported |
| `ExecutionReportHandler` | keys of the reports seen | `on_report` | a report acts once; OMS and positions move together |
| `PositionManager` | position, average, profit per symbol | `apply_fill`, `apply_trade` | position = fills; profit = cash |
| `OrderBook` | market-data orders and levels | `apply` (add, modify, cancel, trade), `clear` | levels are the sums of the orders |
| `StrategySimulator` | config, next client id | `on_book_update` | orders only when both sides quote and the spread allows |
| `PreTradeRiskEngine` | config, rate window, orders in it | `validate` | limits hold for what was let through |
| `ObjectPool` | free list, occupancy | `allocate`, `deallocate` | no slot has two owners |
| `MarketDataReplay` | events, invalid lines, order flag | `load_csv`, `generate_synthetic`, `clear` | the flag tells whether sequence numbers ascend |
| `LatencyRecorder` | samples per stage | `record`, `stats`, `summary` | order statistics |

**Interaction.** Everything but threaded mode is synchronous calls. An event updates
the book, the strategy reads the book, risk reads positions, the OMS creates the
order, the gateway numbers it, the exchange answers with a batch of reports, and the
handler applies each report to the OMS and, for fills, to the positions.

**What is hard.** (1) The queue: two threads, two atomics, stale loads and slots that
are reused. (2) Its shutdown: a sentinel and a flag. (3) Cancels that cross fills, and
reports that are late or delivered twice: the state machine and the handler have code
for these cases though the demo program never makes them. (4) The exchange's two
representations of the same orders. (5) Bounded report batches, integer averages and
mixed report keys. (6) A rate window on an unsigned clock that replayed timestamps set.
(7) A free list through the slots, with user constructors and destructors running in the
middle of `allocate` and `deallocate`. `PROJECT.json` lists each of these hazards at its line.

## 2. Modules

| module | models | extends |
|---|---|---|
| `FifoChannel` | abstract bounded FIFO channel (what the queue promises) | |
| `SPSCQueue` | `include/trading/utils/spsc_queue.hpp` | |
| `ThreadedPipeline` | `run_threaded` | `SPSCQueue` |
| `OrderStateMachine` | `src/oms/order_state_machine.cpp` | |
| `OrderManager` | `src/oms/order_manager.cpp` | `OrderStateMachine` |
| `PositionManager` | `src/position/position_manager.cpp` | |
| `ExchangeSimulator` | `src/exchange/exchange_simulator.cpp` | |
| `OrderGateway` | `src/gateway/order_gateway.cpp` | |
| `OrderBook` | `src/md/order_book.cpp` | |
| `ExecutionReportHandler` | `src/execution/execution_report_handler.cpp` | `OrderManager`, `PositionManager` |
| `OrderFlow` | the order path of `process_market_data_event` | handler, exchange; instantiates the gateway |
| `PreTradeRiskEngine` | `src/risk/pre_trade_risk_engine.cpp` | |
| `StrategySimulator` | `src/strategy/strategy_simulator.cpp` | |
| `MarketDataReplay` | `src/md/market_data_replay.cpp` | |
| `TradingPipeline` | `apps/trading_sim.cpp` in single-threaded mode | `OrderFlow`, `OrderBook` and the three above |
| `SlotAllocator` | abstract allocator (what the pool promises) | |
| `ObjectPool` | `include/trading/utils/object_pool.hpp` | |
| `MC...` | instances for TLC | the module of the same name |
| `NumberLemmas` | lemmas on remainders, least numbers and sums over finite sets | TLAPS |
| `QueueProofs` | theorems on the queue and the pipeline | `ThreadedPipeline`, `NumberLemmas` |
| `HandlerProofs` | theorems on the OMS and the positions, which the handler writes to | `ExecutionReportHandler` |
| `FlowProofs` | theorems on the order path | `OrderFlow`, `HandlerProofs`, `ExchangeProofs` |
| `MarketProofs` | theorems on the market data book and the risk engine | `OrderBook`, `PreTradeRiskEngine`, `NumberLemmas` |
| `TradingProofs` | theorems on the whole program | `TradingPipeline`, `FlowProofs`, `MarketProofs` |
| other `...Proofs` | theorems on one component | its module, `NumberLemmas` where sums matter |

Definitions whose comment starts with "Mutant:" are wrong versions of the definition
after them. They are used only to show that a property notices the mistake.

**SPSCQueue.** An action per atomic access: `PushCall` (load own tail), `PushFull` or
`PushRoom` (load head and decide), `PushWrite`, `PushPublish` (store tail), and the
same for pop. Each atomic is kept as its whole modification order. A load returns any
entry not older than the last one the thread read, which is what C++ coherence allows,
so loads may be stale. `headAcq` and `tailAcq` count what a thread has synchronised
with. A slot access they do not order is a data race, and a racing read may return
anything. `full`, `empty` and `size_approx` are asked by the two threads themselves
(`ProducerAsks`, `ConsumerAsks`); the answer is remembered until the next call.

**ThreadedPipeline.** The queue's steps plus the loops around them. The acquire load of
`producer_done` that returns true makes all the producer's stores visible
(`SyncWithProducer`); one that returns false may be late. Handling an event is
appending it to `consumed`.

**OrderManager, PositionManager.** One action per call, with arbitrary callers. A call
that returns false changes nothing and is no step. `paid`, `fills`, `cash`, `slack`
are history variables for the properties. Client ids count from 1 and orders are never
erased, so the map is a sequence.

**ExchangeSimulator.** `Accept` is the call up to the matching loop, `Match` one turn
of the loop, `Finish` the rest of the call; no other request starts in between.
A list iterator in `resting_index_` is the exchange id of its node, which is never
reused, so a dangling iterator is an entry that names no order of its level.
`ledger` is history: what was accepted, reported and canceled per order.

**OrderBook.** One action per event type, for events in any order, since a replay file may
hold any. Refused events are no step. `bids_` and `asks_` are `levels`, a map per side
from price to quantity, apart from the orders as in the code.

**OrderFlow.** The exchange's batch goes to `wire` and is delivered in order; between
deliveries new orders and cancels may leave, a pending cancel may be sent again, and a
delivered report may be delivered again. The demo program delivers each batch at once,
which is one of these behaviours. `report_key` keeps the bits in which the 64-bit mix of
ids can differ for ids below 107, so that collisions in the model are collisions in the
code.

**PreTradeRiskEngine.** `validate` is one step: the checks without state
(`InsideLimits`) and then the order rate, which opens a new window when the old one is
over, answers, and counts. The clock is unsigned and wraps at `TimestampModulus`. `passed`,
`latest` and `sane` are history. Two facts shape the property. The windows are not sliding,
so up to `2 * MaxOrdersPerWindow - 1` orders pass within one window length. And a
timestamp of zero, or one that goes back, opens a window with every call, so the limit is
only promised while `sane` holds.

**MarketDataReplay.** A line is what trimming and splitting leave of it. A number that does not
fit its type makes the line invalid; a negative one is wrapped by `std::stoull` where the field
is unsigned. Until the first event is stored, any line that contains the word
"sequence" is skipped as a header, an event line for such a symbol included; it is not
counted as invalid.

**TradingPipeline.** `at` is where the program is: `loading` (`LoadLine`, `FileEnds`),
`orders` (`NextEvent`, `ConsiderOrder`), `sent` (`ExchangeMatchesOrder`,
`ExchangeAnswers`), `reports` (`HandleReport`, `OrderDone`). The order path is made of
`OrderFlow`'s actions. `stats` and `latency` count what `SimStats` and the recorder count.
Three things the model brought out: trades of the made-up replay name orders the book does
not hold and are always refused; a crossed book has a negative spread and is quoted; and
all trades are between the program's own orders, so a position is flat again after each.
`CreateAndSend` has the branch of the order the gateway refuses, but the program never takes
it: risk has asked for a positive price and quantity before. `SummaryHonest` says so (sent =
accepted), and it matters, because such an order would stay `PendingNew` for ever; `order_flow`
takes the branch.

**ObjectPool.** The constructor and the destructor of an object are steps of their own:
`building` is the slot under construction, `dying` the stack of running destructors,
which may call the pool. `teardown` is the progress of `~ObjectPool`. `chain` is a history
variable, the free list as a sequence. `Pointers` includes the null pointer and pointers
whose slot has another owner by now.

## 3. What TLC checks

| run | instance | shows |
|---|---|---|
| `spsc_queue` | capacity 2, two values, 5 pushes | types, the inductive invariant, no race, justified refusals, refinement of `FifoChannel` |
| `threaded_pipeline` | 4 events, capacity 2 | exact hand-off, the sentinel outlives the flag, both threads end |
| `order_manager` | 2 orders of up to 5 shares, 3 fills each | quantities, averages, lifecycle under any events |
| `position_manager` | 2 symbols, 5 fills | position, average and profit through closes and flips |
| `exchange` | 3 clients, 4 accepted orders of 1 or 2 shares, 2 prices, cancels | index, no crossing, priority, accounting, `process` returns |
| `order_flow` | 3 orders of 1 or 3 shares, 2 symbols, 2 cancels | every fill once, agreement when quiet, positions = fills, answers arrive |
| `order_book` | 3 ids, 3 prices, 3 sizes | levels are the sums of the orders, quotes and depth follow the orders |
| `trading_pipeline` | files of up to 4 events out of 15 kinds of line, or 20 made-up events; 2 orders per 2 ticks | the program ends, implements the flow, keeps its limits, reports true numbers |
| `object_pool` | 4 slots | the free list is exact, refinement of `SlotAllocator` |
| `sentinel_event` | 3 events, one with the sentinel's number | finding 1 |
| `exchange_batch` | 9 orders, 16 reports per batch | finding 2 |
| `report_keys` | 3 orders, one refused by the gateway | finding 3 |

**Bounds.** Every bound is a constant: `PushLimit`, `MaxOrders`, `MaxFills`,
`MaxTrades`, `MaxAccepted`, `MaxCancels`, `MaxEvents`, `MaxInvalid`. Five pushes through three slots make both
indices wrap and every slot be reused. Three fills round an average twice
and go under, over and exactly onto what remains. Five trades open, add, reduce, close and
flip. Four accepted orders let one order trade with two others, a client come
back with a new order, and a level keep an order behind a partly filled or canceled one. Three book orders
share a level, leave it one by one and cross it. Three flow orders and two cancels let
a cancel arrive before, between and after fills. `MaxReports` is the code's 16. Prices and quantities include the 0 that
the guards refuse.

Four events of a file are enough for both quotes to come, change and cross (a little, and by
more than the price band), for the rate window to fill, run out and be reopened by a timestamp
that is zero or goes back, and for the order flag to be lost. One invalid line is enough, since
such a line changes its counter alone. The strategy quotes both sides there. The program's
own configuration quotes buys only and never trades, which is the case of fewer orders. The
bounds of the order path are so large that `trading_pipeline` never meets them. 2^30
stands for 2^64 in `TimestampModulus` and `U64Modulus`: it is above every timestamp used,
and -1 wraps to its far end. Four slots let the free list be emptied, refilled in
another order, and destructors nest three deep with objects built in between.

**Constraints.** `order_flow` is explored under `KeysDistinct`: no two accepted orders
mix into the same key byte. Without it the agreement fails, which is run `report_keys`.
`exchange_batch` is explored under `InOrder` (clients arrive in the order of their
ids), which only removes permutations of the same case.

**Deadlock** checking is off where the system may stop because a bound is used up
(`order_manager`, `position_manager`, the order flow), or because it is over: the pool is
destroyed, and the program ends (`ReplayProcessed` shows that it does not stop
earlier). It is on for the queue, the
pipeline, the exchange and the book: no state of theirs is stuck. In the pipeline the only
state without work is both threads joined.

**Fairness.** `ThreadedPipeline`: weak fairness of each thread (the operating system
schedules both; both loops yield) and strong fairness of loading the latest value of an
index: C++ says stores become visible to loads in finite time, and a spinning thread
loads again and again. `ExchangeSimulator`: weak fairness of `Match` or `Finish`, since
`process` is a call that runs on. `OrderFlow`: also of `Deliver`, since
`process_execution_reports` visits every report of the batch. Nothing is assumed of
new orders, cancels or repeated deliveries. `TradingPipeline`: weak fairness of the whole
next-state relation, since one thread runs on and a file is finite.

### Findings

1. `sentinel_event`: `is_sentinel` looks at the sequence number alone and `load_csv`
   accepts any number, so an event numbered `UINT64_MAX` ends the engine thread early.
2. `exchange_batch`: `ExecutionReportBatch::push` refuses the seventeenth report and
   the exchange ignores that. An order that trades with eight others loses the report
   of its last fill.
3. `report_keys`: the key xors the client id with the shifted exchange id, so different
   reports can share a key. After one order the gateway refused, the acknowledgement of
   client 3 (exchange id 2) has the key of client 1 (exchange id 1) and is dropped.

`PROJECT.json` quotes the line of the repository that each one contradicts.

## 4. What is proved

All theorems hold for every value of the constants; they assume only the named
`ASSUME`s of the modules (`QueueAssumption`, `PipelineAssumption`, `OrderAssumption`,
`PositionAssumption`, `RiskAssumption`, `PoolAssumption`, `ExchangeAssumption`,
`RequestAssumption`, `BookAssumption`, `FlowAssumption`, `GatewayAssumption`: capacities
positive, quantities, prices and limits natural numbers, requests of the two sides, the rate
window shorter than the clock's range, the positions kept for the symbols of the orders,
the gateway's requests among those the exchange is given).
`TradingPipeline` adds `PipelineAssumption`, `EventAssumption` and `QuoteAssumption`: the
sets of ids, prices and quantities of the book hold what the lines of the replay can say, and
those of the OMS hold what the strategy makes of them. They are about the sets an instance
chooses. The one thing they ask of the program is that the strategy's symbol is not empty, as in
`make_strategy_config`: with an empty one and no list of allowed symbols the gateway would
refuse what risk accepts.
`ExchangeReportsAccount`, `PipelineHandoff` and the theorems of `FlowProofs` and `TradingProofs`
have hypotheses of their own, given below.

The prover cannot apply an induction principle to a formula. `NumberLemmas` goes round
this: a statement about all numbers is the equation of a set with `Nat`, proved by looking
at the least number outside it (`NatSetInduction`). What a sum over a finite set
becomes when an index joins, leaves or changes its value (`SumAdd`, `SumRemove`,
`SumChange`) follows from there by induction on the size of the set.


* **Queue** (`QueueProofs`): types, `QueueInv`, race freedom, justified refusals and
  the refinement of `FifoChannel`. Wrapped indices alone are not inductive: two
  different counts leave the same index. `QueueInv` counts stores: the k-th store leaves
  an index at `k % StorageSize` (`Indices`), the four counts are
  ordered `headAcq <= popped <= tailAcq <= pushed <= headAcq + Capacity` (`Views`), and
  the slots between head and tail hold the published items (`Contents`). `NumberLemmas`
  proves that counts less than one ring apart have different slots.
* **Pipeline** (`QueueProofs`): every step of the threads is a queue step, leaves
  the queue alone or lets the consumer see more, so the queue's invariant carries over;
  `ProducerProgress` and `ConsumerProgress` tie both loops to the stream.
  `PipelineHandoff` assumes that no event is the sentinel, which finding 1 shows to be needed.
* **Orders** (`HandlerProofs`): types, `FillAccounting`, `AverageHonest` (a new
  average loses less than the filled quantity, `DriftStep`) and `LifecycleMonotone` (one lemma
  per kind of operation of what it does to an order, `Advances`, used again for the order flow).
* **Positions** (`HandlerProofs`): types, `PositionConsistent`,
  `ProfitMatchesCash` (opening fills lose a remainder, closing fills lose nothing).
* **Risk** (`MarketProofs`): types and `RateLimited`, for any sequence of calls at any times.
  The property speaks of orders far apart and is not inductive. The invariant is about
  neighbours: times ascend, the latest window is the one the engine holds, windows that
  follow each other open at least one window length apart, and every order is among the
  first `MaxOrdersPerWindow` of its window. So
  `2 * MaxOrdersPerWindow` successive orders hold two openers.
* **Exchange** (`ExchangeProofs`): types, `IndexExact`, `NeverCrossed`, `PriceTimePriority` and
  `ReportsAccount`. The five hold together or not at all: the matching loop erases from
  the queue it took the first order of, so that the index stays exact depends on
  the book's shape. `ExchangeInv` says that a level is listed exactly when its queue is not
  empty and no order is in two queues (`BookShape`), that the index has exactly the
  queued orders (`Indexed`), that a queue is in order of exchange ids (`Arrived`), that the
  order at work is the newest of the ledger (`WorkInv`) and that the resting book does not
  cross. For `ReportsAccount` the invariant also bounds the batch (`Room`): while the loop
  runs, `Len(batch) + 2 * (orders resting) <= 2 * Len(ledger) - 1`, because each turn that
  goes on reports twice and removes one order. So with `2 * MaxAccepted - 1 <= MaxReports`
  no report is dropped, and the theorem has this hypothesis. It is the best possible: with
  three orders, five reports are enough and four are not, and finding 2 is what
  happens when it fails.
* **Book** (`MarketProofs`): types, `LevelsExact` and `ViewsAgree`. `BookInv`: orders have a
  positive quantity (`OrderMap`), a level holds the sum of its orders' quantities
  (`Exact`) and exists when it has an order (`Listed`). A modification is proved as the
  cancel and the add it consists of. That the depth lists prices best first needs that a
  finite set of prices can be ranked at all, which is shown by induction on its size.
* **Pool** (`ObjectPoolProofs`): types, `FreeListExact` and the refinement of
  `SlotAllocator`. The invariant adds that a constructor runs in the slot at the head of
  the list, that the slots of running destructors are occupied and different, and that
  nothing runs while the pool is destroyed.
* **Order flow** (`FlowProofs`): `FlowTypeOK`, `EveryFillOnce`, `QuiescentAgreement` and
  `PositionIsFills`, from one invariant. `FlowInv` joins the invariants of the OMS, the
  positions and the exchange with what ties them together. Every accepted order is one of the
  OMS, with the same terms, and the OMS's other orders were refused by the gateway
  (`Named`, `Terms`). The reports under way, the unfinished batch included, `Tracks` every
  order: its acknowledgement comes first and only while the order waits for it
  (`AckFirst`); nothing but refused cancels follows a report that ends it, and it is live
  at the exchange exactly while no such report is under way or booked (`EndsOnce`); each fill
  carries the sum of the fills up to it, and all of them are what the exchange reported
  beyond what the OMS has booked (`AddsUp`). A delivered report is `Settled`: the state
  machine refuses it or its key is known, so a second delivery changes nothing
  (`FlowRedeliveryIgnored`). The proof is one lemma per action of what it appends to or takes from
  the reports under way. Two hypotheses are needed, and both are those of a
  finding: `2 * MaxAccepted - 1 <= MaxReports` (finding 2: else a report is lost), and
  `[]KeysDistinct` (finding 3: else a report passes for a duplicate). `KeysDistinct`
  is used in one place, `NotDuplicate`: no report under way has the key of one that was handled.
  The invariant also gives what the components promise on their own, here where each works on
  the other's reports and requests (`FlowComponents`), `PriceTimePriority` and `LifecycleMonotone`
  (`FlowPriority`, `FlowLifecycle`).
* **The program** (`TradingProofs`): `SimTypeOK`, `SummaryHonest`, `PositionsBounded` and
  `RateLimited`; that every step is one of the order flow or leaves it alone (`SimRefines`, the
  safety part of `ImplementsFlow`) and one of the book (`SimUsesBook`); and from these what is
  proved of the flow and the book. Both hypotheses of `FlowProofs` are gone, because they
  follow here. `SimInv` adds to `FlowInv`, `BookInv` and `RiskInv`:
  `Program`, what can be in work or under way at each place of the program; `Sent`, that
  client and exchange ids are the same number, since the gateway never refuses an order that
  risk let through; `Whole`, that all orders are of
  one size, so a trade fills both and a batch has one report or three (`TradeWhole`,
  `AnswerFits`: batches hold what is pushed to them); `Balanced`, that the fills
  under way move the positions and move them back (`FirstFill`, `SecondFill`); and
  `Tallied`, the summary. From `Sent` follows `KeysDistinct` (`KeysApart`): bit by bit, the
  lower bits of a mixed id give the next bit of the id (`NextBit`). The
  position is bounded although risk ignores orders that rest: when an order is considered every
  position is zero (`Balanced`), so an order that passes is itself within the limit, and no fill is
  larger than an order. `SummaryHonest` is `Sent` and `CountsMatch`, which is
  by cases over the loop, each with the same arithmetic (`TallyMoves`); that a handled report is a new one, which makes the count of
  reports equal to the number delivered, is again `NotDuplicate`.
  The hypotheses are `MaxReports >= 3` (the code has 16) and `MaxAccepted <= 106`, the ids for
  which the model of the report key is exact; there is no bound on events, prices or sizes.

**Only model-checked:** liveness (`Termination`, `ProcessReturns`, `AnswersArrive`,
`ReplayProcessed`, and the fairness that `ImplementsFlow` includes), which needs `ENABLED` and
is out of the prover's reach. All other properties of the passing runs are theorems.

## 5. Not modelled

* Integer widths. Quantities are 32 or 64 bit in the code and unbounded here; reaching
  an overflow needs billions of shares. The report key is exact below 65536 shares.
  Clocks and the numbers of the replay do wrap.
* Reject reasons, the timestamps of reports, the command line (`parse_mode`) and printing:
  nothing in the modelled code branches on them.
* `LatencyRecorder`: which samples are recorded is modelled, as counts. The durations are
  wall-clock time and the percentiles are floating point.
* In `ObjectPool`: a constructor that calls the pool (it is given its own slot), a
  destructor that gives back an object whose destructor is running, and destructors that
  call the pool while `~ObjectPool` runs. The code has no answer to them.
* In `OrderFlow`: an order that is sent a second time, and a cancel the OMS was not asked
  for. The components accept both, but the program does neither (of the tests, only
  `tests/test_order_gateway.cpp:64-80` sends such a cancel, with no exchange behind it).
* Reports in another order than the exchange's, which nothing here can produce.
* `OMS`, `Strategy`, `RiskEngine`: placeholders nothing calls. Benchmarks: timing loops.

## 6. Plan

Done, in this order because the concurrency and the order path carry the risk: queue,
pipeline, OMS, positions, exchange, order flow, market data book, risk, strategy, replay,
the whole program, object pool; proofs of queue, pipeline, OMS, positions, risk, pool,
exchange, market data book, order flow and the whole program.

What is left is what the code would have to settle first: integer widths (what should happen
to a quantity that overflows), report keys for ids above 106, and an exchange that is sent an
order twice.
