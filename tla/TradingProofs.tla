--------------------------- MODULE TradingProofs ---------------------------
(***************************************************************************)
(* Proofs about trading_sim as a whole: the program keeps within the order  *)
(* flow, so what is proved there holds here, and more holds here because    *)
(* one thread takes one order at a time and all its orders are of one size: *)
(* a trade fills both orders, the position is moved and moved back before   *)
(* the next order is considered, and the summary counts what happened.     *)
(***************************************************************************)
EXTENDS TradingPipeline, FlowProofs, MarketProofs

(* The orders of the strategy. *)
Quotes == [symbol : {StrategySymbol}, side : Sides, price : Prices, quantity : {OrderQuantity}]

(* The events of the replay. *)
ReplayEvents ==
    {Parsed(line) : line \in {l \in Lines : parses(l)}}
        \cup {Synthetic(k - 1) : k \in 1 .. SyntheticEvents}

(* The control of the program: what is there to do at each place in it. *)
Program ==
    /\ at \in {"loading", "orders", "sent", "reports"}
    /\ events \in Seq(ReplayEvents) /\ cursor \in 0 .. Len(events)
    /\ next_strategy_id \in Nat /\ invalid_line_count \in Nat
    /\ generated \in Seq(Quotes) /\ Len(generated) <= 2
    /\ generated # <<>> => cursor >= 1 /\ OrderQuantity > 0
    /\ at \in {"sent", "reports"} => generated # <<>>
    /\ at # "sent" => work = Idle
    /\ at = "sent" => work # Idle
    /\ at # "reports" => wire = <<>>

(* Unless the gateway refuses every order, for an empty symbol, the exchange  *)
(* has them all, in the same order, and each is within the position limit.   *)
Sent ==
    /\ \A x \in 1 .. Len(ledger) : ledger[x].client = x
    /\ StrategySymbol # "" => Len(orders) = Len(ledger)
    /\ ledger # <<>> => Within(OrderQuantity, MaxAbsPosition)

(* A fill of a whole order. *)
FillsWhole(report) ==
    IsFill(report) /\ report.symbol = StrategySymbol /\ report.last = OrderQuantity
(* The fills of one trade, first of the order that rested. *)
Pair(a, b) ==
    /\ FillsWhole(a) /\ FillsWhole(b)
    /\ b.price = a.price /\ b.side = Opposite(a.side)

(* What the exchange answers: an acknowledgement, and at most one trade. *)
Answer(reports) ==
    /\ Len(reports) \in {1, 3} /\ reports[1].type = "NewAck"
    /\ Len(reports) = 3 => Pair(reports[2], reports[3])

(* Orders rest whole, and the one in work has traded whole or not at all. *)
Whole ==
    /\ \A r \in Resting :
          /\ r.order.filled = 0 /\ r.order.remaining = OrderQuantity
          /\ r.order.symbol = StrategySymbol
    /\ work # Idle =>
          /\ work.symbol = StrategySymbol /\ Answer(batch)
          /\ work.cumulative = IF Len(batch) = 1 THEN 0 ELSE OrderQuantity
          /\ work.remaining = IF Len(batch) = 1 THEN OrderQuantity ELSE 0

(* A position without anything in it. *)
Untouched(state) == state.quantity = 0 /\ state.average = 0 /\ state.realized = 0
(* Nothing is in any of them. *)
AllUntouched == \A s \in Symbols : Untouched(positions[s])
(* What the positions are when this report will empty them. *)
Undoes(report) ==
    \A s \in Symbols :
        IF s = StrategySymbol
        THEN /\ positions[s].quantity = -SignedFill(report.side, OrderQuantity)
             /\ positions[s].average = report.price /\ positions[s].realized = 0
        ELSE Untouched(positions[s])

(* The reports to be handled move the positions and move them back. *)
Balanced ==
    \/ wire = <<>> /\ AllUntouched
    \/ Answer(wire) /\ AllUntouched
    \/ Len(wire) = 2 /\ Pair(wire[1], wire[2]) /\ AllUntouched
    \/ Len(wire) = 1 /\ FillsWhole(wire[1]) /\ Undoes(wire[1])

(* The counters. *)
Tallied ==
    /\ stats \in [Counters -> Nat] /\ latency \in [LatencyStages -> Nat]
    /\ IsFiniteSet(delivered) /\ CountsMatch

(* The inductive invariant. *)
SimInv ==
    /\ FlowInv /\ BookInv /\ RiskInv
    /\ Program /\ Sent /\ Whole /\ Balanced /\ Tallied

-----------------------------------------------------------------------------
(* What the assumptions on the data say of an event. *)
LEMMA EventFacts ==
    ASSUME NEW event \in ReplayEvents
    PROVE  /\ event.type \in {"Add", "Modify", "Cancel", "Trade"} /\ event.side \in MdSides
           /\ Known(event)
<1>1. ASSUME NEW line \in Lines, parses(line), event = Parsed(line)
      PROVE  /\ event.type \in {"Add", "Modify", "Cancel", "Trade"} /\ event.side \in MdSides
             /\ Known(event)
  <2>1. Known(event)
    BY <1>1, EventAssumption
  <2>2. event.type = EventTypes[line.type] /\ event.side = SideNames[line.side]
    BY <1>1 DEF Parsed
  <2>3. line.type \in {"add", "modify", "cancel", "trade"}
    BY <1>1 DEF parses, EventTypes
  <2>4. line.side \in {"buy", "bid", "sell", "ask"}
    BY <1>1 DEF parses, SideNames
  <2>5. event.type \in {"Add", "Modify", "Cancel", "Trade"}
    BY <2>2, <2>3 DEF EventTypes
  <2>6. event.side \in MdSides
    BY <2>2, <2>4 DEF SideNames, MdSides
  <2> QED
    BY <2>1, <2>5, <2>6
<1>2. ASSUME NEW k \in 1 .. SyntheticEvents, event = Synthetic(k - 1)
      PROVE  /\ event.type \in {"Add", "Modify", "Cancel", "Trade"} /\ event.side \in MdSides
             /\ Known(event)
  <2>1. Known(event)
    BY <1>2, EventAssumption
  <2>2. /\ event.type = IF (k - 1) % 5 = 4 THEN "Trade" ELSE "Add"
        /\ event.side = IF (k - 1) % 2 = 0 THEN "Buy" ELSE "Sell"
    BY <1>2 DEF Synthetic
  <2> QED
    BY <2>1, <2>2 DEF MdSides
<1> QED
  BY <1>1, <1>2 DEF ReplayEvents

(* A quote is an order that the OMS can be given. *)
LEMMA QuoteFacts ==
    ASSUME NEW quote \in Quotes, OrderQuantity > 0
    PROVE  /\ quote.symbol = StrategySymbol /\ quote.symbol \in Symbols
           /\ quote.side \in Sides /\ quote.price \in Prices
           /\ quote.quantity = OrderQuantity /\ quote.quantity \in Quantities
BY QuoteAssumption DEF Quotes

-----------------------------------------------------------------------------
(* The report key: while client and exchange ids are the same, it tells all   *)
(* orders apart.                                                           *)

(* When the bits of lower weight agree, the next bit of the mixed ids tells  *)
(* the next bit of the ids.                                                *)
LEMMA NextBit ==
    ASSUME NEW x \in Nat, NEW y \in Nat, MixedIds(x, x) = MixedIds(y, y)
    PROVE  /\ x % 2 = y % 2
           /\ x % 2 = y % 2 => x % 4 = y % 4
           /\ x % 4 = y % 4 => x % 8 = y % 8
           /\ x % 8 = y % 8 => x % 16 = y % 16
           /\ x % 16 = y % 16 => x % 32 = y % 32
           /\ x % 32 = y % 32 => x % 64 = y % 64
           /\ x % 64 = y % 64 => x % 128 = y % 128
           /\ x % 128 = y % 128 => x % 256 = y % 256
<1>0. \A w \in Weights :
          (Bit(x, w) # Bit(2 * (x + 21), w)) <=> (Bit(y, w) # Bit(2 * (y + 21), w))
  BY DEF MixedIds
<1>1. x % 2 = y % 2
  BY <1>0 DEF Weights, Bit
<1>2. ASSUME NEW w \in {2, 4, 8, 16, 32, 64, 128}, x % w = y % w
      PROVE  Bit(x, w) = Bit(y, w)
  <2>1. w \in Weights
    BY DEF Weights
  <2>2. Bit(2 * (x + 21), w) = Bit(2 * (y + 21), w)
    BY <1>2 DEF Bit
  <2>3. \A n \in Nat : Bit(n, w) \in {0, 1}
    BY DEF Bit
  <2>4. 2 * (x + 21) \in Nat
    OBVIOUS
  <2> QED
    BY <1>0, <2>1, <2>2, <2>3, <2>4
<1> QED
  BY <1>1, <1>2 DEF Bit

(* So when all eight agree, the ids are the same. *)
LEMMA MixedOnce ==
    ASSUME NEW x \in 0 .. 255, NEW y \in 0 .. 255, MixedIds(x, x) = MixedIds(y, y)
    PROVE  x = y
<1>1. x % 256 = y % 256
  BY NextBit
<1>2. \A n \in 0 .. 255 : n % 256 = n
  OBVIOUS
<1> QED
  BY <1>1, <1>2

(* While no more are accepted than there are bytes, no two orders share a key. *)
LEMMA KeysApart ==
    ASSUME MaxAccepted <= 106, ExchangeInv, Room, Sent
    PROVE  KeysDistinct
<1>1. DOMAIN ledger = 1 .. Len(ledger) /\ Len(ledger) \in Nat /\ Len(ledger) <= 106
  BY ExchangeAssumption DEF ExchangeInv, Room
<1>2. ASSUME NEW x \in DOMAIN ledger, NEW y \in DOMAIN ledger,
             MixedIds(ledger[x].client, x) = MixedIds(ledger[y].client, y)
      PROVE  x = y
  <2>1. ledger[x].client = x /\ ledger[y].client = y
    BY <1>1, <1>2 DEF Sent
  <2> DEFINE n == Len(ledger)
  <2>2. x \in 1 .. n /\ y \in 1 .. n /\ n \in Nat /\ n <= 106
    BY <1>1
  <2> HIDE DEF n
  <2>3. x \in 0 .. 255 /\ y \in 0 .. 255
    BY <2>2
  <2> QED
    BY <1>2, <2>1, <2>3, MixedOnce
<1> QED
  BY <1>2 DEF KeysDistinct

(* A batch that holds three reports drops none: the order in work trades only *)
(* as long as its acknowledgement is alone.                                *)
LEMMA AnswerFits ==
    ASSUME MaxReports >= 3, Whole, ExchangeInv
    PROVE  BatchFits
<1>1. ASSUME work # Idle, Crosses(work) PROVE Len(batch) + 2 <= MaxReports
  <2>1. work.remaining > 0
    BY <1>1 DEF Crosses
  <2>2. Len(batch) = 1
    BY <1>1, <2>1 DEF Whole
  <2> QED
    BY <2>2, ExchangeAssumption
<1> QED
  BY <1>1, ExchangeAssumption DEF BatchFits

-----------------------------------------------------------------------------
(* Every step of the program is one of the order flow, the book, the risk     *)
(* engine, or leaves them alone.                                           *)

(* The order that is considered. *)
LEMMA Considered ==
    ASSUME Program, ConsiderOrder
    PROVE  /\ generated # <<>> /\ Head(generated) \in Quotes /\ OrderQuantity > 0
           /\ Tail(generated) \in Seq(Quotes) /\ Len(Tail(generated)) = Len(generated) - 1
           /\ Len(generated) \in Nat
           /\ cursor \in 1 .. Len(events) /\ Known(events[cursor])
<1>1. generated # <<>> /\ generated \in Seq(Quotes) /\ OrderQuantity > 0
  BY DEF ConsiderOrder, Program
<1>2. cursor \in 1 .. Len(events)
  BY <1>1 DEF Program
<1>3. events[cursor] \in ReplayEvents
  BY <1>2 DEF Program
<1>4. Known(events[cursor])
  BY <1>3, EventFacts
<1> QED
  BY <1>1, <1>2, <1>4

(* The program keeps within the order flow. *)
LEMMA WithinFlow ==
    ASSUME Program, [SimNext]_simVars
    PROVE  [FlowNext]_flowVars
<1>1. ASSUME UNCHANGED flowVars PROVE [FlowNext]_flowVars
  BY <1>1
<1>2. ASSUME NEW line \in Lines, LoadLine(line) PROVE [FlowNext]_flowVars
  BY <1>1, <1>2 DEF LoadLine
<1>3. CASE FileEnds
  BY <1>1, <1>3 DEF FileEnds
<1>4. CASE NextEvent
  BY <1>1, <1>4 DEF NextEvent
<1>5. CASE ConsiderOrder
  <2> DEFINE quote == Head(generated)
             order == Order(quote.symbol, quote.side, quote.price, quote.quantity)
  <2>1. /\ quote.symbol \in Symbols /\ quote.side \in Sides /\ quote.price \in Prices
        /\ quote.quantity \in Quantities
    BY <1>5, Considered, QuoteFacts
  <2>2. CreateAndSend(order) \/ UNCHANGED flowVars
    BY <1>5 DEF ConsiderOrder
  <2>3. CreateAndSend(order) => SendNew(order) \/ RefuseNew(order)
    BY DEF CreateAndSend
  <2> QED
    BY <1>1, <2>1, <2>2, <2>3 DEF FlowNext
<1>6. CASE ExchangeMatchesOrder
  BY <1>6 DEF ExchangeMatchesOrder, FlowNext
<1>7. CASE ExchangeAnswers
  BY <1>1, <1>7 DEF ExchangeAnswers, FlowNext
<1>8. CASE HandleReport
  BY <1>8 DEF HandleReport, TakesReport, FlowNext
<1>9. CASE OrderDone
  BY <1>1, <1>9 DEF OrderDone
<1>10. CASE UNCHANGED simVars
  BY <1>1, <1>10 DEF simVars
<1> QED
  BY <1>2, <1>3, <1>4, <1>5, <1>6, <1>7, <1>8, <1>9, <1>10 DEF SimNext

(* What an event that applies does to the book is one of its operations. *)
LEMMA WithinBook ==
    ASSUME Program, [SimNext]_simVars
    PROVE  [BookNext]_bookVars
<1>1. CASE NextEvent
  <2> DEFINE event == events[cursor + 1]
  <2>1. event \in ReplayEvents
    BY <1>1 DEF NextEvent, Program
  <2> HIDE DEF event
  <2>2. event.id \in MdIds /\ event.side \in MdSides /\ event.quantity \in MdQuantities
        /\ (event.price > 0 => event.price \in MdPrices)
    BY <2>1, EventFacts DEF Known
  <2>3. apply_event_to_book(event) \/ UNCHANGED bookVars
    BY <1>1 DEF NextEvent, event
  <2>4. ASSUME add_order(event.id, event.side, event.price, event.quantity) PROVE BookNext
    BY <2>2, <2>4 DEF add_order, BookNext
  <2>5. ASSUME modify_order(event.id, event.side, event.price, event.quantity) PROVE BookNext
    BY <2>2, <2>5 DEF modify_order, BookNext
  <2>6. ASSUME cancel_order(event.id) PROVE BookNext
    BY <2>2, <2>6 DEF BookNext
  <2>7. ASSUME trade_order(event.id, event.quantity) PROVE BookNext
    BY <2>2, <2>7 DEF BookNext
  <2> QED
    BY <2>3, <2>4, <2>5, <2>6, <2>7 DEF apply_event_to_book
<1>2. CASE ~NextEvent
  <2>1. UNCHANGED bookVars
    BY <1>2 DEF SimNext, simVars, LoadLine, FileEnds, ConsiderOrder, ExchangeMatchesOrder,
                ExchangeAnswers, HandleReport, OrderDone
  <2> QED
    BY <2>1
<1> QED
  BY <1>1, <1>2

(* The risk engine is asked at the times of events. *)
LEMMA WithinRisk ==
    ASSUME Program, [SimNext]_simVars
    PROVE  [RiskNext]_riskVars
<1>1. CASE ConsiderOrder
  <2>1. now \in Timestamps
    BY <1>1, Considered DEF now, Known
  <2>2. \E inside \in BOOLEAN : Validate(inside, now)
    <3> DEFINE quote == Head(generated)
               inside == InsideLimits(quote, positions[quote.symbol].quantity, Market(quote))
    <3>1. Validate(inside, now)
      BY <1>1 DEF ConsiderOrder, validate
    <3>2. inside \in BOOLEAN
      BY DEF InsideLimits
    <3> QED
      BY <3>1, <3>2
  <2> QED
    BY <2>1, <2>2 DEF RiskNext
<1>2. CASE ~ConsiderOrder
  <2>1. UNCHANGED riskVars
    BY <1>2 DEF SimNext, simVars, LoadLine, FileEnds, NextEvent, ExchangeMatchesOrder,
                ExchangeAnswers, HandleReport, OrderDone
  <2> QED
    BY <2>1
<1> QED
  BY <1>1, <1>2

-----------------------------------------------------------------------------
(* The control of the program.                                             *)

(* What the strategy makes of a book in order is what the OMS may be given.  *)
QuotesFit(made) ==
    made \in Seq(Quotes) /\ Len(made) <= 2 /\ (made # <<>> => OrderQuantity > 0)

(* The strategy makes that of every book. *)
LEMMA StrategyFacts == BookInv => QuotesFit(Strategy)
<1> SUFFICES ASSUME BookInv PROVE QuotesFit(Strategy)
  OBVIOUS
<1>1. ASSUME NEW d \in MdSides, has_level(d) PROVE best(d) \in Prices
  <2> DEFINE prices == DOMAIN levels[d]
  <2>1. IsFiniteSet(prices) /\ RanksAll(d, prices, Ranked(d)) /\ prices # {}
    BY <1>1, RankedFacts DEF has_level
  <2>2. Cardinality(prices) \in Nat /\ Cardinality(prices) # 0
    BY <2>1, FS_CardinalityType, FS_EmptySet
  <2>3. Ranked(d) \in [1 .. Cardinality(prices) -> prices]
    BY <2>1 DEF RanksAll
  <2>4. Ranked(d)[1] \in prices
    BY <2>2, <2>3
  <2>5. best(d) = Ranked(d)[1]
    BY <1>1 DEF best
  <2>6. prices \subseteq MdPrices
    BY BookTyped DEF BookTypeOK
  <2> QED
    BY <2>4, <2>5, <2>6, QuoteAssumption
<1>2. CASE Strategy = <<>>
  BY <1>2 DEF QuotesFit
<1>3. CASE Strategy # <<>>
  <2>1. has_level("Buy") /\ has_level("Sell") /\ OrderQuantity > 0
    BY <1>3, StrategyAssumption DEF Strategy, Generated
  <2> DEFINE bid == Quote("Buy", best("Buy"))
             ask == Quote("Sell", best("Sell"))
  <2>2. bid \in Quotes /\ ask \in Quotes
    BY <1>1, <2>1 DEF Quote, Quotes, Sides, MdSides
  <2>3. Strategy = (IF GenerateBuy THEN <<bid>> ELSE <<>>)
                       \o (IF GenerateSell THEN <<ask>> ELSE <<>>)
    BY <1>3 DEF Strategy, Generated
  <2> HIDE DEF bid, ask
  <2>4. Strategy \in Seq(Quotes) /\ Len(Strategy) <= 2
    BY <2>2, <2>3
  <2> QED
    BY <2>1, <2>4 DEF QuotesFit
<1> QED
  BY <1>2, <1>3

(* Reading a line or making up a replay leaves events of the replay. *)
LEMMA EventsRead ==
    ASSUME Program,
           \/ \E line \in Lines : LoadLine(line)
           \/ FileEnds
    PROVE  events' \in Seq(ReplayEvents) /\ cursor' \in 0 .. Len(events')
           /\ invalid_line_count' \in Nat
<1>1. ASSUME NEW line \in Lines, LoadLine(line)
      PROVE  events' \in Seq(ReplayEvents) /\ cursor' \in 0 .. Len(events')
             /\ invalid_line_count' \in Nat
  <2>1. UNCHANGED cursor
    BY <1>1 DEF LoadLine
  <2>2. CASE UNCHANGED <<events, invalid_line_count>>
    BY <2>1, <2>2 DEF Program
  <2>3. CASE invalid_line_count' = invalid_line_count + 1 /\ UNCHANGED events
    BY <2>1, <2>3 DEF Program
  <2>4. CASE parses(line) /\ events' = Append(events, Parsed(line))
                 /\ UNCHANGED invalid_line_count
    <3> DEFINE event == Parsed(line)
    <3>1. event \in ReplayEvents
      BY <2>4 DEF ReplayEvents
    <3>2. events' = Append(events, event) /\ events \in Seq(ReplayEvents)
      BY <2>4 DEF Program
    <3> HIDE DEF event
    <3>3. events' \in Seq(ReplayEvents) /\ Len(events') = Len(events) + 1
      BY <3>1, <3>2
    <3> QED
      BY <2>1, <2>4, <3>2, <3>3 DEF Program
  <2> QED
    BY <1>1, <2>2, <2>3, <2>4 DEF LoadLine, ReadLine, replayVars
<1>2. CASE FileEnds
  <2>1. UNCHANGED cursor
    BY <1>2 DEF FileEnds
  <2>2. CASE UNCHANGED replayVars
    BY <2>1, <2>2 DEF Program, replayVars
  <2>3. CASE events = <<>> /\ generate_synthetic(SyntheticEvents)
    <3>1. events' = [k \in 1 .. SyntheticEvents |-> Synthetic(k - 1)]
      BY <2>3 DEF generate_synthetic
    <3>6. invalid_line_count' = 0
      BY <2>3 DEF generate_synthetic
    <3>2. \A k \in 1 .. SyntheticEvents : Synthetic(k - 1) \in ReplayEvents
      BY DEF ReplayEvents
    <3>3. SyntheticEvents \in Nat
      BY PipelineAssumption
    <3>4. events' \in Seq(ReplayEvents) /\ Len(events') \in Nat
      BY <3>1, <3>2, <3>3
    <3>5. cursor = 0
      BY <2>3 DEF Program
    <3> QED
      BY <2>1, <3>4, <3>5, <3>6
  <2> QED
    BY <1>2, <2>2, <2>3 DEF FileEnds
<1> QED
  BY <1>1, <1>2

(* The book takes an event, and the strategy is asked. *)
LEMMA EventTaken ==
    ASSUME BookInv', Program, NextEvent
    PROVE  Program'
<1>1. /\ at = "orders" /\ at' = "orders" /\ UNCHANGED <<work, wire>>
      /\ UNCHANGED <<events, invalid_line_count>>
      /\ cursor < Len(events) /\ cursor' = cursor + 1 /\ generated = <<>>
  BY DEF NextEvent, flowVars, exchangeVars, replayVars
<1>2. \/ generated' = Strategy' /\ next_strategy_id' = next_strategy_id + Len(generated')
      \/ generated' = <<>> /\ UNCHANGED next_strategy_id
  BY <1>1 DEF NextEvent, AllocateIds
<1>3. QuotesFit(Strategy)'
  BY StrategyFacts, PTL
<1>4. QuotesFit(generated')
  <2>1. CASE generated' = Strategy'
    BY <1>3, <2>1
  <2>2. CASE generated' = <<>>
    BY <2>2 DEF QuotesFit
  <2> QED
    BY <1>2, <2>1, <2>2
<1>5. next_strategy_id' \in Nat
  BY <1>2, <1>4 DEF Program, QuotesFit
<1>6. cursor' \in 1 .. Len(events') /\ events' \in Seq(ReplayEvents)
  BY <1>1 DEF Program
<1>7. /\ generated' \in Seq(Quotes) /\ Len(generated') <= 2
      /\ generated' # <<>> => OrderQuantity > 0
  BY <1>4 DEF QuotesFit
<1>8. work' = Idle /\ wire' = <<>> /\ invalid_line_count' \in Nat
  BY <1>1 DEF Program
<1>9. cursor' \in 0 .. Len(events') /\ cursor' >= 1
  BY <1>6
<1> QED
  BY <1>1, <1>5, <1>6, <1>7, <1>8, <1>9 DEF Program

(* An order is considered: sent, or passed over. *)
LEMMA OrderConsidered ==
    ASSUME ExchangeInv, Named, Len(orders) \in Nat, Program, ConsiderOrder
    PROVE  Program'
<1> DEFINE quote == Head(generated)
           order == Order(quote.symbol, quote.side, quote.price, quote.quantity)
<1>1. /\ generated # <<>> /\ quote \in Quotes /\ OrderQuantity > 0
      /\ Tail(generated) \in Seq(Quotes) /\ Len(Tail(generated)) = Len(generated) - 1
      /\ Len(generated) \in Nat
  BY Considered
<1>2. /\ at = "orders" /\ UNCHANGED <<events, invalid_line_count, next_strategy_id, cursor>>
  BY DEF ConsiderOrder, replayVars
<1>3. work = Idle /\ wire = <<>> /\ cursor >= 1
  BY <1>1, <1>2 DEF Program
<1>4. ASSUME Continue, UNCHANGED <<work, wire>> PROVE Program'
  BY <1>1, <1>2, <1>3, <1>4 DEF Continue, Program
<1>5. ASSUME SendNew(order), at' = "sent", UNCHANGED generated PROVE Program'
  <2>1. /\ quote.symbol \in Symbols /\ quote.side \in Sides /\ quote.price \in Prices
        /\ quote.quantity \in Quantities
    BY <1>1, QuoteFacts
  <2>2. PICK r \in Requests : Accept(r)
    BY <1>5, <2>1, SendAccepts
  <2>3. work' # Idle
    <3>1. work'.exch = next_exchange_order_id
      BY <2>2 DEF Accept
    <3>2. next_exchange_order_id # 0
      BY DEF ExchangeInv
    <3> QED
      BY <3>1, <3>2 DEF Idle
  <2>4. wire' = wire
    BY <1>5, <2>3 DEF SendNew
  <2> QED
    BY <1>1, <1>2, <1>3, <1>5, <2>3, <2>4 DEF Program
<1>6. \/ SendNew(order) /\ at' = "sent" /\ UNCHANGED generated
      \/ RefuseNew(order) /\ Continue
      \/ UNCHANGED flowVars /\ Continue
  BY DEF ConsiderOrder, CreateAndSend
<1>7. RefuseNew(order) \/ UNCHANGED flowVars => UNCHANGED <<work, wire>>
  BY DEF RefuseNew, flowVars, exchangeVars
<1> QED
  BY <1>4, <1>5, <1>6, <1>7

(* The control follows from what the components keep. *)
LEMMA ProgramKept ==
    ASSUME ExchangeInv, Named, Len(orders) \in Nat, BookInv', Program, [SimNext]_simVars
    PROVE  Program'
<1>1. ASSUME \/ \E line \in Lines : LoadLine(line)
             \/ FileEnds
      PROVE  Program'
  <2>1. /\ events' \in Seq(ReplayEvents) /\ cursor' \in 0 .. Len(events')
        /\ invalid_line_count' \in Nat
    BY <1>1, EventsRead
  <2>2. UNCHANGED <<work, wire, next_strategy_id, cursor, generated>>
        /\ at = "loading" /\ at' \in {"loading", "orders"}
    BY <1>1 DEF LoadLine, FileEnds, flowVars, exchangeVars
  <2> QED
    BY <2>1, <2>2 DEF Program
<1>2. CASE NextEvent
  BY <1>2, EventTaken
<1>3. CASE ConsiderOrder
  BY <1>3, OrderConsidered
<1>4. CASE ExchangeMatchesOrder
  <2>1. /\ at = "sent" /\ Match /\ UNCHANGED <<wire, events, invalid_line_count, next_strategy_id,
                                  at, cursor, generated>>
    BY <1>4 DEF ExchangeMatchesOrder, ExchangeMatches, replayVars
  <2>2. work # Idle /\ Crosses(work)
        /\ work' = [work EXCEPT !.cumulative = @ + TradeQuantity,
                                !.remaining = @ - TradeQuantity]
    BY <2>1, MatchSays
  <2>3. work \in Incoming
    BY <2>2, TradeFacts
  <2>4. work'.exch = work.exch /\ work.exch # 0
    BY <2>2, <2>3 DEF Incoming
  <2>5. work' # Idle
    BY <2>4 DEF Idle
  <2> QED
    BY <2>1, <2>5 DEF Program
<1>5. CASE ExchangeAnswers
  <2>1. at = "sent" /\ at' = "reports" /\ work # Idle
        /\ UNCHANGED <<events, invalid_line_count, next_strategy_id, cursor, generated>>
    BY <1>5 DEF ExchangeAnswers, Program, replayVars
  <2>2. work' = Idle
    BY <1>5, <2>1 DEF ExchangeAnswers, ExchangeReturns, Finish
  <2> QED
    BY <2>1, <2>2 DEF Program
<1>6. CASE HandleReport
  <2>1. /\ at = "reports" /\ UNCHANGED <<work, events, invalid_line_count, next_strategy_id,
                                         at, cursor, generated>>
    BY <1>6 DEF HandleReport, TakesReport, Deliver, exchangeVars, replayVars
  <2> QED
    BY <2>1 DEF Program
<1>7. CASE OrderDone
  <2>1. /\ at = "reports" /\ at' = "orders" /\ generated' = Tail(generated) /\ wire = <<>>
        /\ UNCHANGED <<work, wire, events, invalid_line_count, next_strategy_id, cursor>>
    BY <1>7 DEF OrderDone, NextOrder, flowVars, exchangeVars, replayVars
  <2>2. generated # <<>> /\ generated \in Seq(Quotes) /\ Len(generated) <= 2
    BY <2>1 DEF Program
  <2>3. Tail(generated) \in Seq(Quotes) /\ Len(Tail(generated)) = Len(generated) - 1
        /\ Len(generated) \in Nat
    BY <2>2
  <2> QED
    BY <2>1, <2>2, <2>3 DEF Program
<1>8. CASE UNCHANGED simVars
  BY <1>8 DEF simVars, flowVars, exchangeVars, replayVars, Program
<1> QED
  BY <1>1, <1>2, <1>3, <1>4, <1>5, <1>6, <1>7, <1>8 DEF SimNext

-----------------------------------------------------------------------------
(* Orders, fills and positions.                                            *)

(* The order that is sent: its size is the strategy's and keeps the limit.   *)
LEMMA SendFacts ==
    ASSUME FlowInv, Program, Balanced, ConsiderOrder, NEW order,
           order = Order(Head(generated).symbol, Head(generated).side, Head(generated).price,
                         Head(generated).quantity)
    PROVE  /\ \E s \in Symbols, d \in Sides, p \in Prices, q \in Quantities :
                 /\ order = Order(s, d, p, q) /\ s = StrategySymbol /\ q = OrderQuantity
           /\ SendNew(order) =>
                 /\ StrategySymbol # "" /\ Within(OrderQuantity, MaxAbsPosition)
                 /\ \E r \in Requests :
                       /\ Accept(r) /\ r.client = Len(orders) + 1 /\ r.symbol = StrategySymbol
                       /\ r.quantity = OrderQuantity
           /\ RefuseNew(order) => StrategySymbol = ""
<1> DEFINE quote == Head(generated)
<1>1. quote \in Quotes /\ OrderQuantity > 0 /\ OrderQuantity \in Int
  BY Considered, StrategyAssumption
<1>2. /\ quote.symbol = StrategySymbol /\ quote.symbol \in Symbols /\ quote.side \in Sides
      /\ quote.price \in Prices /\ quote.quantity = OrderQuantity /\ quote.quantity \in Quantities
  BY <1>1, QuoteFacts
<1>3. /\ ExchangeInv /\ Named /\ OInv /\ Len(orders) \in Nat
      /\ positions \in [Symbols -> PositionState]
  BY FlowAssumption DEF FlowInv, OInv, OrdersTypeOK, PosInv, PositionsTypeOK
<1>4. SendNew(order) \/ RefuseNew(order) => RiskAccepts(quote)
  <2>1. CASE RiskAccepts(quote)
    BY <2>1
  <2>2. CASE ~RiskAccepts(quote)
    <3>1. UNCHANGED flowVars
      BY <2>2 DEF ConsiderOrder
    <3>2. orders' = orders
      BY <3>1 DEF flowVars, handlerVars, orderVars
    <3>3. SendNew(order) \/ RefuseNew(order) => Len(orders') = Len(orders) + 1
      BY <1>3 DEF SendNew, RefuseNew, CreateAndSubmit
    <3> QED
      BY <1>3, <3>2, <3>3
  <2> QED
    BY <2>1, <2>2
<1>5. RiskAccepts(quote) =>
          /\ quote.price > 0
          /\ Within(Abs(Projected(positions[quote.symbol].quantity, quote)), MaxAbsPosition)
  BY DEF RiskAccepts, InsideLimits
<1>6. positions[quote.symbol].quantity = 0
  <2>1. wire = <<>>
    BY DEF ConsiderOrder, Program
  <2>2. AllUntouched
    BY <2>1 DEF Balanced
  <2> QED
    BY <1>2, <2>2 DEF AllUntouched, Untouched
<1>7. Abs(Projected(0, quote)) = OrderQuantity
  BY <1>1, <1>2 DEF Abs, Projected
<1>8. SendNew(order) =>
          /\ StrategySymbol # "" /\ Within(OrderQuantity, MaxAbsPosition)
          /\ \E r \in Requests :
                /\ Accept(r) /\ r.client = Len(orders) + 1 /\ r.symbol = StrategySymbol
                /\ r.quantity = OrderQuantity
  <2> SUFFICES ASSUME SendNew(order)
               PROVE  /\ StrategySymbol # "" /\ Within(OrderQuantity, MaxAbsPosition)
                      /\ \E r \in Requests :
                            /\ Accept(r) /\ r.client = Len(orders) + 1
                            /\ r.symbol = StrategySymbol /\ r.quantity = OrderQuantity
    OBVIOUS
  <2> DEFINE s == quote.symbol
             d == quote.side
             p == quote.price
             q == quote.quantity
  <2>1. Within(OrderQuantity, MaxAbsPosition)
    BY <1>4, <1>5, <1>6, <1>7
  <2>2. s \in Symbols /\ d \in Sides /\ p \in Prices /\ q \in Quantities
    BY <1>2
  <2>3. SendNew(Order(s, d, p, q))
    OBVIOUS
  <2> HIDE DEF s, d, p, q
  <2>4. PICK r \in Requests :
            /\ Accept(r) /\ r.client = Len(orders) + 1 /\ r.symbol = s /\ r.side = d
            /\ r.price = p /\ r.quantity = q /\ MaxAccepted >= 1
            /\ Taken(Len(orders) + 1, Order(s, d, p, q))
    BY <1>3, <2>2, <2>3, SendAccepts
  <2>5. s # ""
    BY <2>4 DEF Taken, Gateway!valid_new_order, Order
  <2> QED
    BY <1>2, <2>1, <2>4, <2>5 DEF s, q
<1>9. RefuseNew(order) => StrategySymbol = ""
  <2> SUFFICES ASSUME RefuseNew(order) PROVE StrategySymbol = ""
    OBVIOUS
  <2>1. ~Gateway!valid_new_order(next_client_order_id, order) /\ quote.price > 0
    BY <1>4, <1>5 DEF RefuseNew
  <2>2. next_client_order_id # 0
    BY <1>3 DEF next_client_order_id
  <2>3. /\ order.symbol = StrategySymbol /\ order.price = quote.price
        /\ order.quantity = OrderQuantity
    BY <1>2 DEF Order
  <2> QED
    BY <1>1, <2>1, <2>2, <2>3 DEF Gateway!valid_new_order
<1> QED
  BY <1>2, <1>8, <1>9

(* What one step of the program is to the exchange. *)
ExchangeAct ==
    \/ \E r \in Requests : /\ Accept(r) /\ r.client = Len(orders) + 1
                           /\ r.symbol = StrategySymbol /\ r.quantity = OrderQuantity
                           /\ Within(OrderQuantity, MaxAbsPosition) /\ StrategySymbol # ""
                           /\ Len(orders') = Len(orders) + 1
                           /\ wire' = wire /\ positions' = positions
    \/ Match /\ UNCHANGED <<handlerVars, wire>>
    \/ Finish /\ UNCHANGED handlerVars /\ wire = <<>> /\ wire' = batch
    \/ Deliver
    \/ /\ UNCHANGED <<exchangeVars, wire, positions>>
       /\ orders' = orders \/ StrategySymbol = ""

(* Every step of the program is one of these. *)
LEMMA OneAct ==
    ASSUME FlowInv, Program, Program', Balanced, [SimNext]_simVars
    PROVE  ExchangeAct
<1>1. ASSUME UNCHANGED flowVars PROVE ExchangeAct
  BY <1>1 DEF flowVars, handlerVars, orderVars, positionVars, ExchangeAct
<1>2. CASE ConsiderOrder
  <2> DEFINE quote == Head(generated)
             order == Order(quote.symbol, quote.side, quote.price, quote.quantity)
  <2>1. /\ SendNew(order) =>
              /\ StrategySymbol # "" /\ Within(OrderQuantity, MaxAbsPosition)
              /\ \E r \in Requests :
                    /\ Accept(r) /\ r.client = Len(orders) + 1 /\ r.symbol = StrategySymbol
                    /\ r.quantity = OrderQuantity
        /\ RefuseNew(order) => StrategySymbol = ""
    BY <1>2, SendFacts
  <2>2. \/ SendNew(order) /\ at' = "sent"
        \/ RefuseNew(order)
        \/ UNCHANGED flowVars
    BY <1>2 DEF ConsiderOrder, CreateAndSend
  <2> HIDE DEF order
  <2>3. CASE SendNew(order) /\ at' = "sent"
    <3>1. work' # Idle
      BY <2>3 DEF Program
    <3>2. wire' = wire /\ positions' = positions /\ Len(orders') = Len(orders) + 1
      BY <2>3, <3>1 DEF SendNew, CreateAndSubmit, positionVars, FlowInv, OInv, OrdersTypeOK
    <3> QED
      BY <2>1, <2>3, <3>2 DEF ExchangeAct
  <2>4. CASE RefuseNew(order)
    BY <2>1, <2>4 DEF RefuseNew, CreateAndSubmit, positionVars, ExchangeAct
  <2> QED
    BY <1>1, <2>2, <2>3, <2>4
<1>3. CASE ExchangeMatchesOrder
  BY <1>3 DEF ExchangeMatchesOrder, ExchangeMatches, ExchangeAct
<1>4. CASE ExchangeAnswers
  <2>1. work # Idle /\ wire = <<>>
    BY <1>4 DEF ExchangeAnswers, Program
  <2>2. Finish /\ UNCHANGED handlerVars /\ wire' = wire \o batch
    BY <1>4, <2>1 DEF ExchangeAnswers, ExchangeReturns
  <2>3. batch \in Seq(ReportRecord)
    BY DEF FlowInv, Flight
  <2>4. <<>> \o batch = batch
    BY <2>3
  <2> QED
    BY <2>1, <2>2, <2>4 DEF ExchangeAct
<1>5. CASE HandleReport
  BY <1>5 DEF HandleReport, TakesReport, ExchangeAct
<1>6. CASE ~(\/ ConsiderOrder
             \/ ExchangeMatchesOrder
             \/ ExchangeAnswers
             \/ HandleReport)
  <2>1. UNCHANGED flowVars
    BY <1>6 DEF SimNext, simVars, LoadLine, FileEnds, NextEvent, OrderDone
  <2> QED
    BY <1>1, <2>1
<1> QED
  BY <1>2, <1>3, <1>4, <1>5, <1>6

(* An order is sent when it is numbered, so both count alike. *)
LEMMA SentKept ==
    ASSUME FlowInv, KeysDistinct, Program, MaxReports # 0, Sent, ExchangeAct
    PROVE  Sent'
<1>0. ExchangeInv /\ OInv /\ Flight /\ Len(ledger) \in Nat /\ Len(orders) \in Nat
  BY DEF FlowInv, ExchangeInv, OInv, OrdersTypeOK
<1>1. ASSUME NEW r \in Requests, Accept(r), r.client = Len(orders) + 1,
             Within(OrderQuantity, MaxAbsPosition), StrategySymbol # "",
             Len(orders') = Len(orders) + 1
      PROVE  Sent'
  <2>1. Len(orders) = Len(ledger)
    BY <1>1 DEF Sent
  <2> DEFINE row == [client |-> r.client, side |-> r.side, quantity |-> r.quantity,
                     reported |-> 0, canceled |-> 0]
  <2>2. ledger' = Append(ledger, row) /\ row.client = r.client
    BY <1>1 DEF Accept
  <2> HIDE DEF row
  <2>3. /\ Len(ledger') = Len(ledger) + 1 /\ ledger'[Len(ledger) + 1] = row
        /\ \A x \in 1 .. Len(ledger) : ledger'[x] = ledger[x]
    <3>1. ledger \in Seq(Row)
      BY <1>0 DEF ExchangeInv
    <3> QED
      BY <2>2, <3>1
  <2>4. ASSUME NEW x \in 1 .. Len(ledger') PROVE ledger'[x].client = x
    <3>1. CASE x = Len(ledger) + 1
      BY <1>1, <2>1, <2>2, <2>3, <3>1
    <3>2. CASE x # Len(ledger) + 1
      <4>1. x \in 1 .. Len(ledger)
        BY <1>0, <2>3, <3>2
      <4> QED
        BY <2>3, <4>1 DEF Sent
    <3> QED
      BY <3>1, <3>2
  <2> QED
    BY <1>1, <2>1, <2>3, <2>4 DEF Sent
<1>2. ASSUME Len(ledger') = Len(ledger), orders' = orders \/ StrategySymbol = "" 
                                            \/ Len(orders') = Len(orders),
             \A x \in 1 .. Len(ledger) : ledger'[x].client = ledger[x].client,
             ledger' # <<>> => ledger # <<>>
      PROVE  Sent'
  BY <1>2 DEF Sent
<1>3. ASSUME Match, UNCHANGED handlerVars PROVE Sent'
  <2>1. SameOrders(ledger, ledger')
    BY <1>0, <1>3, MatchLedger
  <2>2. ledger' # <<>> => ledger # <<>>
    <3>1. ledger' \in Seq(Row) /\ ledger \in Seq(Row) /\ Len(ledger') = Len(ledger)
      BY <1>0, <1>3, <2>1, MatchLedger DEF SameOrders, ExchangeInv
    <3> QED
      BY <3>1
  <2>3. orders' = orders
    BY <1>3 DEF handlerVars, orderVars
  <2> QED
    BY <1>2, <2>1, <2>2, <2>3 DEF SameOrders
<1>4. ASSUME Finish, UNCHANGED handlerVars PROVE Sent'
  BY <1>2, <1>4 DEF Finish, handlerVars, orderVars
<1>5. CASE Deliver
  <2>1. wire # <<>> /\ work = Idle /\ on_report(Head(wire)) /\ ledger' = ledger
    BY <1>5 DEF Deliver, exchangeVars
  <2>2. InTransit = wire /\ Head(wire) = wire[1]
    BY <2>1 DEF InTransit
  <2>3. Len(orders') = Len(orders)
    BY <2>1, <2>2, HeadDelivered
  <2> QED
    BY <1>2, <2>1, <2>3
<1> QED
  BY <1>1, <1>2, <1>3, <1>4, <1>5 DEF ExchangeAct, exchangeVars

(* An order trades whole with one that rests whole, so after the trade neither *)
(* has anything left.                                                      *)
LEMMA TradeWhole ==
    ASSUME BatchFits, FlowInv, Whole, Match
    PROVE  /\ Resting' \subseteq Resting
           /\ work'.remaining = 0 /\ work'.cumulative = OrderQuantity
           /\ work'.symbol = StrategySymbol
           /\ Answer(batch') /\ Len(batch') = 3
<1> DEFINE Q == OrderQuantity
<1>0. /\ ExchangeInv /\ Accounts /\ Terms /\ Named /\ OInv /\ Flight
      /\ batch \in Seq(ReportRecord)
  BY DEF FlowInv, Flight
<1>1. /\ work # Idle /\ Crosses(work)
      /\ work' = [work EXCEPT !.cumulative = @ + TradeQuantity, !.remaining = @ - TradeQuantity]
  BY MatchSays
<1>2. /\ work \in Incoming /\ work.remaining \in Nat \ {0} /\ work.cumulative \in Nat
      /\ Front \in RestingOrder /\ TradeSide \in BookSides
  BY <1>0, <1>1, TradeFacts DEF Incoming
<1>3. Len(batch) = 1 /\ work.remaining = Q /\ work.cumulative = 0
      /\ work.symbol = StrategySymbol /\ Answer(batch)
  BY <1>1, <1>2 DEF Whole
<1>4. Place(book, TradeSide, TradePrice, 1) \in Resting
  BY <1>0, MatchOrders
<1>5. Front.filled = 0 /\ Front.remaining = Q /\ Front.symbol = StrategySymbol
  <2>1. Place(book, TradeSide, TradePrice, 1).order = Front
    BY PlaceFields DEF Front, TradeLevel
  <2> QED
    BY <1>4, <2>1 DEF Whole
<1>6. TradeQuantity = Q /\ Q \in Nat \ {0}
  BY <1>2, <1>3, <1>5 DEF TradeQuantity, Smaller
<1>7. FrontAfter.remaining = 0
  <2>1. FrontAfter.remaining = Front.remaining - TradeQuantity
    BY <1>0, <1>1, FrontAfterFacts
  <2> QED
    BY <1>5, <1>6, <2>1
<1>8. Resting' \subseteq Resting
  BY <1>0, <1>7, MatchOrders
<1>9. work'.remaining = 0 /\ work'.cumulative = Q /\ work'.symbol = StrategySymbol
  <2> DEFINE tq == TradeQuantity
  <2>1. work' = [work EXCEPT !.cumulative = @ + tq, !.remaining = @ - tq]
    BY <1>1
  <2> HIDE DEF tq
  <2>2. work'.remaining = work.remaining - tq /\ work'.cumulative = work.cumulative + tq
        /\ work'.symbol = work.symbol
    BY <1>2, <2>1 DEF Incoming
  <2> QED
    BY <1>3, <1>6, <2>2 DEF tq
<1>10. /\ Front.client \in Nat \ {0} /\ Front.symbol \in Symbols
       /\ work.client \in Nat \ {0} /\ work.symbol \in Symbols
  <2> DEFINE t == Place(book, TradeSide, TradePrice, 1)
  <2>1. t \in Resting /\ t.order = Front
    BY <1>4, PlaceFields DEF Front, TradeLevel
  <2> HIDE DEF t
  <2>2. Front.client \in ClientIds
    BY <2>1, RestingRow
  <2>3. work.client \in ClientIds
    <3>1. work.exch = Len(ledger) /\ ledger[work.exch].client = work.client /\ Len(ledger) \in Nat
      BY <1>0, <1>1 DEF ExchangeInv, WorkInv
    <3>2. work.exch \in 1 .. Len(ledger)
      BY <1>2, <3>1 DEF Incoming
    <3> QED
      BY <1>0, <3>1, <3>2 DEF Named
  <2>4. orders[work.client] \in OrderType
    BY <1>0, <2>3, OrderAt
  <2>5. work.symbol \in Symbols
    BY <1>0, <1>1, <2>4 DEF Terms, SameTerms, OrderType
  <2> QED
    BY <1>3, <1>5, <2>2, <2>3, <2>5 DEF ClientIds
<1>11. PICK a \in ReportRecord, b \in ReportRecord :
              /\ batch' = Append(Append(batch, a), b)
              /\ FillSays(a, Front, TradeSide, TradePrice, TradeQuantity,
                          Front.filled + TradeQuantity, Front.remaining - TradeQuantity)
              /\ FillSays(b, work, work.side, TradePrice, TradeQuantity,
                          work.cumulative + TradeQuantity, work.remaining - TradeQuantity)
              /\ a.price > 0 /\ a.last > 0 /\ b.price > 0 /\ b.last > 0
  BY <1>0, <1>10, MatchReports
<1>12. /\ Len(batch') = 3 /\ batch'[1] = batch[1] /\ batch'[2] = a /\ batch'[3] = b
  <2>1. batch' = Append(Append(batch, a), b) /\ batch \in Seq(ReportRecord) /\ Len(batch) = 1
    BY <1>0, <1>3, <1>11
  <2> DEFINE m == Append(batch, a)
             u == Append(m, b)
  <2>2. a \in ReportRecord /\ b \in ReportRecord /\ batch' = u
    BY <1>11
  <2>3. Longer(batch, m, a, 0)
    BY <2>1, <2>2, AppendReports
  <2>4. m \in Seq(ReportRecord) /\ Len(m) = 2 /\ m[1] = batch[1] /\ m[2] = a
    BY <2>1, <2>3 DEF Longer
  <2> HIDE DEF m
  <2>5. Longer(m, u, b, 0)
    BY <2>2, <2>4, AppendReports
  <2> HIDE DEF u
  <2>6. Len(u) = 3 /\ u[1] = m[1] /\ u[2] = m[2] /\ u[3] = b
    BY <2>4, <2>5 DEF Longer
  <2> QED
    BY <2>2, <2>4, <2>6
<1>13. FillsWhole(a)
  <2>1. a.type = "Fill" /\ a.symbol = StrategySymbol /\ a.last = Q
    BY <1>5, <1>6, <1>11 DEF FillSays
  <2> QED
    BY <2>1 DEF FillsWhole, IsFill
<1>14. FillsWhole(b)
  <2>1. b.type = "Fill" /\ b.symbol = StrategySymbol /\ b.last = Q
    BY <1>3, <1>6, <1>11 DEF FillSays
  <2> QED
    BY <2>1 DEF FillsWhole, IsFill
<1>15. b.price = a.price /\ b.side = Opposite(a.side)
  <2>1. a.side = Opposite(work.side) /\ b.side = work.side /\ a.price = b.price
    BY <1>11 DEF FillSays, TradeSide
  <2>2. work.side \in BookSides
    BY <1>2 DEF Incoming
  <2> QED
    BY <2>1, <2>2, OppositeFacts
<1>16. Answer(batch')
  BY <1>3, <1>12, <1>13, <1>14, <1>15 DEF Answer, Pair
<1> QED
  BY <1>8, <1>9, <1>12, <1>16

(* What rests is whole after every step. *)
LEMMA WholeKept ==
    ASSUME BatchFits, MaxReports # 0, FlowInv, Whole, ExchangeAct
    PROVE  Whole'
<1>0. /\ ExchangeInv /\ OInv /\ Len(orders) \in Nat
  BY DEF FlowInv, OInv, OrdersTypeOK
<1>1. ASSUME NEW r \in Requests, Accept(r), r.client = Len(orders) + 1,
             r.symbol = StrategySymbol, r.quantity = OrderQuantity
      PROVE  Whole'
  <2>1. r.client \in Nat \ {0} /\ r.symbol \in Symbols
    <3>1. StrategySymbol \in Symbols
      BY QuoteAssumption
    <3>2. r.client \in Nat \ {0}
      BY <1>0, <1>1
    <3> QED
      BY <1>1, <3>1, <3>2
  <2>2. PICK a \in ReportRecord : batch' = <<a>> /\ a.type = "NewAck" /\ Resting' = Resting
    BY <1>0, <1>1, <2>1, AcceptReports
  <2>3. work'.symbol = StrategySymbol /\ work'.cumulative = 0 /\ work'.remaining = OrderQuantity
    BY <1>1 DEF Accept
  <2>4. Answer(batch') /\ Len(batch') = 1
    BY <2>2 DEF Answer
  <2> QED
    BY <2>2, <2>3, <2>4 DEF Whole
<1>2. ASSUME Match PROVE Whole'
  <2>1. /\ Resting' \subseteq Resting
        /\ work'.remaining = 0 /\ work'.cumulative = OrderQuantity
        /\ work'.symbol = StrategySymbol
        /\ Answer(batch') /\ Len(batch') = 3
    BY <1>2, TradeWhole
  <2> QED
    BY <2>1 DEF Whole
<1>3. ASSUME Finish PROVE Whole'
  <2>1. work # Idle /\ work' = Idle
    BY <1>3 DEF Finish
  <2>2. ASSUME NEW r \in Resting'
        PROVE  /\ r.order.filled = 0 /\ r.order.remaining = OrderQuantity
               /\ r.order.symbol = StrategySymbol
    <3>1. CASE r \in Resting
      BY <3>1 DEF Whole
    <3>2. CASE work.remaining > 0 /\ r.order = Rested
      <4>1. Len(batch) = 1
        BY <2>1, <3>2 DEF Whole
      <4>2. work.cumulative = 0 /\ work.remaining = OrderQuantity
            /\ work.symbol = StrategySymbol
        BY <2>1, <4>1 DEF Whole
      <4> QED
        BY <3>2, <4>2 DEF Rested
    <3> QED
      BY <1>0, <1>3, <3>1, <3>2, FinishOrders
  <2> QED
    BY <2>1, <2>2 DEF Whole
<1>4. ASSUME UNCHANGED exchangeVars PROVE Whole'
  <2>1. Resting' = Resting /\ work' = work /\ batch' = batch
    BY <1>4, RestingOrders DEF exchangeVars
  <2> QED
    BY <2>1 DEF Whole
<1> QED
  BY <1>1, <1>2, <1>3, <1>4 DEF ExchangeAct, Deliver

(* The average price of one whole fill is its price. *)
LEMMA WholeAverage ==
    ASSUME NEW n \in Nat \ {0}, NEW p \in Nat
    PROVE  (p * n) \div n = p
<1> DEFINE x == p * n
           B == x \div n
<1>1. x \in Nat
  OBVIOUS
<1> HIDE DEF x
<1>2. PICK r \in 0 .. (n - 1) : B * n = x - r /\ B \in Nat
  BY <1>1, FloorRemainder
<1> HIDE DEF B
<1>3. (p - B) * n = r
  BY <1>2 DEF x
<1>4. CASE p - B >= 1
  <2>1. p - B \in Nat
    BY <1>2, <1>4
  <2>2. (p - B) * n >= n
    BY <1>4, <2>1, ProductBound
  <2> QED
    BY <1>2, <1>3, <2>2
<1>5. CASE B - p >= 1
  <2>1. B - p \in Nat
    BY <1>2, <1>5
  <2>2. (B - p) * n >= n
    BY <1>5, <2>1, ProductBound
  <2>3. (B - p) * n = -((p - B) * n)
    BY <1>2
  <2> QED
    BY <1>2, <1>3, <2>2, <2>3
<1> QED
  BY <1>2, <1>4, <1>5 DEF B, x

(* The first fill of a trade opens the position at its price. *)
LEMMA FirstFill ==
    ASSUME NEW st \in PositionState, Untouched(st), NEW d \in Sides, NEW p \in Nat,
           NEW f \in Nat \ {0}
    PROVE  LET n == Applied(st, d, p, f)
           IN n.quantity = SignedFill(d, f) /\ n.average = p /\ n.realized = 0
<1> DEFINE m == Counted(st, d, f)
           n == Applied(st, d, p, f)
<1>1. /\ m \in PositionState /\ m.quantity = st.quantity + SignedFill(d, f)
      /\ m.average = st.average /\ m.realized = st.realized
  BY CountedFields DEF Sides
<1>2. st.quantity = 0 /\ st.average = 0 /\ st.realized = 0
  BY DEF Untouched
<1>3. llabs(st.quantity) = 0 /\ SignedFill(d, f) \in Int
  BY <1>2 DEF llabs, SignedFill
<1>4. n = AddTo(st, d, p, f)
  BY <1>2 DEF Applied, Opens
<1> DEFINE k == llabs(st.quantity)
           v == (m.average * k + p * f) \div (k + f)
<1>5. n = [m EXCEPT !.average = v]
  BY <1>4 DEF AddTo
<1>6. v = p
  <2>1. m.average * k + p * f = p * f /\ k + f = f
    BY <1>1, <1>2, <1>3
  <2> QED
    BY <2>1, WholeAverage
<1> HIDE DEF m, v, n
<1>7. n.quantity = m.quantity /\ n.average = v /\ n.realized = m.realized
  BY <1>1, <1>5 DEF PositionState
<1> QED
  BY <1>1, <1>2, <1>3, <1>6, <1>7 DEF n

(* The second one closes it without profit. *)
LEMMA SecondFill ==
    ASSUME NEW st \in PositionState, NEW d \in Sides, NEW p \in Nat, NEW f \in Nat \ {0},
           st.quantity = -SignedFill(d, f), st.average = p, st.realized = 0
    PROVE  Untouched(Applied(st, d, p, f))
<1> DEFINE m == Counted(st, d, f)
           n == Applied(st, d, p, f)
           g == Gain(st, d, p, f)
           B == AverageAfterClose(st, d, p, f)
<1>1. /\ m \in PositionState /\ m.quantity = st.quantity + SignedFill(d, f)
      /\ m.average = st.average /\ m.realized = st.realized
  BY CountedFields DEF Sides
<1>2. SignedFill(d, f) \in Int /\ st.quantity + SignedFill(d, f) = 0
  BY DEF SignedFill
<1>3. ~Opens(st, d)
  BY DEF Opens, SignedFill, Sides
<1>4. ClosingQuantity(st, f) \in Int
  BY <1>2 DEF ClosingQuantity, llabs
<1>5. g = 0
  <2> DEFINE k == ClosingQuantity(st, f)
  <2>1. g = (p - p) * k
    BY DEF Gain
  <2> HIDE DEF k
  <2> QED
    BY <1>4, <2>1 DEF k
<1>6. B = 0
  BY <1>2 DEF AverageAfterClose
<1>7. n = [m EXCEPT !.realized = @ + g, !.average = B]
  BY <1>3 DEF Applied, Reduce
<1> HIDE DEF m, n, g, B
<1>8. n.quantity = m.quantity /\ n.average = B /\ n.realized = m.realized + g
  BY <1>1, <1>7 DEF PositionState
<1> QED
  BY <1>1, <1>2, <1>5, <1>6, <1>8 DEF Untouched, n

(* A delivered report moves the position of its symbol if it is a fill, and    *)
(* nothing otherwise.                                                      *)
LEMMA DeliveryMoves ==
    ASSUME FlowInv, KeysDistinct, Deliver, wire[1].type # "CancelReject"
    PROVE  /\ wire[1] \in ReportRecord /\ wire # <<>> /\ wire' = Tail(wire)
           /\ positions \in [Symbols -> PositionState]
           /\ ~IsFill(wire[1]) => positions' = positions
           /\ IsFill(wire[1]) => \A s \in Symbols : positions'[s] =
                 IF s = wire[1].symbol
                 THEN Applied(positions[s], wire[1].side, wire[1].price, wire[1].last)
                 ELSE positions[s]
<1> DEFINE r == wire[1]
<1>1. wire # <<>> /\ work = Idle /\ on_report(Head(wire)) /\ wire' = Tail(wire)
  BY DEF Deliver
<1>2. InTransit = wire /\ Head(wire) = r
  BY <1>1 DEF InTransit
<1>3. r \in ReportRecord /\ r.client \in ClientIds /\ Update(r)
  BY <1>1, <1>2, HeadUpdate
<1>4. OInv /\ PosInv /\ positions \in [Symbols -> PositionState]
  BY FlowAssumption DEF FlowInv, PosInv, PositionsTypeOK
<1>5. /\ ~IsFill(r) => positions' = positions
      /\ IsFill(r) => positions' = [positions EXCEPT ![r.symbol] =
                          Applied(positions[r.symbol], r.side, r.price, r.last)]
  BY <1>3, <1>4, ReportTaken
<1>6. ASSUME IsFill(r), NEW s \in Symbols
      PROVE  positions'[s] = IF s = r.symbol
                             THEN Applied(positions[s], r.side, r.price, r.last)
                             ELSE positions[s]
  <2> DEFINE m == Applied(positions[r.symbol], r.side, r.price, r.last)
  <2>1. positions' = [positions EXCEPT ![r.symbol] = m]
    BY <1>5, <1>6
  <2> HIDE DEF m
  <2>2. positions'[s] = IF s = r.symbol THEN m ELSE positions[s]
    BY <1>4, <2>1
  <2> QED
    BY <2>2 DEF m
<1> QED
  BY <1>1, <1>3, <1>4, <1>5, <1>6

(* Whatever is delivered, the positions and the reports that are left balance. *)
LEMMA DeliveryBalances ==
    ASSUME FlowInv, KeysDistinct, Balanced, Deliver
    PROVE  Balanced'
<1> DEFINE Q == OrderQuantity
<1>1. wire # <<>> /\ wire \in Seq(ReportRecord)
  BY DEF Deliver, FlowInv, Flight
<1>2. /\ Tail(wire) \in Seq(ReportRecord) /\ Len(Tail(wire)) = Len(wire) - 1
      /\ Len(wire) \in Nat \ {0}
      /\ \A k \in 1 .. Len(wire) - 1 : Tail(wire)[k] = wire[k + 1]
  BY <1>1, TailFacts
<1>3. CASE Answer(wire) /\ AllUntouched
  <2>1. wire[1].type = "NewAck" /\ ~IsFill(wire[1])
    BY <1>3 DEF Answer, IsFill
  <2>2. positions' = positions /\ wire' = Tail(wire)
    BY <2>1, DeliveryMoves
  <2>3. AllUntouched'
    BY <1>3, <2>2 DEF AllUntouched
  <2>4. CASE Len(wire) = 1
    <3>1. wire' = <<>>
      BY <1>2, <2>2, <2>4
    <3> QED
      BY <2>3, <3>1 DEF Balanced
  <2>5. CASE Len(wire) = 3
    <3>1. Len(wire') = 2 /\ wire'[1] = wire[2] /\ wire'[2] = wire[3]
      BY <1>2, <2>2, <2>5
    <3>2. Pair(wire[2], wire[3])
      BY <1>3, <2>5 DEF Answer
    <3> QED
      BY <2>3, <3>1, <3>2 DEF Balanced
  <2> QED
    BY <1>3, <2>4, <2>5 DEF Answer
<1>4. CASE Len(wire) = 2 /\ Pair(wire[1], wire[2]) /\ AllUntouched
  <2> DEFINE a == wire[1]
             b == wire[2]
  <2>1. /\ IsFill(a) /\ a.symbol = StrategySymbol /\ a.last = Q /\ a.type # "CancelReject"
        /\ FillsWhole(b) /\ b.price = a.price /\ b.side = Opposite(a.side)
    BY <1>4 DEF Pair, FillsWhole, IsFill
  <2>2. /\ a \in ReportRecord /\ wire' = Tail(wire)
        /\ positions \in [Symbols -> PositionState]
        /\ \A s \in Symbols : positions'[s] =
              IF s = a.symbol THEN Applied(positions[s], a.side, a.price, a.last)
                              ELSE positions[s]
    BY <2>1, DeliveryMoves
  <2>3. Len(wire') = 1 /\ wire'[1] = b
    BY <1>2, <1>4, <2>2
  <2>4. Q \in Nat \ {0}
    <3>1. FillAgrees(a, orders[a.client])
      <4>1. InTransit = wire /\ Head(wire) = a /\ on_report(a) /\ work = Idle
        BY <1>1 DEF Deliver, InTransit
      <4> QED
        BY <1>1, <2>1, <4>1, HeadUpdate
    <3> QED
      BY <2>1, <2>2, <3>1 DEF FillAgrees, ReportRecord
  <2>5. a.side \in Sides /\ a.price \in Nat
    BY <2>2 DEF ReportRecord
  <2>6. SignedFill(a.side, Q) = -SignedFill(b.side, Q)
    BY <2>1, <2>4, <2>5 DEF SignedFill, Opposite, Sides
  <2> HIDE DEF a, b, Q
  <2>7. ASSUME NEW s \in Symbols
        PROVE  IF s = StrategySymbol
               THEN /\ positions'[s].quantity = -SignedFill(b.side, Q)
                    /\ positions'[s].average = b.price /\ positions'[s].realized = 0
               ELSE Untouched(positions'[s])
    <3>1. positions[s] \in PositionState /\ Untouched(positions[s])
      BY <1>4, <2>2 DEF AllUntouched
    <3>2. CASE s = StrategySymbol
      <4> DEFINE n == Applied(positions[s], a.side, a.price, Q)
      <4>1. positions'[s] = n
        BY <2>1, <2>2, <3>2
      <4>2. n.quantity = SignedFill(a.side, Q) /\ n.average = a.price /\ n.realized = 0
        BY <2>4, <2>5, <3>1, FirstFill
      <4> HIDE DEF n
      <4> QED
        BY <2>1, <2>6, <3>2, <4>1, <4>2
    <3>3. CASE s # StrategySymbol
      BY <2>1, <2>2, <3>1, <3>3
    <3> QED
      BY <3>2, <3>3
  <2>8. \A s \in Symbols :
            IF s = StrategySymbol
            THEN /\ positions'[s].quantity = -SignedFill(wire'[1].side, OrderQuantity)
                 /\ positions'[s].average = wire'[1].price /\ positions'[s].realized = 0
            ELSE Untouched(positions'[s])
    BY <2>3, <2>7 DEF Q
  <2>9. Undoes(wire[1])'
    BY <2>8 DEF Undoes, Untouched
  <2> QED
    BY <2>1, <2>3, <2>9 DEF Balanced
<1>5. CASE Len(wire) = 1 /\ FillsWhole(wire[1]) /\ Undoes(wire[1])
  <2> DEFINE b == wire[1]
  <2>1. IsFill(b) /\ b.symbol = StrategySymbol /\ b.last = Q /\ b.type # "CancelReject"
    BY <1>5 DEF FillsWhole, IsFill
  <2>2. /\ b \in ReportRecord /\ wire' = Tail(wire)
        /\ positions \in [Symbols -> PositionState]
        /\ \A s \in Symbols : positions'[s] =
              IF s = b.symbol THEN Applied(positions[s], b.side, b.price, b.last)
                              ELSE positions[s]
    BY <2>1, DeliveryMoves
  <2>3. wire' = <<>>
    BY <1>2, <1>5, <2>2
  <2>4. Q \in Nat \ {0}
    <3>1. FillAgrees(b, orders[b.client])
      <4>1. InTransit = wire /\ Head(wire) = b /\ on_report(b) /\ work = Idle
        BY <1>1 DEF Deliver, InTransit
      <4> QED
        BY <1>1, <2>1, <4>1, HeadUpdate
    <3> QED
      BY <2>1, <2>2, <3>1 DEF FillAgrees, ReportRecord
  <2>5. b.side \in Sides /\ b.price \in Nat
    BY <2>2 DEF ReportRecord
  <2>6. Undoes(b)
    BY <1>5
  <2> HIDE DEF b, Q
  <2>7. ASSUME NEW s \in Symbols PROVE Untouched(positions'[s])
    <3>1. positions[s] \in PositionState
      BY <2>2
    <3>2. CASE s = StrategySymbol
      <4> DEFINE st == positions[s]
                 n == Applied(st, b.side, b.price, Q)
      <4>1. positions'[s] = n
        BY <2>1, <2>2, <3>2
      <4>2. st.quantity = -SignedFill(b.side, Q) /\ st.average = b.price /\ st.realized = 0
        BY <2>6, <3>2 DEF Undoes, Q
      <4> HIDE DEF st
      <4>3. Untouched(n)
        BY <2>4, <2>5, <3>1, <4>2, SecondFill DEF st
      <4> HIDE DEF n
      <4> QED
        BY <4>1, <4>3
    <3>3. CASE s # StrategySymbol
      BY <2>1, <2>2, <2>6, <3>3 DEF Undoes
    <3> QED
      BY <3>2, <3>3
  <2>8. AllUntouched'
    BY <2>7 DEF AllUntouched, Untouched
  <2> QED
    BY <2>3, <2>8 DEF Balanced
<1> QED
  BY <1>1, <1>3, <1>4, <1>5 DEF Balanced

(* What is under way moves the positions and moves them back. *)
LEMMA BalancedKept ==
    ASSUME FlowInv, KeysDistinct, Whole, Balanced, ExchangeAct
    PROVE  Balanced'
<1>1. ASSUME UNCHANGED <<wire, positions>> PROVE Balanced'
  BY <1>1 DEF Balanced, AllUntouched, Undoes
<1>2. ASSUME Finish, UNCHANGED handlerVars, wire = <<>>, wire' = batch PROVE Balanced'
  <2>1. work # Idle /\ positions' = positions
    BY <1>2 DEF Finish, handlerVars, positionVars
  <2>2. Answer(wire')
    BY <1>2, <2>1 DEF Whole
  <2>3. AllUntouched
    BY <1>2 DEF Balanced
  <2>4. AllUntouched'
    BY <2>1, <2>3 DEF AllUntouched
  <2> QED
    BY <2>2, <2>4 DEF Balanced
<1> QED
  BY <1>1, <1>2, DeliveryBalances DEF ExchangeAct, handlerVars, positionVars

-----------------------------------------------------------------------------
(* The summary.                                                            *)

(* A counter goes up by one when it is named. *)
LEMMA PlusFacts ==
    ASSUME NEW S, NEW counts \in [S -> Nat], NEW names
    PROVE  /\ Plus(counts, names) \in [S -> Nat]
           /\ \A c \in S : Plus(counts, names)[c] = IF c \in names THEN counts[c] + 1 ELSE counts[c]
BY DEF Plus

(* The sum of the fill counts as orders and fills are added. *)
LEMMA FillCounts ==
    ASSUME NEW f \in Seq(Nat)
    PROVE  /\ SumFunction(f) \in Nat
           /\ SumFunction(Append(f, 0)) = SumFunction(f)
           /\ \A id \in 1 .. Len(f) :
                 SumFunction([f EXCEPT ![id] = @ + 1]) = SumFunction(f) + 1
<1> DEFINE D == 1 .. Len(f)
<1>1. DOMAIN f = D /\ Len(f) \in Nat /\ IsFiniteSet(D)
  BY FS_Interval
<1>2. \A x \in D : f[x] \in Nat /\ f[x] \in Int
  BY <1>1
<1>3. SumFunction(f) = SumFunctionOnSet(f, D)
  BY <1>1 DEF SumFunction
<1>4. SumFunction(f) \in Nat
  BY <1>1, <1>2, <1>3, SumNat
<1>5. SumFunction(Append(f, 0)) = SumFunction(f)
  <2> DEFINE g == Append(f, 0)
             a == Len(f) + 1
  <2>1. DOMAIN g = D \cup {a} /\ a \notin D /\ g[a] = 0 /\ \A x \in D : g[x] = f[x]
    BY <1>1
  <2> HIDE DEF g, a, D
  <2>2. \A x \in D \cup {a} : g[x] \in Int
    BY <1>2, <2>1
  <2>3. SumFunctionOnSet(g, D \cup {a}) = g[a] + SumFunctionOnSet(g, D)
    BY <1>1, <2>1, <2>2, SumAdd
  <2>4. SumFunctionOnSet(g, D) = SumFunctionOnSet(f, D)
    BY <1>1, <2>1, SumAgree
  <2>5. SumFunction(g) = SumFunctionOnSet(g, D \cup {a})
    BY <2>1 DEF SumFunction
  <2> QED
    BY <1>3, <1>4, <2>1, <2>3, <2>4, <2>5 DEF g
<1>6. ASSUME NEW id \in D PROVE SumFunction([f EXCEPT ![id] = @ + 1]) = SumFunction(f) + 1
  <2> DEFINE g == [f EXCEPT ![id] = @ + 1]
  <2>1. DOMAIN g = D /\ g[id] = f[id] + 1 /\ \A x \in D \ {id} : g[x] = f[x]
    BY <1>1
  <2> HIDE DEF g, D
  <2>2. \A x \in D : f[x] \in Int /\ g[x] \in Int
    BY <1>2, <2>1
  <2>3. SumFunctionOnSet(g, D) = (SumFunctionOnSet(f, D) - f[id]) + g[id]
    BY <1>1, <2>1, <2>2, SumChange
  <2>4. SumFunction(g) = SumFunctionOnSet(g, D)
    BY <2>1 DEF SumFunction
  <2>5. f[id] \in Int
    BY <1>2
  <2> QED
    BY <1>3, <1>4, <2>1, <2>3, <2>4, <2>5 DEF g
<1> QED
  BY <1>4, <1>5, <1>6

(* The flag of the replay means what it says. *)
LEMMA FlagKept ==
    ASSUME Program, sequence_order_valid <=> Ascending,
           \/ \E line \in Lines : LoadLine(line)
           \/ FileEnds
           \/ UNCHANGED replayVars
    PROVE  (sequence_order_valid <=> Ascending)'
<1>0. events \in Seq(ReplayEvents) /\ Len(events) \in Nat
  BY DEF Program
<1>1. ASSUME UNCHANGED <<events, sequence_order_valid>>
      PROVE  (sequence_order_valid <=> Ascending)'
  BY <1>1 DEF Ascending
<1>2. ASSUME NEW event, events' = Append(events, event),
             sequence_order_valid' = OrderFlag(event)
      PROVE  (sequence_order_valid <=> Ascending)'
  <2> DEFINE n == Len(events)
  <2>1. /\ Len(events') = n + 1 /\ events'[n + 1] = event
        /\ \A i \in 1 .. n : events'[i] = events[i]
    BY <1>0, <1>2
  <2>2. events # <<>> <=> n + 1 \in 2 .. (n + 1)
    BY <1>0
  <2>3. InOrder(event) <=> (n + 1 \in 2 .. (n + 1) => events[n].sequence < event.sequence)
    <3>1. event.sequence > events[n].sequence <=> events[n].sequence < event.sequence
      OBVIOUS
    <3> QED
      BY <2>2, <3>1 DEF InOrder
  <2>4. Ascending' <=> /\ \A i \in 2 .. n : events[i - 1].sequence < events[i].sequence
                       /\ n + 1 \in 2 .. (n + 1) => events[n].sequence < event.sequence
    <3>1. Ascending' <=> \A i \in 2 .. (n + 1) : events'[i - 1].sequence < events'[i].sequence
      BY <2>1 DEF Ascending
    <3>2. \A i \in 2 .. n : events'[i - 1] = events[i - 1] /\ events'[i] = events[i]
      BY <1>0, <2>1
    <3>3. n + 1 \in 2 .. (n + 1) => events'[(n + 1) - 1] = events[n]
      BY <1>0, <2>1
    <3>4. \A i \in 2 .. (n + 1) : i \in 2 .. n \/ i = n + 1
      BY <1>0
    <3>5. \A i \in 2 .. n : i \in 2 .. (n + 1)
      BY <1>0
    <3> HIDE DEF n
    <3> QED
      BY <2>1, <3>1, <3>2, <3>3, <3>4, <3>5
  <2> QED
    BY <1>2, <2>3, <2>4 DEF OrderFlag, Ascending
<1>3. ASSUME NEW line \in Lines, LoadLine(line) PROVE (sequence_order_valid <=> Ascending)'
  <2>1. \/ UNCHANGED <<events, sequence_order_valid>>
        \/ /\ events' = Append(events, Parsed(line))
           /\ sequence_order_valid' = OrderFlag(Parsed(line))
    BY <1>3 DEF LoadLine, ReadLine, replayVars
  <2> QED
    BY <1>1, <1>2, <2>1
<1>4. ASSUME generate_synthetic(SyntheticEvents) PROVE (sequence_order_valid <=> Ascending)'
  <2>1. /\ events' = [k \in 1 .. SyntheticEvents |-> Synthetic(k - 1)]
        /\ sequence_order_valid' = TRUE /\ SyntheticEvents \in Nat
    BY <1>4, PipelineAssumption DEF generate_synthetic
  <2>2. Len(events') = SyntheticEvents
    BY <2>1
  <2>3. ASSUME NEW i \in 2 .. SyntheticEvents
        PROVE  events'[i - 1].sequence < events'[i].sequence
    <3>1. i \in 1 .. SyntheticEvents /\ i - 1 \in 1 .. SyntheticEvents
      BY <2>1
    <3>2. events'[i] = Synthetic(i - 1) /\ events'[i - 1] = Synthetic((i - 1) - 1)
      BY <2>1, <3>1
    <3>3. \A j : Synthetic(j).sequence = j + 1
      BY DEF Synthetic
    <3> QED
      BY <3>1, <3>2, <3>3
  <2> QED
    BY <2>1, <2>2, <2>3 DEF Ascending
<1> QED
  BY <1>1, <1>3, <1>4 DEF FileEnds, replayVars

(* The numbers that are counted are numbers. *)
LEMMA CountedNumbers ==
    ASSUME FlowInv, RiskInv, Program, Tallied
    PROVE  /\ Len(orders) \in Nat /\ Len(ledger) \in Nat /\ Len(passed) \in Nat
           /\ cursor \in Nat /\ next_strategy_id \in Nat /\ Len(generated) \in Nat
           /\ fills \in Seq(Nat) /\ Len(fills) = Len(orders)
           /\ Cardinality(delivered) \in Nat /\ SumFunction(fills) \in Nat
           /\ \A c \in Counters : stats[c] \in Nat
           /\ \A s \in LatencyStages : latency[s] \in Nat
<1>1. fills \in Seq(Nat) /\ Len(fills) = Len(orders) /\ Len(orders) \in Nat
  BY DEF FlowInv, OInv, OrdersTypeOK
<1>2. Len(ledger) \in Nat
  BY DEF FlowInv, ExchangeInv
<1>3. Len(passed) \in Nat
  BY DEF RiskInv, RiskTypeOK
<1>4. cursor \in Nat /\ next_strategy_id \in Nat /\ Len(generated) \in Nat
  BY DEF Program
<1>5. Cardinality(delivered) \in Nat
  BY FS_CardinalityType DEF Tallied
<1>6. SumFunction(fills) \in Nat
  BY <1>1, FillCounts
<1>7. /\ \A c \in Counters : stats[c] \in Nat
      /\ \A s \in LatencyStages : latency[s] \in Nat
  BY DEF Tallied
<1> QED
  BY <1>1, <1>2, <1>3, <1>4, <1>5, <1>6, <1>7

(* Nothing is counted and nothing happens that counts. *)
LEMMA TallySame ==
    ASSUME Tallied, (sequence_order_valid <=> Ascending)', InLoop' = InLoop,
           UNCHANGED <<stats, latency, cursor, next_strategy_id, generated, passed, orders, fills,
                       delivered>>,
           Len(ledger') = Len(ledger)
    PROVE  Tallied'
BY DEF Tallied, CountsMatch

(* An event is taken, and the orders made of it are counted. *)
LEMMA TallyEvent ==
    ASSUME FlowInv, RiskInv, Program, Tallied, NextEvent,
           (sequence_order_valid <=> Ascending)', generated' \in Seq(Quotes)
    PROVE  Tallied'
<1> DEFINE n == Len(generated')
           more == Plus(stats, {"market_data_events"})
<1>1. n \in Nat /\ generated = <<>> /\ Len(generated) = 0
  BY DEF NextEvent
<1>2. /\ more \in [Counters -> Nat]
      /\ \A c \in Counters : more[c] = IF c \in {"market_data_events"} THEN stats[c] + 1 ELSE stats[c]
  BY PlusFacts DEF Tallied
<1>3. /\ cursor' = cursor + 1 /\ InLoop' = InLoop
      /\ UNCHANGED <<passed, orders, ledger, fills, delivered>>
      /\ cursor \in Nat /\ next_strategy_id \in Nat
  BY DEF NextEvent, InLoop, flowVars, handlerVars, orderVars, exchangeVars, riskVars, Program
<1>4. /\ stats' \in [Counters -> Nat]
      /\ stats'["market_data_events"] = stats["market_data_events"] + 1
      /\ stats'["strategy_orders_generated"] = stats["strategy_orders_generated"] + n
      /\ \A c \in Counters \ {"market_data_events", "strategy_orders_generated"} :
            stats'[c] = stats[c]
      /\ next_strategy_id' = next_strategy_id + n
  <2> HIDE DEF more, n
  <2>0. \A c \in Counters : stats[c] \in Nat
    BY DEF Tallied
  <2>1. CASE /\ stats' = [more EXCEPT !["strategy_orders_generated"] = @ + n]
             /\ next_strategy_id' = next_strategy_id + n
    BY <1>1, <1>2, <2>0, <2>1 DEF Counters
  <2>2. CASE stats' = more /\ UNCHANGED next_strategy_id /\ n = 0
    BY <1>2, <1>3, <2>0, <2>2 DEF Counters
  <2>3. \/ /\ stats' = [more EXCEPT !["strategy_orders_generated"] = @ + n]
           /\ next_strategy_id' = next_strategy_id + n
        \/ stats' = more /\ UNCHANGED next_strategy_id /\ n = 0
    BY <1>1 DEF NextEvent, AllocateIds, Count, more, n
  <2> QED
    BY <2>1, <2>2, <2>3
<1>5. /\ latency' \in [LatencyStages -> Nat]
      /\ \A s \in LatencyStages \ {"MarketDataToStrategy"} : latency'[s] = latency[s]
  <2>1. CASE UNCHANGED latency
    BY <2>1 DEF Tallied
  <2>2. CASE record({"MarketDataToStrategy"})
    BY <2>2, PlusFacts DEF record, Tallied
  <2> QED
    BY <2>1, <2>2 DEF NextEvent
<1> HIDE DEF n
<1>6. CountsMatch'
  <2>1. /\ stats'["market_data_events"] = cursor'
        /\ stats'["strategy_orders_generated"] = next_strategy_id' - 1
    BY <1>1, <1>3, <1>4 DEF Tallied, CountsMatch, Counters
  <2>2. stats'["strategy_orders_generated"] + InLoop' =
            stats'["risk_accepted_orders"] + stats'["risk_rejected_orders"] + n
    <3> DEFINE made == stats["strategy_orders_generated"]
               yes  == stats["risk_accepted_orders"]
               no   == stats["risk_rejected_orders"]
    <3>1. made \in Nat /\ yes \in Nat /\ no \in Nat
      BY DEF Tallied, Counters
    <3>2. made + InLoop = yes + no
      <4>1. made + InLoop = yes + no + Len(generated)
        BY DEF Tallied, CountsMatch
      <4> HIDE DEF made, yes, no
      <4> QED
        BY <1>1, <3>1, <4>1
    <3>3. /\ stats'["strategy_orders_generated"] = made + n
          /\ stats'["risk_accepted_orders"] = yes /\ stats'["risk_rejected_orders"] = no
      BY <1>4 DEF Counters
    <3>4. InLoop \in {0, 1} /\ InLoop' = InLoop
      BY <1>3 DEF InLoop
    <3> HIDE DEF made, yes, no
    <3> QED
      BY <1>1, <3>1, <3>2, <3>3, <3>4
  <2>3. /\ stats'["risk_accepted_orders"] = Len(orders')
        /\ stats'["risk_accepted_orders"] = Len(passed')
        /\ stats'["gateway_sent_orders"] = Len(ledger')
        /\ stats'["exchange_execution_reports"] = Cardinality(delivered')
        /\ stats'["fills"] = SumFunction(fills')
    BY <1>3, <1>4 DEF Tallied, CountsMatch, Counters
  <2>4. /\ latency'["StrategyToRisk"] =
              stats'["risk_accepted_orders"] + stats'["risk_rejected_orders"]
        /\ latency'["RiskToGateway"] = stats'["risk_accepted_orders"]
        /\ latency'["EndToEnd"] = stats'["gateway_sent_orders"] - InLoop'
    BY <1>3, <1>4, <1>5 DEF Tallied, CountsMatch, Counters, LatencyStages
  <2> QED
    BY <2>1, <2>2, <2>3, <2>4 DEF CountsMatch, n
<1> QED
  BY <1>3, <1>4, <1>5, <1>6 DEF Tallied

(* By how much a counter goes up. *)
Tick(b) == IF b THEN 1 ELSE 0

(* The sums of the counters, when each moves by at most one. *)
LEMMA OrdersAddUp ==
    ASSUME NEW made \in Nat, NEW yes \in Nat, NEW no \in Nat, NEW left \in Nat,
           NEW next \in Nat, NEW a \in {0, 1}, NEW b \in {0, 1}, NEW old \in {0, 1},
           NEW new \in {0, 1}, made + old = yes + no + left, next + a + b + old = left + new
    PROVE  made + new = (yes + a) + (no + b) + next
OBVIOUS

(* The same for the orders that are done. *)
LEMMA DoneAddUp ==
    ASSUME NEW done \in Nat, NEW sent \in Nat, NEW s \in {0, 1}, NEW e \in {0, 1},
           NEW old \in {0, 1}, NEW new \in {0, 1}, done = sent - old, e + new = s + old
    PROVE  done + e = (sent + s) - new
OBVIOUS

(* One step of the loop over the orders: what happens is what is counted. *)
LEMMA TallyMoves ==
    ASSUME FlowInv, RiskInv, Program, Tallied, UNCHANGED <<replayVars, cursor, next_strategy_id>>,
           NEW names, stats' = Plus(stats, names),
           "market_data_events" \notin names, "strategy_orders_generated" \notin names,
           NEW stages, latency' = Plus(latency, stages),
           Len(orders') = Len(orders) + Tick("risk_accepted_orders" \in names),
           Len(passed') = Len(passed) + Tick("risk_accepted_orders" \in names),
           Len(ledger') = Len(ledger) + Tick("gateway_sent_orders" \in names),
           IsFiniteSet(delivered'),
           Cardinality(delivered') =
              Cardinality(delivered) + Tick("exchange_execution_reports" \in names),
           SumFunction(fills') = SumFunction(fills) + Tick("fills" \in names),
           Len(generated') \in Nat,
           Len(generated') + Tick("risk_accepted_orders" \in names)
              + Tick("risk_rejected_orders" \in names) + InLoop = Len(generated) + InLoop',
           Tick("StrategyToRisk" \in stages) =
              Tick("risk_accepted_orders" \in names) + Tick("risk_rejected_orders" \in names),
           Tick("RiskToGateway" \in stages) = Tick("risk_accepted_orders" \in names),
           Tick("EndToEnd" \in stages) + InLoop' = Tick("gateway_sent_orders" \in names) + InLoop
    PROVE  Tallied'
<1> DEFINE a == Tick("risk_accepted_orders" \in names)
           b == Tick("risk_rejected_orders" \in names)
           s == Tick("gateway_sent_orders" \in names)
           x == Tick("exchange_execution_reports" \in names)
           f == Tick("fills" \in names)
           e == Tick("EndToEnd" \in stages)
           old == InLoop
           new == InLoop'
<1>1. /\ a \in {0, 1} /\ b \in {0, 1} /\ s \in {0, 1} /\ x \in {0, 1} /\ f \in {0, 1}
      /\ e \in {0, 1} /\ old \in {0, 1} /\ new \in {0, 1}
  BY DEF Tick, InLoop
<1>2. /\ stats' \in [Counters -> Nat]
      /\ \A c \in Counters : stats'[c] = stats[c] + Tick(c \in names)
      /\ \A c \in Counters : stats[c] \in Nat
  <2>1. /\ Plus(stats, names) \in [Counters -> Nat]
        /\ \A c \in Counters : Plus(stats, names)[c] = IF c \in names THEN stats[c] + 1 ELSE stats[c]
    BY PlusFacts DEF Tallied
  <2>2. \A c \in Counters : stats[c] \in Nat
    BY DEF Tallied
  <2> QED
    BY <2>1, <2>2 DEF Tick
<1>3. /\ latency' \in [LatencyStages -> Nat]
      /\ \A c \in LatencyStages : latency'[c] = latency[c] + Tick(c \in stages)
      /\ \A c \in LatencyStages : latency[c] \in Nat
  <2>1. /\ Plus(latency, stages) \in [LatencyStages -> Nat]
        /\ \A c \in LatencyStages :
              Plus(latency, stages)[c] = IF c \in stages THEN latency[c] + 1 ELSE latency[c]
    BY PlusFacts DEF Tallied
  <2>2. \A c \in LatencyStages : latency[c] \in Nat
    BY DEF Tallied
  <2> QED
    BY <2>1, <2>2 DEF Tick
<1>4. (sequence_order_valid <=> Ascending)'
  <2>1. sequence_order_valid <=> Ascending
    BY DEF Tallied, CountsMatch
  <2> QED
    BY <2>1, FlagKept
<1> DEFINE made == stats["strategy_orders_generated"]
           yes  == stats["risk_accepted_orders"]
           no   == stats["risk_rejected_orders"]
           sent == stats["gateway_sent_orders"]
           got  == stats["exchange_execution_reports"]
           full == stats["fills"]
           risk == latency["StrategyToRisk"]
           gate == latency["RiskToGateway"]
           done == latency["EndToEnd"]
<1>5. /\ made \in Nat /\ yes \in Nat /\ no \in Nat /\ sent \in Nat /\ got \in Nat /\ full \in Nat
      /\ risk \in Nat /\ gate \in Nat /\ done \in Nat
  BY <1>2, <1>3 DEF Counters, LatencyStages
<1>6. /\ stats'["market_data_events"] = stats["market_data_events"]
      /\ stats'["strategy_orders_generated"] = made
  <2>1. Tick("market_data_events" \in names) = 0 /\ Tick("strategy_orders_generated" \in names) = 0
    BY DEF Tick
  <2>2. stats["market_data_events"] \in Nat
    BY <1>2 DEF Counters
  <2>3. stats'["market_data_events"] = stats["market_data_events"] + Tick("market_data_events" \in names)
    BY <1>2 DEF Counters
  <2>4. made \in Nat /\ stats'["strategy_orders_generated"] = made + Tick("strategy_orders_generated" \in names)
    BY <1>2 DEF Counters
  <2> QED
    BY <2>1, <2>2, <2>3, <2>4
<1>7. /\ stats'["risk_accepted_orders"] = yes + a
      /\ stats'["risk_rejected_orders"] = no + b
      /\ stats'["gateway_sent_orders"] = sent + s
      /\ stats'["exchange_execution_reports"] = got + x
      /\ stats'["fills"] = full + f
  BY <1>2 DEF Counters
<1>8. /\ latency'["StrategyToRisk"] = risk + (a + b)
      /\ latency'["RiskToGateway"] = gate + a
      /\ latency'["EndToEnd"] = done + e
  BY <1>3 DEF LatencyStages
<1>9. /\ made + old = yes + no + Len(generated)
      /\ yes = Len(orders) /\ yes = Len(passed) /\ sent = Len(ledger)
      /\ got = Cardinality(delivered) /\ full = SumFunction(fills)
      /\ risk = yes + no /\ gate = yes /\ done = sent - old
      /\ stats["market_data_events"] = cursor /\ made = next_strategy_id - 1
  BY DEF Tallied, CountsMatch
<1>10. Len(generated) \in Nat
  BY CountedNumbers
<1>11. /\ Len(generated') + a + b + old = Len(generated) + new /\ e + new = s + old
       /\ Len(orders') = Len(orders) + a /\ Len(passed') = Len(passed) + a
       /\ Len(ledger') = Len(ledger) + s
       /\ Cardinality(delivered') = Cardinality(delivered) + x
       /\ SumFunction(fills') = SumFunction(fills) + f
  OBVIOUS
<1> HIDE DEF a, b, s, x, f, e, old, made, yes, no, sent, got, full, risk, gate, done
<1>12. made + new = (yes + a) + (no + b) + Len(generated')
  <2>1. made + old = yes + no + Len(generated)
    BY <1>9
  <2>2. Len(generated') + a + b + old = Len(generated) + new /\ Len(generated') \in Nat
    BY <1>11
  <2>3. made \in Nat /\ yes \in Nat /\ no \in Nat
    BY <1>5
  <2>4. a \in {0, 1} /\ b \in {0, 1} /\ old \in {0, 1} /\ new \in {0, 1}
    BY <1>1
  <2> DEFINE next == Len(generated')
             left == Len(generated)
  <2> HIDE DEF new, next, left
  <2> QED
    BY <1>10, <2>1, <2>2, <2>3, <2>4, OrdersAddUp DEF next, left
<1>13. risk + (a + b) = (yes + a) + (no + b) /\ gate + a = yes + a
  BY <1>1, <1>5, <1>9
<1>14. done + e = (sent + s) - new
  <2>1. done = sent - old
    BY <1>9
  <2>2. e + new = s + old
    BY <1>11
  <2>3. done \in Nat /\ sent \in Nat
    BY <1>5
  <2>4. s \in {0, 1} /\ e \in {0, 1} /\ old \in {0, 1} /\ new \in {0, 1}
    BY <1>1
  <2> HIDE DEF new
  <2> QED
    BY DoneAddUp, <2>4, <2>1, <2>2, <2>3
<1>15. CountsMatch'
  <2>1. /\ stats'["market_data_events"] = cursor'
        /\ stats'["strategy_orders_generated"] = next_strategy_id' - 1
    BY <1>6, <1>9
  <2>2. stats'["strategy_orders_generated"] + InLoop' =
            stats'["risk_accepted_orders"] + stats'["risk_rejected_orders"] + Len(generated')
    BY <1>6, <1>7, <1>12 DEF new
  <2>3. /\ stats'["risk_accepted_orders"] = Len(orders')
        /\ stats'["risk_accepted_orders"] = Len(passed')
        /\ stats'["gateway_sent_orders"] = Len(ledger')
        /\ stats'["exchange_execution_reports"] = Cardinality(delivered')
        /\ stats'["fills"] = SumFunction(fills')
    BY <1>7, <1>9, <1>11
  <2>4. /\ latency'["StrategyToRisk"] =
              stats'["risk_accepted_orders"] + stats'["risk_rejected_orders"]
        /\ latency'["RiskToGateway"] = stats'["risk_accepted_orders"]
        /\ latency'["EndToEnd"] = stats'["gateway_sent_orders"] - InLoop'
    BY <1>7, <1>8, <1>13, <1>14 DEF new
  <2> QED
    BY <1>4, <2>1, <2>2, <2>3, <2>4 DEF CountsMatch
<1> QED
  BY <1>2, <1>3, <1>15 DEF Tallied

(* What an order adds to the OMS. *)
LEMMA OrderAdded ==
    ASSUME FlowInv, NEW order, CreateAndSubmit(order)
    PROVE  /\ Len(orders') = Len(orders) + 1
           /\ SumFunction(fills') = SumFunction(fills) /\ delivered' = delivered
<1>1. orders \in Seq(OrderType) /\ fills \in Seq(Nat)
  BY DEF FlowInv, OInv, OrdersTypeOK
<1>2. SumFunction(Append(fills, 0)) = SumFunction(fills)
  BY <1>1, FillCounts
<1> QED
  BY <1>1, <1>2 DEF CreateAndSubmit

(* An order that risk takes is noted. *)
LEMMA OrderPassed ==
    ASSUME RiskInv, ConsiderOrder
    PROVE  /\ RiskAccepts(Head(generated)) => Len(passed') = Len(passed) + 1
           /\ ~RiskAccepts(Head(generated)) => passed' = passed
<1> DEFINE quote == Head(generated)
           inside == InsideLimits(quote, positions[quote.symbol].quantity, Market(quote))
<1>1. IF inside THEN Accepted(now) \/ RateExceeded(now) ELSE UNCHANGED riskVars
  BY DEF ConsiderOrder, validate, Validate
<1>2. RiskAccepts(quote) <=> inside /\ order_rate_available(now)
  BY DEF RiskAccepts
<1> HIDE DEF inside, quote
<1>3. ASSUME RiskAccepts(quote) PROVE Len(passed') = Len(passed) + 1
  <2>1. Accepted(now)
    BY <1>1, <1>2, <1>3 DEF RateExceeded
  <2> DEFINE opens == CountedAt(now) = 0
  <2>2. passed' = Append(passed, [time |-> now, opens |-> opens])
    BY <2>1 DEF Accepted
  <2>3. passed \in Seq([time : Timestamps, opens : BOOLEAN])
    BY DEF RiskInv, RiskTypeOK
  <2> HIDE DEF opens
  <2> QED
    BY <2>2, <2>3
<1>4. ASSUME ~RiskAccepts(quote) PROVE passed' = passed
  BY <1>1, <1>2, <1>4 DEF RateExceeded, Accepted, riskVars
<1> QED
  BY <1>3, <1>4 DEF quote

(* An order of the strategy is considered: sent, refused or rejected. *)
LEMMA TallyConsider ==
    ASSUME FlowInv, RiskInv, Program, Balanced, Tallied, ConsiderOrder
    PROVE  Tallied'
<1> DEFINE quote == Head(generated)
           order == Order(quote.symbol, quote.side, quote.price, quote.quantity)
<1>1. /\ generated # <<>> /\ Len(generated) \in Nat
      /\ Len(Tail(generated)) = Len(generated) - 1 /\ InLoop = 0
      /\ Len(Tail(generated)) \in Nat
  <2>1. at = "orders"
    BY DEF ConsiderOrder
  <2> QED
    BY <2>1, Considered DEF InLoop
<1>2. /\ Len(orders) \in Nat /\ Len(ledger) \in Nat /\ Len(passed) \in Nat
      /\ IsFiniteSet(delivered) /\ SumFunction(fills) \in Nat /\ Cardinality(delivered) \in Nat
  BY CountedNumbers DEF Tallied
<1>3. UNCHANGED <<replayVars, cursor, next_strategy_id>>
  BY DEF ConsiderOrder
<1>4. /\ RiskAccepts(quote) => Len(passed') = Len(passed) + 1
      /\ ~RiskAccepts(quote) => passed' = passed
  BY OrderPassed
<1>5. CASE RiskAccepts(quote) /\ SendNew(order) /\ at' = "sent" /\ UNCHANGED generated
           /\ Count({"risk_accepted_orders", "gateway_sent_orders"})
           /\ record({"StrategyToRisk", "RiskToGateway"})
  <2> DEFINE names == {"risk_accepted_orders", "gateway_sent_orders"}
             stages == {"StrategyToRisk", "RiskToGateway"}
  <2>1. /\ Tick("risk_accepted_orders" \in names) = 1
        /\ Tick("risk_rejected_orders" \in names) = 0
        /\ Tick("gateway_sent_orders" \in names) = 1
        /\ Tick("exchange_execution_reports" \in names) = 0 /\ Tick("fills" \in names) = 0
        /\ "market_data_events" \notin names /\ "strategy_orders_generated" \notin names
        /\ Tick("StrategyToRisk" \in stages) = 1 /\ Tick("RiskToGateway" \in stages) = 1
        /\ Tick("EndToEnd" \in stages) = 0
    BY DEF Tick
  <2>2. stats' = Plus(stats, names) /\ latency' = Plus(latency, stages)
    BY <1>5 DEF Count, record
  <2>3. /\ Len(orders') = Len(orders) + 1
        /\ SumFunction(fills') = SumFunction(fills) /\ delivered' = delivered
    BY <1>5, OrderAdded DEF SendNew
  <2>4. Len(ledger') = Len(ledger) + 1
    <3>1. PICK r : Accept(r)
      BY <1>5, SendFacts
    <3> DEFINE row == [client |-> r.client, side |-> r.side, quantity |-> r.quantity,
                       reported |-> 0, canceled |-> 0]
    <3>2. ledger' = Append(ledger, row)
      BY <3>1 DEF Accept
    <3>3. ledger \in Seq(Row)
      BY DEF FlowInv, ExchangeInv
    <3> HIDE DEF row
    <3> QED
      BY <3>2, <3>3
  <2>5. InLoop' = 1 /\ generated' = generated /\ Len(passed') = Len(passed) + 1
    BY <1>4, <1>5 DEF InLoop
  <2> HIDE DEF names, stages, quote, order
  <2> QED
    BY <1>1, <1>2, <1>3, <2>1, <2>2, <2>3, <2>4, <2>5, TallyMoves
<1>6. CASE RiskAccepts(quote) /\ RefuseNew(order) /\ Count({"risk_accepted_orders"}) /\ Continue
           /\ record({"StrategyToRisk", "RiskToGateway"})
  <2> DEFINE names == {"risk_accepted_orders"}
             stages == {"StrategyToRisk", "RiskToGateway"}
  <2>1. /\ Tick("risk_accepted_orders" \in names) = 1
        /\ Tick("risk_rejected_orders" \in names) = 0
        /\ Tick("gateway_sent_orders" \in names) = 0
        /\ Tick("exchange_execution_reports" \in names) = 0 /\ Tick("fills" \in names) = 0
        /\ "market_data_events" \notin names /\ "strategy_orders_generated" \notin names
        /\ Tick("StrategyToRisk" \in stages) = 1 /\ Tick("RiskToGateway" \in stages) = 1
        /\ Tick("EndToEnd" \in stages) = 0
    BY DEF Tick
  <2>2. stats' = Plus(stats, names) /\ latency' = Plus(latency, stages)
    BY <1>6 DEF Count, record
  <2>3. /\ Len(orders') = Len(orders) + 1
        /\ SumFunction(fills') = SumFunction(fills) /\ delivered' = delivered
    BY <1>6, OrderAdded DEF RefuseNew
  <2>4. ledger' = ledger
    BY <1>6 DEF RefuseNew, exchangeVars
  <2>5. InLoop' = 0 /\ generated' = Tail(generated) /\ Len(passed') = Len(passed) + 1
    BY <1>1, <1>4, <1>6 DEF InLoop, Continue
  <2> HIDE DEF names, stages, quote, order
  <2> QED
    BY <1>1, <1>2, <1>3, <2>1, <2>2, <2>3, <2>4, <2>5, TallyMoves
<1>7. CASE ~RiskAccepts(quote) /\ Count({"risk_rejected_orders"}) /\ Continue
           /\ record({"StrategyToRisk"}) /\ UNCHANGED flowVars
  <2> DEFINE names == {"risk_rejected_orders"}
             stages == {"StrategyToRisk"}
  <2>1. /\ Tick("risk_accepted_orders" \in names) = 0
        /\ Tick("risk_rejected_orders" \in names) = 1
        /\ Tick("gateway_sent_orders" \in names) = 0
        /\ Tick("exchange_execution_reports" \in names) = 0 /\ Tick("fills" \in names) = 0
        /\ "market_data_events" \notin names /\ "strategy_orders_generated" \notin names
        /\ Tick("StrategyToRisk" \in stages) = 1 /\ Tick("RiskToGateway" \in stages) = 0
        /\ Tick("EndToEnd" \in stages) = 0
    BY DEF Tick
  <2>2. stats' = Plus(stats, names) /\ latency' = Plus(latency, stages)
    BY <1>7 DEF Count, record
  <2>3. UNCHANGED <<orders, fills, delivered, ledger>>
    BY <1>7 DEF flowVars, handlerVars, orderVars, exchangeVars
  <2>4. InLoop' = 0 /\ generated' = Tail(generated) /\ passed' = passed
    BY <1>1, <1>4, <1>7 DEF InLoop, Continue
  <2>5. Len(generated') \in Nat /\ Len(generated') + 1 = Len(generated)
    BY <1>1, <2>4
  <2>6. InLoop = 0 /\ InLoop' = 0 /\ Len(passed') = Len(passed) /\ Len(orders') = Len(orders)
        /\ Len(ledger') = Len(ledger) /\ SumFunction(fills') = SumFunction(fills)
        /\ delivered' = delivered
    BY <1>1, <2>3, <2>4
  <2> HIDE DEF names, stages, quote, order
  <2> QED
    BY <1>2, <1>3, <2>1, <2>2, <2>5, <2>6, TallyMoves
<1> QED
  BY <1>5, <1>6, <1>7 DEF ConsiderOrder, CreateAndSend

(* The exchange has returned. *)
LEMMA TallyAnswers ==
    ASSUME FlowInv, RiskInv, Program, Tallied, ExchangeAnswers
    PROVE  Tallied'
<1> DEFINE names == {}
           stages == {"GatewayToExecutionReport"}
<1>1. /\ Len(orders) \in Nat /\ Len(ledger) \in Nat /\ Len(passed) \in Nat
      /\ IsFiniteSet(delivered) /\ SumFunction(fills) \in Nat /\ Cardinality(delivered) \in Nat
      /\ Len(generated) \in Nat
  BY CountedNumbers DEF Tallied
<1>2. /\ UNCHANGED <<replayVars, cursor, next_strategy_id, generated, passed>>
      /\ InLoop = 1 /\ InLoop' = 1
  BY DEF ExchangeAnswers, riskVars, InLoop
<1>3. UNCHANGED <<orders, fills, delivered, ledger>>
  BY DEF ExchangeAnswers, ExchangeReturns, Finish, flowVars, handlerVars, orderVars, exchangeVars
<1>4. /\ Tick("risk_accepted_orders" \in names) = 0
      /\ Tick("risk_rejected_orders" \in names) = 0
      /\ Tick("gateway_sent_orders" \in names) = 0
      /\ Tick("exchange_execution_reports" \in names) = 0 /\ Tick("fills" \in names) = 0
      /\ "market_data_events" \notin names /\ "strategy_orders_generated" \notin names
      /\ Tick("StrategyToRisk" \in stages) = 0 /\ Tick("RiskToGateway" \in stages) = 0
      /\ Tick("EndToEnd" \in stages) = 0
  BY DEF Tick
<1>5. stats' = Plus(stats, names)
  BY DEF ExchangeAnswers, Plus, Tallied
<1>6. latency' = Plus(latency, stages)
  BY DEF ExchangeAnswers, record
<1> HIDE DEF names, stages
<1> QED
  BY <1>1, <1>2, <1>3, <1>4, <1>5, <1>6, TallyMoves

(* The last report of an order has been handled. *)
LEMMA TallyDone ==
    ASSUME FlowInv, RiskInv, Program, Tallied, OrderDone
    PROVE  Tallied'
<1> DEFINE names == {}
           stages == {"EndToEnd"}
<1>1. /\ Len(orders) \in Nat /\ Len(ledger) \in Nat /\ Len(passed) \in Nat
      /\ IsFiniteSet(delivered) /\ SumFunction(fills) \in Nat /\ Cardinality(delivered) \in Nat
      /\ Len(generated) \in Nat
  BY CountedNumbers DEF Tallied
<1>2. /\ UNCHANGED <<replayVars, cursor, next_strategy_id, passed, orders, fills, delivered, ledger>>
      /\ InLoop = 1 /\ InLoop' = 0 /\ generated' = Tail(generated)
  BY DEF OrderDone, NextOrder, riskVars, InLoop, flowVars, handlerVars, orderVars, exchangeVars
<1>3. Len(Tail(generated)) = Len(generated) - 1 /\ Len(Tail(generated)) \in Nat
  <2>1. generated # <<>> /\ generated \in Seq(Quotes)
    BY DEF OrderDone, Program
  <2> QED
    BY <2>1
<1>4. /\ Tick("risk_accepted_orders" \in names) = 0
      /\ Tick("risk_rejected_orders" \in names) = 0
      /\ Tick("gateway_sent_orders" \in names) = 0
      /\ Tick("exchange_execution_reports" \in names) = 0 /\ Tick("fills" \in names) = 0
      /\ "market_data_events" \notin names /\ "strategy_orders_generated" \notin names
      /\ Tick("StrategyToRisk" \in stages) = 0 /\ Tick("RiskToGateway" \in stages) = 0
      /\ Tick("EndToEnd" \in stages) = 1
  BY DEF Tick
<1>5. stats' = Plus(stats, names)
  BY DEF OrderDone, Plus, Tallied
<1>6. latency' = Plus(latency, stages)
  BY DEF OrderDone, record
<1>7. Len(generated') \in Nat /\ Len(generated') + 1 = Len(generated)
  BY <1>1, <1>2, <1>3
<1>8. /\ Len(passed') = Len(passed) /\ Len(orders') = Len(orders) /\ Len(ledger') = Len(ledger)
      /\ SumFunction(fills') = SumFunction(fills) /\ delivered' = delivered
      /\ InLoop = 1 /\ InLoop' = 0 /\ UNCHANGED <<replayVars, cursor, next_strategy_id>>
  BY <1>2
<1> HIDE DEF names, stages
<1>9. /\ Len(orders') = Len(orders) + Tick("risk_accepted_orders" \in names)
      /\ Len(passed') = Len(passed) + Tick("risk_accepted_orders" \in names)
      /\ Len(ledger') = Len(ledger) + Tick("gateway_sent_orders" \in names)
      /\ SumFunction(fills') = SumFunction(fills) + Tick("fills" \in names)
      /\ IsFiniteSet(delivered')
      /\ Cardinality(delivered') =
            Cardinality(delivered) + Tick("exchange_execution_reports" \in names)
  BY <1>1, <1>4, <1>8
<1>10. Len(generated') + Tick("risk_accepted_orders" \in names)
          + Tick("risk_rejected_orders" \in names) + InLoop = Len(generated) + InLoop'
  BY <1>1, <1>4, <1>7, <1>8
<1>11. Tick("EndToEnd" \in stages) + InLoop' = Tick("gateway_sent_orders" \in names) + InLoop
  BY <1>4, <1>8
<1> QED
  BY <1>4, <1>5, <1>6, <1>7, <1>8, <1>9, <1>10, <1>11, TallyMoves

(* What a handled report adds to the fills of its order. *)
LEMMA FillCounted ==
    ASSUME FlowInv, NEW r, r.client \in ClientIds, Update(r)
    PROVE  SumFunction(fills') = SumFunction(fills) + Tick(IsFill(r))
<1>1. fills \in Seq(Nat) /\ r.client \in 1 .. Len(fills)
  BY DEF FlowInv, OInv, OrdersTypeOK, ClientIds
<1>2. SumFunction(fills) \in Nat
  BY <1>1, FillCounts
<1>3. CASE IsFill(r)
  <2>1. fills' = [fills EXCEPT ![r.client] = @ + 1]
    BY <1>3 DEF Update, IsFill, on_partial_fill, on_fill, ApplyFillEvent
  <2>2. SumFunction([fills EXCEPT ![r.client] = @ + 1]) = SumFunction(fills) + 1
    BY <1>1, FillCounts
  <2> QED
    BY <1>3, <2>1, <2>2 DEF Tick
<1>4. CASE ~IsFill(r)
  <2>1. fills' = fills
    BY <1>4 DEF Update, IsFill, on_new_ack, on_new_reject, on_cancel_ack, on_cancel_reject,
                apply_event
  <2> QED
    BY <1>2, <1>4, <2>1 DEF Tick
<1> QED
  BY <1>3, <1>4

(* A report is handled: it is a new one, and never a rejected cancel. *)
LEMMA TallyHandle ==
    ASSUME FlowInv, KeysDistinct, RiskInv, Program, Balanced, Tallied, HandleReport
    PROVE  Tallied'
<1> DEFINE r == Head(wire)
           names == {"exchange_execution_reports"} \cup IF IsFill(r) THEN {"fills"} ELSE {}
           stages == {}
<1>1. /\ Len(orders) \in Nat /\ Len(ledger) \in Nat /\ Len(passed) \in Nat
      /\ IsFiniteSet(delivered) /\ SumFunction(fills) \in Nat /\ Cardinality(delivered) \in Nat
      /\ Len(generated) \in Nat
  BY CountedNumbers DEF Tallied
<1>2. /\ UNCHANGED <<replayVars, cursor, next_strategy_id, generated, passed>>
      /\ InLoop = 1 /\ InLoop' = 1
  BY DEF HandleReport, riskVars, InLoop
<1>3. /\ wire # <<>> /\ work = Idle /\ on_report(r) /\ ledger' = ledger
      /\ delivered' = delivered \cup {r}
  BY DEF HandleReport, TakesReport, Deliver, exchangeVars
<1>4. InTransit = wire /\ r = wire[1]
  BY <1>3 DEF InTransit
<1>5. r.type # "CancelReject"
  BY <1>3, <1>4 DEF Balanced, Answer, Pair, FillsWhole, IsFill
<1> HIDE DEF r
<1>6. r.client \in ClientIds /\ r \notin delivered /\ Update(r)
  BY <1>3, <1>4, <1>5, HeadUpdate
<1>7. SumFunction(fills') = SumFunction(fills) + Tick(IsFill(r))
  BY <1>6, FillCounted
<1>8. IsFiniteSet(delivered') /\ Cardinality(delivered') = Cardinality(delivered) + 1
  BY <1>1, <1>3, <1>6, FS_AddElement
<1>9. Len(orders') = Len(orders)
  BY <1>3, <1>4, HeadDelivered
<1>10. /\ Tick("risk_accepted_orders" \in names) = 0
       /\ Tick("risk_rejected_orders" \in names) = 0
       /\ Tick("gateway_sent_orders" \in names) = 0
       /\ Tick("exchange_execution_reports" \in names) = 1
       /\ Tick("fills" \in names) = Tick(IsFill(r))
       /\ "market_data_events" \notin names /\ "strategy_orders_generated" \notin names
       /\ Tick("StrategyToRisk" \in stages) = 0 /\ Tick("RiskToGateway" \in stages) = 0
       /\ Tick("EndToEnd" \in stages) = 0
  BY DEF Tick
<1>11. stats' = Plus(stats, names)
  BY DEF HandleReport, Count, r
<1>12. latency' = Plus(latency, stages)
  BY DEF HandleReport, Plus, Tallied
<1> HIDE DEF names, stages
<1>13. /\ Len(orders') = Len(orders) + Tick("risk_accepted_orders" \in names)
       /\ Len(passed') = Len(passed) + Tick("risk_accepted_orders" \in names)
       /\ Len(ledger') = Len(ledger) + Tick("gateway_sent_orders" \in names)
       /\ IsFiniteSet(delivered')
       /\ Cardinality(delivered') =
             Cardinality(delivered) + Tick("exchange_execution_reports" \in names)
  BY <1>1, <1>2, <1>3, <1>8, <1>9, <1>10
<1>14. SumFunction(fills') = SumFunction(fills) + Tick("fills" \in names)
  BY <1>7, <1>10
<1>15. Len(generated') + Tick("risk_accepted_orders" \in names)
          + Tick("risk_rejected_orders" \in names) + InLoop = Len(generated) + InLoop'
  BY <1>1, <1>2, <1>10
<1>16. Tick("EndToEnd" \in stages) + InLoop' = Tick("gateway_sent_orders" \in names) + InLoop
  BY <1>2, <1>10
<1> QED
  BY <1>1, <1>2, <1>10, <1>11, <1>12, <1>13, <1>14, <1>15, <1>16, TallyMoves

(* The summary stays honest. *)
LEMMA TalliedKept ==
    ASSUME FlowInv, KeysDistinct, RiskInv, Program, Program', Balanced, Tallied,
           [SimNext]_simVars
    PROVE  Tallied'
<1>1. sequence_order_valid <=> Ascending
  BY DEF Tallied, CountsMatch
<1>2. CASE (\E line \in Lines : LoadLine(line)) \/ FileEnds \/ UNCHANGED simVars
  <2>1. (sequence_order_valid <=> Ascending)'
    <3>1. UNCHANGED simVars => UNCHANGED replayVars
      BY DEF simVars
    <3> QED
      BY <1>1, <1>2, <3>1, FlagKept
  <2>2. /\ UNCHANGED <<stats, latency, cursor, next_strategy_id, generated, passed, orders, fills,
                       delivered>>
        /\ Len(ledger') = Len(ledger) /\ InLoop' = InLoop
    BY <1>2 DEF LoadLine, FileEnds, simVars, flowVars, handlerVars, orderVars, exchangeVars,
                riskVars, InLoop
  <2> QED
    BY <2>1, <2>2, TallySame
<1>3. CASE NextEvent
  <2>1. UNCHANGED replayVars
    BY <1>3 DEF NextEvent
  <2>2. (sequence_order_valid <=> Ascending)'
    BY <1>1, <2>1, FlagKept
  <2>3. generated' \in Seq(Quotes)
    BY DEF Program
  <2> QED
    BY <1>3, <2>2, <2>3, TallyEvent
<1>4. CASE ExchangeMatchesOrder
  <2>1. UNCHANGED replayVars
    BY <1>4 DEF ExchangeMatchesOrder
  <2>2. (sequence_order_valid <=> Ascending)'
    BY <1>1, <2>1, FlagKept
  <2>3. Match /\ ExchangeInv
    BY <1>4 DEF ExchangeMatchesOrder, ExchangeMatches, FlowInv
  <2>4. Len(ledger') = Len(ledger)
    BY <2>3, MatchLedger DEF SameOrders
  <2>5. /\ UNCHANGED <<stats, latency, cursor, next_strategy_id, generated, passed, orders, fills,
                       delivered>>
        /\ InLoop' = InLoop
    BY <1>4 DEF ExchangeMatchesOrder, ExchangeMatches, handlerVars, orderVars, riskVars, InLoop
  <2> QED
    BY <2>2, <2>4, <2>5, TallySame
<1> QED
  BY <1>2, <1>3, <1>4, TallyConsider, TallyAnswers, TallyHandle, TallyDone DEF SimNext

-----------------------------------------------------------------------------
(* The invariant.                                                          *)

(* It holds before the replay is loaded. *)
LEMMA InitSimInv == SimInit => SimInv
<1> SUFFICES ASSUME SimInit PROVE SimInv
  OBVIOUS
<1>1. FlowInv /\ BookInv /\ RiskInv
  <2>1. BookInit => BookInv
    BY EmptyBook DEF BookInit, BookInv, Listed
  <2> QED
    BY <2>1, InitFlowInv, RiskStart DEF SimInit
<1>2. /\ orders = <<>> /\ fills = <<>> /\ ledger = <<>> /\ wire = <<>> /\ work = Idle
      /\ delivered = {} /\ passed = <<>> /\ positions = [s \in Symbols |-> Flat]
      /\ book = [d \in BookSides |-> EmptyMap]
  BY FlowAssumption DEF SimInit, FlowInit, HandlerInit, OrdersInit, PositionsInit, ExchangeInit,
                        RiskInit
<1>3. /\ at = "loading" /\ cursor = 0 /\ generated = <<>> /\ events = <<>>
      /\ next_strategy_id = 1 /\ invalid_line_count = 0 /\ sequence_order_valid = TRUE
      /\ stats = [c \in Counters |-> 0] /\ latency = [s \in LatencyStages |-> 0]
  BY DEF SimInit, StrategyInit, ReplayInit
<1>4. Program
  BY <1>2, <1>3 DEF Program
<1>5. Sent
  BY <1>2 DEF Sent
<1>6. Whole
  <2>1. ASSUME NEW r \in Resting PROVE FALSE
    <3>1. r.order.exch \in 1 .. Len(ledger)
      BY <1>1, RestingIds DEF FlowInv
    <3> QED
      BY <1>2, <3>1
  <2> QED
    BY <1>2, <2>1 DEF Whole
<1>7. Balanced
  BY <1>2 DEF Balanced, AllUntouched, Untouched, Flat
<1>8. Tallied
  <2>1. Len(orders) = 0 /\ Len(passed) = 0 /\ Len(ledger) = 0 /\ Len(generated) = 0
    BY <1>2, <1>3
  <2>2. IsFiniteSet(delivered) /\ Cardinality(delivered) = 0
    BY <1>2, FS_EmptySet
  <2>3. SumFunction(fills) = 0
    <3>1. DOMAIN fills = {}
      BY <1>2
    <3> QED
      BY <3>1, SumEmpty DEF SumFunction
  <2>4. Ascending
    BY <1>3 DEF Ascending
  <2>5. /\ \A c \in Counters : stats[c] = 0
        /\ \A s \in LatencyStages : latency[s] = 0
    BY <1>3
  <2>6. InLoop = 0
    BY <1>3 DEF InLoop
  <2>7. CountsMatch
    BY <1>3, <2>1, <2>2, <2>3, <2>4, <2>5, <2>6 DEF CountsMatch, Counters, LatencyStages
  <2> QED
    BY <1>3, <2>2, <2>7 DEF Tallied
<1> QED
  BY <1>1, <1>4, <1>5, <1>6, <1>7, <1>8 DEF SimInv

(* While it holds, the report keys tell the orders apart, and a batch has     *)
(* room for what is pushed to it.                                          *)
LEMMA SimKeys ==
    ASSUME MaxReports >= 3, MaxAccepted <= 106, SimInv
    PROVE  KeysDistinct /\ BatchFits
<1>1. ExchangeInv /\ Room /\ Sent /\ Whole
  BY DEF SimInv, FlowInv
<1> QED
  BY <1>1, KeysApart, AnswerFits

(* Every step keeps it. *)
LEMMA StepSimInv ==
    ASSUME MaxReports >= 3, MaxAccepted <= 106, SimInv, [SimNext]_simVars
    PROVE  SimInv'
<1>1. /\ FlowInv /\ BookInv /\ RiskInv /\ Program /\ Sent /\ Whole /\ Balanced /\ Tallied
      /\ ExchangeInv /\ Named /\ Len(orders) \in Nat
  BY DEF SimInv, FlowInv, OInv, OrdersTypeOK
<1>2. KeysDistinct /\ BatchFits /\ MaxReports # 0
  BY SimKeys
<1>3. FlowInv'
  <2>1. [FlowNext]_flowVars
    BY <1>1, WithinFlow
  <2> QED
    BY <1>1, <1>2, <2>1, StepFlowInv
<1>4. BookInv'
  <2>1. [BookNext]_bookVars
    BY <1>1, WithinBook
  <2> QED
    BY <1>1, <2>1, StepBookInv
<1>5. RiskInv'
  <2>1. [RiskNext]_riskVars
    BY <1>1, WithinRisk
  <2> QED
    BY <1>1, <2>1, RiskStep
<1>6. Program'
  BY <1>1, <1>4, ProgramKept
<1>7. ExchangeAct
  BY <1>1, <1>6, OneAct
<1>8. Sent'
  BY <1>1, <1>2, <1>7, SentKept
<1>9. Whole'
  BY <1>1, <1>2, <1>7, WholeKept
<1>10. Balanced'
  BY <1>1, <1>2, <1>7, BalancedKept
<1>11. Tallied'
  BY <1>1, <1>2, <1>6, TalliedKept
<1> QED
  BY <1>3, <1>4, <1>5, <1>6, <1>8, <1>9, <1>10, <1>11 DEF SimInv

(* In every state of every behaviour of the program. *)
LEMMA SimInvariant ==
    ASSUME MaxReports >= 3, MaxAccepted <= 106
    PROVE  SimSpec => []SimInv
<1>1. SimInv /\ [SimNext]_simVars => SimInv'
  BY StepSimInv
<1> QED
  BY <1>1, InitSimInv, PTL DEF SimSpec

-----------------------------------------------------------------------------
(* What the program keeps to.                                              *)

(* The variables have their types, and nothing is in work or under way at the *)
(* places in the program where nothing should be.                          *)
THEOREM SimTypes ==
    ASSUME MaxReports >= 3, MaxAccepted <= 106
    PROVE  SimSpec => []SimTypeOK
<1>1. SimInv => SimTypeOK
  <2> SUFFICES ASSUME SimInv PROVE SimTypeOK
    OBVIOUS
  <2>1. FlowTypeOK /\ BookTypeOK /\ RiskTypeOK
    BY FlowTypes, BookTyped DEF SimInv, RiskInv
  <2>2. Program /\ Tallied
    BY DEF SimInv
  <2> QED
    BY <2>1, <2>2 DEF SimTypeOK, Program, Tallied
<1> QED
  BY <1>1, SimInvariant, PTL

(* What print_summary prints is what the components hold, at every moment:   *)
(* of the events, the orders, the reports, the fills and the latency samples, *)
(* and the order flag of the replay means what it says.  Every order that     *)
(* risk lets through is sent.                                              *)
THEOREM SimSummaryHonest ==
    ASSUME MaxReports >= 3, MaxAccepted <= 106
    PROVE  SimSpec => []SummaryHonest
<1>1. SimInv => SummaryHonest
  <2> SUFFICES ASSUME SimInv PROVE SummaryHonest
    OBVIOUS
  <2>1. CountsMatch
    BY DEF SimInv, Tallied
  <2>2. Len(orders) = Len(ledger)
    BY QuoteAssumption DEF SimInv, Sent
  <2> QED
    BY <2>1, <2>2 DEF SummaryHonest, CountsMatch
<1> QED
  BY <1>1, SimInvariant, PTL

(* The position stays within the limit that risk checks before the fact, and  *)
(* is back at zero, without profit, whenever the next order is considered.  *)
THEOREM SimPositionsBounded ==
    ASSUME MaxReports >= 3, MaxAccepted <= 106
    PROVE  SimSpec => []PositionsBounded
<1>1. SimInv => PositionsBounded
  <2> SUFFICES ASSUME SimInv, NEW s \in Symbols
               PROVE  /\ Within(Abs(positions[s].quantity), MaxAbsPosition)
                      /\ at = "orders" =>
                            positions[s].quantity = 0 /\ positions[s].realized = 0
    BY DEF PositionsBounded
  <2>1. Program /\ Balanced /\ Sent /\ Flight
    BY DEF SimInv, FlowInv
  <2>2. at = "orders" => AllUntouched
    BY <2>1 DEF Program, Balanced, Answer
  <2>3. MaxAbsPosition \in Int
    BY RiskAssumption
  <2>4. CASE positions[s].quantity = 0
    <3>1. Within(Abs(positions[s].quantity), MaxAbsPosition)
      BY <2>3, <2>4 DEF Within, Abs
    <3> QED
      BY <2>2, <3>1 DEF AllUntouched, Untouched
  <2>5. CASE positions[s].quantity # 0
    <3> DEFINE b == wire[1]
    <3>1. Len(wire) = 1 /\ FillsWhole(b) /\ Undoes(b)
      BY <2>1, <2>5 DEF Balanced, AllUntouched, Untouched
    <3>2. positions[s].quantity = -SignedFill(b.side, OrderQuantity)
      BY <2>5, <3>1 DEF Undoes, Untouched
    <3>3. /\ b \in ReportRecord /\ 1 \in 1 .. Len(wire)
          /\ wire # <<>>
      <4>1. wire \in Seq(ReportRecord)
        BY <2>1 DEF Flight
      <4>2. Len(wire) = 1
        BY <3>1
      <4>3. 1 \in 1 .. Len(wire)
        BY <4>2
      <4>4. b \in ReportRecord
        BY <4>1, <4>3
      <4>5. wire # <<>>
        BY <4>2
      <4> QED
        BY <4>3, <4>4, <4>5
    <3>4. OrderQuantity \in Nat
      BY <3>1, <3>3 DEF FillsWhole, ReportRecord
    <3>5. Abs(positions[s].quantity) = OrderQuantity
      BY <3>2, <3>4 DEF Abs, SignedFill
    <3>6. ledger # <<>>
      <4>1. work = Idle
        BY <2>1, <3>3 DEF Program
      <4>2. InTransit = wire
        BY <4>1 DEF InTransit
      <4>3. b.exch \in 1 .. Len(ledger)
        BY <2>1, <3>3, <4>2 DEF Flight
      <4> QED
        BY <4>3
    <3>7. Within(Abs(positions[s].quantity), MaxAbsPosition)
      BY <2>1, <3>5, <3>6 DEF Sent
    <3> QED
      BY <2>2, <2>5, <3>7 DEF AllUntouched, Untouched
  <2> QED
    BY <2>4, <2>5
<1> QED
  BY <1>1, SimInvariant, PTL

(* The order rate, as the program asks for it. *)
THEOREM SimRateLimited ==
    ASSUME MaxReports >= 3, MaxAccepted <= 106
    PROVE  SimSpec => []RateLimited
<1>1. SimInv => RateLimited
  BY TwoOpeners DEF SimInv, RiskInv, RateLimited
<1> QED
  BY <1>1, SimInvariant, PTL

(* The keys of the reports stay apart here, which the order flow on its own    *)
(* does not promise.                                                       *)
THEOREM SimKeysDistinct ==
    ASSUME MaxReports >= 3, MaxAccepted <= 106
    PROVE  SimSpec => []KeysDistinct
<1>1. SimInv => KeysDistinct
  BY SimKeys
<1> QED
  BY <1>1, SimInvariant, PTL

(* So every fill of the exchange reaches its order once, *)
THEOREM SimEveryFillOnce ==
    ASSUME MaxReports >= 3, MaxAccepted <= 106
    PROVE  SimSpec => []EveryFillOnce
<1>1. SimInv => EveryFillOnce
  BY FillsArrive DEF SimInv
<1> QED
  BY <1>1, SimInvariant, PTL

(* the positions are the sums of what the orders have filled,              *)
THEOREM SimPositionIsFills ==
    ASSUME MaxReports >= 3, MaxAccepted <= 106
    PROVE  SimSpec => []PositionIsFills
<1>1. SimInv => PositionIsFills
  BY DEF SimInv, FlowInv
<1> QED
  BY <1>1, SimInvariant, PTL

(* and once the reports are handled the OMS and the exchange agree.        *)
THEOREM SimQuiescentAgreement ==
    ASSUME MaxReports >= 3, MaxAccepted <= 106
    PROVE  SimSpec => []QuiescentAgreement
<1>1. SimInv => QuiescentAgreement
  BY Agreement DEF SimInv
<1> QED
  BY <1>1, SimInvariant, PTL

(* The program uses the market data book as it may be used, whatever the      *)
(* replay holds,                                                           *)
THEOREM SimUsesBook ==
    ASSUME MaxReports >= 3, MaxAccepted <= 106
    PROVE  SimSpec => BookSpec
<1>1. SimInit => BookInit
  BY DEF SimInit
<1>2. SimInv /\ [SimNext]_simVars => [BookNext]_bookVars
  BY WithinBook DEF SimInv
<1> QED
  BY <1>1, <1>2, SimInvariant, PTL DEF SimSpec, BookSpec

(* so its levels are the sums of its orders,                               *)
THEOREM SimLevelsExact ==
    ASSUME MaxReports >= 3, MaxAccepted <= 106
    PROVE  SimSpec => []LevelsExact
BY SimUsesBook, BookLevelsExact, PTL

(* and what the strategy and the risk engine read of it is the best of them. *)
THEOREM SimViewsAgree ==
    ASSUME MaxReports >= 3, MaxAccepted <= 106
    PROVE  SimSpec => []ViewsAgree
BY SimUsesBook, BookViewsAgree, PTL

(* What the program does is what the order flow may do: it starts where that   *)
(* starts, and each of its steps is one of that or changes nothing there.  *)
THEOREM SimRefines ==
    ASSUME MaxReports >= 3, MaxAccepted <= 106
    PROVE  SimSpec => FlowInit /\ [][FlowNext]_flowVars
<1>1. SimInit => FlowInit
  BY DEF SimInit
<1>2. SimInv /\ [SimNext]_simVars => [FlowNext]_flowVars
  BY WithinFlow DEF SimInv
<1> QED
  BY <1>1, <1>2, SimInvariant, PTL DEF SimSpec

(* The components keep to what they promise on their own: the OMS, the         *)
(* positions and the exchange.                                             *)
THEOREM SimComponents ==
    ASSUME MaxReports >= 3, MaxAccepted <= 106
    PROVE  SimSpec => [](/\ FillAccounting /\ AverageHonest
                         /\ PositionConsistent /\ ProfitMatchesCash
                         /\ IndexExact /\ NeverCrossed /\ ReportsAccount)
<1>1. SimInv => /\ FillAccounting /\ AverageHonest
                /\ PositionConsistent /\ ProfitMatchesCash
                /\ IndexExact /\ NeverCrossed /\ ReportsAccount
  BY FlowParts DEF SimInv
<1> QED
  BY <1>1, SimInvariant, PTL

(* An order only goes forward, from its creation to its last report.        *)
THEOREM SimLifecycle ==
    ASSUME MaxReports >= 3, MaxAccepted <= 106
    PROVE  SimSpec => LifecycleMonotone
<1> DEFINE Monotone == \A id \in ClientIds :
              LET o == orders[id]  n == orders'[id]
              IN /\ is_terminal(o.status) => n = o
                 /\ o.status \in Working =>
                       /\ n.status \in Working \cup {"Filled", "Canceled"}
                       /\ n.exchange_id = o.exchange_id
                 /\ n.filled >= o.filled /\ n.remaining <= o.remaining
<1>1. SimInv /\ [SimNext]_simVars => [Monotone]_orderVars
  BY WithinFlow, FlowAdvances, AllAdvance DEF SimInv
<1> QED
  BY <1>1, SimInvariant, PTL DEF SimSpec, LifecycleMonotone

(* The orders of the strategy trade by price, then by time.                 *)
THEOREM SimPriority ==
    ASSUME MaxReports >= 3, MaxAccepted <= 106
    PROVE  SimSpec => PriceTimePriority
<1>1. SimInv /\ [SimNext]_simVars => [Priority]_exchangeVars
  BY WithinFlow, WithinExchange, StepPriority DEF SimInv, FlowInv
<1>2. SimSpec => [][Priority]_exchangeVars
  BY <1>1, SimInvariant, PTL DEF SimSpec
<1> QED
  BY <1>2 DEF PriceTimePriority, Priority

=============================================================================
