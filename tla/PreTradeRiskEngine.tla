------------------------- MODULE PreTradeRiskEngine -------------------------
(***************************************************************************)
(* PreTradeRiskEngine (src/risk/pre_trade_risk_engine.cpp): the limits an   *)
(* order must keep before it may leave.  Only the last check, the order     *)
(* rate, keeps state: a window that opens with an order and the number of   *)
(* orders that passed in it.  Timestamps are unsigned and wrap.            *)
(***************************************************************************)
EXTENDS Integers, Sequences

CONSTANTS AllowedSymbols,      \* config_.allowed_symbols; none means any symbol
          MaxOrderQuantity,    \* config_.max_order_quantity; 0 switches a limit off
          MaxNotional,         \* config_.max_notional
          MaxAbsPosition,      \* config_.max_abs_position
          PriceBandTicks,      \* config_.price_band_ticks
          MaxOrdersPerWindow,  \* config_.max_orders_per_window
          OrderRateWindow,     \* config_.order_rate_window_ns
          TimestampModulus     \* 2^64: how many values a Timestamp has

ASSUME RiskAssumption ==
    /\ {MaxOrderQuantity, MaxNotional, MaxAbsPosition, PriceBandTicks} \subseteq Nat
    /\ MaxOrdersPerWindow \in Nat /\ OrderRateWindow \in Nat
    /\ TimestampModulus \in Nat /\ OrderRateWindow < TimestampModulus

Timestamps == 0 .. TimestampModulus - 1

VARIABLES window_start_ns,   \* 0 also means that no window is open yet
          orders_in_window,
          passed,  \* history: time of each accepted order, and whether it opened a window
          latest,  \* history: the time of the latest rate check
          sane     \* history: no rate check so far was at time 0 or back in time

riskVars == <<window_start_ns, orders_in_window, passed, latest, sane>>

RiskInit ==
    /\ window_start_ns = 0 /\ orders_in_window = 0
    /\ passed = <<>> /\ latest = 0 /\ sane = TRUE

-----------------------------------------------------------------------------
(* The checks without state. *)

symbol_allowed(symbol) == AllowedSymbols = {} \/ symbol \in AllowedSymbols

Abs(n) == IF n < 0 THEN -n ELSE n

\* The position once the order is filled.
Projected(position, order) ==
    IF order.side = "Buy" THEN position + order.quantity ELSE position - order.quantity

\* A limit of zero is switched off.
Within(value, limit) == limit > 0 => value <= limit

\* Around the quotes when both are there, else around the reference price.
price_inside_band(price, market) ==
    \/ PriceBandTicks = 0
    \/ IF market.best_bid > 0 /\ market.best_ask > 0
       THEN price \in market.best_bid - PriceBandTicks .. market.best_ask + PriceBandTicks
       ELSE market.reference_price > 0 =>
               price \in market.reference_price - PriceBandTicks ..
                         market.reference_price + PriceBandTicks

InsideLimits(order, position, market) ==
    /\ symbol_allowed(order.symbol)
    /\ order.quantity > 0 /\ order.price > 0
    /\ Within(order.quantity, MaxOrderQuantity)
    /\ Within(order.price * order.quantity, MaxNotional)
    /\ Within(Abs(Projected(position, order)), MaxAbsPosition)
    /\ price_inside_band(order.price, market)

-----------------------------------------------------------------------------
(* The order rate. *)

RateUnlimited == MaxOrdersPerWindow = 0 \/ OrderRateWindow = 0

\* Mutant: the window ends one tick early.
WindowOverEarly(start, now) ==
    start = 0 \/ (now - start) % TimestampModulus >= OrderRateWindow - 1

\* The unsigned difference wraps when time goes back.
WindowOver(start, now) ==
    start = 0 \/ (now - start) % TimestampModulus >= OrderRateWindow

\* Both functions below first open a new window when the old one is over.
StartAt(start, now) == IF WindowOver(start, now) THEN now ELSE start
CountAt(start, count, now) == IF WindowOver(start, now) THEN 0 ELSE count

\* order_rate_available(now), its answer.
order_rate_available(now) ==
    RateUnlimited \/ CountAt(window_start_ns, orders_in_window, now) < MaxOrdersPerWindow

\* What record_order_attempt leaves, after order_rate_available has run: a window
\* opened at time 0 looks unset and is opened once more.
CountedAt(now) ==
    CountAt(StartAt(window_start_ns, now), CountAt(window_start_ns, orders_in_window, now), now)

ClockSeen(now) ==
    /\ latest' = now
    /\ sane' = (sane /\ now # 0 /\ now >= latest)

Accepted(now) ==
    /\ order_rate_available(now)
    /\ IF RateUnlimited THEN UNCHANGED <<window_start_ns, orders_in_window>>
       ELSE /\ window_start_ns' = StartAt(window_start_ns, now)
            /\ orders_in_window' = CountedAt(now) + 1
    /\ passed' = Append(passed, [time |-> now, opens |-> CountedAt(now) = 0])
    /\ ClockSeen(now)

RateExceeded(now) ==
    /\ ~order_rate_available(now)
    /\ window_start_ns' = StartAt(window_start_ns, now)
    /\ orders_in_window' = CountAt(window_start_ns, orders_in_window, now)
    /\ UNCHANGED passed
    /\ ClockSeen(now)

\* validate, for an order that keeps the other limits or does not.
Validate(inside, now) ==
    IF inside THEN Accepted(now) \/ RateExceeded(now) ELSE UNCHANGED riskVars

validate(order, position, market, now) == Validate(InsideLimits(order, position, market), now)

\* Any sequence of calls: the other limits decide from the arguments alone.
RiskNext == \E inside \in BOOLEAN, now \in Timestamps : Validate(inside, now)

RiskSpec == RiskInit /\ [][RiskNext]_riskVars

-----------------------------------------------------------------------------
RiskTypeOK ==
    /\ window_start_ns \in Timestamps /\ orders_in_window \in Nat
    /\ passed \in Seq([time : Timestamps, opens : BOOLEAN])
    /\ latest \in Timestamps /\ sane \in BOOLEAN

(* What the order rate limit really promises, as long as the clock neither    *)
(* starts at zero nor goes back: the windows are not sliding, so up to        *)
(* 2 * MaxOrdersPerWindow - 1 orders, and never more, pass within any span of *)
(* one window length (validate, order_rate_available, record_order_attempt). *)
RateLimited ==
    sane /\ ~RateUnlimited =>
        \A i \in DOMAIN passed :
            LET j == i + (2 * MaxOrdersPerWindow - 1)
            IN j \in DOMAIN passed => passed[j].time - passed[i].time >= OrderRateWindow

=============================================================================
