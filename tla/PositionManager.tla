-------------------------- MODULE PositionManager --------------------------
(***************************************************************************)
(* PositionManager (src/position/position_manager.cpp): the position, the  *)
(* average entry price and the realized profit per symbol, kept from fills *)
(* and trades alone.                                                       *)
(***************************************************************************)
EXTENDS Integers

CONSTANTS PosSymbols,  \* instruments, without the empty symbol
          PosPrices,   \* fill prices, 0 included to meet the guard
          PosSizes,    \* fill quantities, 0 included to meet the guard
          MaxTrades    \* bound: how many fills are applied

ASSUME PositionAssumption ==
    PosPrices \subseteq Nat /\ PosSizes \subseteq Nat /\ MaxTrades \in Nat

VARIABLES positions,  \* positions_: PositionState per symbol
          cash,       \* history: sale proceeds minus purchase costs per symbol
          slack,      \* history: the rounding the averages may have absorbed
          trades      \* history: how many fills were applied

positionVars == <<positions, cash, slack, trades>>

\* A symbol not yet in the map reads as this state.
Flat == [quantity |-> 0, average |-> 0, realized |-> 0, bought |-> 0, sold |-> 0]

llabs(n) == IF n < 0 THEN -n ELSE n

SignedFill(side, size) == IF side = "Buy" THEN size ELSE -size

\* The position is flat or the fill is on its side.
Opens(state, side) ==
    \/ state.quantity = 0
    \/ state.quantity > 0 /\ side = "Buy"
    \/ state.quantity < 0 /\ side = "Sell"

\* Mutant: the sold total adds the signed quantity.
CountedSigned(state, side, size) ==
    [state EXCEPT !.quantity = @ + SignedFill(side, size),
                  !.bought = IF side = "Buy" THEN @ + size ELSE @,
                  !.sold = IF side = "Sell" THEN @ + SignedFill(side, size) ELSE @]

Counted(state, side, size) ==
    [state EXCEPT !.quantity = @ + SignedFill(side, size),
                  !.bought = IF side = "Buy" THEN @ + size ELSE @,
                  !.sold = IF side = "Sell" THEN @ + size ELSE @]

AddTo(state, side, price, size) ==
    [Counted(state, side, size) EXCEPT
        !.average = (@ * llabs(state.quantity) + price * size)
                        \div (llabs(state.quantity) + size)]

\* std::min(llabs(state.quantity), quantity)
ClosingQuantity(state, size) ==
    IF llabs(state.quantity) < size THEN llabs(state.quantity) ELSE size

\* Mutant: a fill through zero books the profit of its whole size.
GainOfWholeFill(state, side, price, size) ==
    IF side = "Sell" THEN (price - state.average) * size
                     ELSE (state.average - price) * size

Gain(state, side, price, size) ==
    IF side = "Sell" THEN (price - state.average) * ClosingQuantity(state, size)
                     ELSE (state.average - price) * ClosingQuantity(state, size)

\* Mutant: a position closed to zero keeps its average.
AverageAfterCloseKept(state, side, price, size) ==
    IF llabs(state.quantity) < size THEN price ELSE state.average

\* Zero when flat, the fill price once the fill went through zero.
AverageAfterClose(state, side, price, size) ==
    IF state.quantity + SignedFill(side, size) = 0 THEN 0
    ELSE IF llabs(state.quantity) < size THEN price
    ELSE state.average

Reduce(state, side, price, size) ==
    [Counted(state, side, size) EXCEPT
        !.realized = @ + Gain(state, side, price, size),
        !.average = AverageAfterClose(state, side, price, size)]

\* PositionManager::apply beyond its guard.
Applied(state, side, price, size) ==
    IF Opens(state, side) THEN AddTo(state, side, price, size)
                          ELSE Reduce(state, side, price, size)

PositionsInit ==
    /\ positions = [s \in PosSymbols |-> Flat]
    /\ cash = [s \in PosSymbols |-> 0] /\ slack = [s \in PosSymbols |-> 0]
    /\ trades = 0

\* apply_fill and apply_trade differ in where they take the four values from.
apply_trade(symbol, side, price, size) ==
    /\ trades < MaxTrades
    /\ price > 0 /\ size > 0
    /\ positions' = [positions EXCEPT ![symbol] = Applied(@, side, price, size)]
    /\ cash' = [cash EXCEPT ![symbol] = @ - price * SignedFill(side, size)]
    /\ slack' = [slack EXCEPT
                   ![symbol] = IF Opens(positions[symbol], side)
                               THEN @ + llabs(positions[symbol].quantity) + size - 1
                               ELSE @]
    /\ trades' = trades + 1

PositionsNext ==
    \E s \in PosSymbols, d \in {"Buy", "Sell"}, p \in PosPrices, q \in PosSizes :
        apply_trade(s, d, p, q)

PositionsSpec == PositionsInit /\ [][PositionsNext]_positionVars

-----------------------------------------------------------------------------
PositionState ==
    [quantity : Int, average : Nat, realized : Int, bought : Nat, sold : Nat]

PositionsTypeOK ==
    /\ positions \in [PosSymbols -> PositionState]
    /\ cash \in [PosSymbols -> Int] /\ slack \in [PosSymbols -> Nat]
    /\ trades \in Nat

(* The quantity is what was bought less what was sold, and an average price *)
(* exists exactly while a position does, also right after a fill that       *)
(* closed the position or took it through zero.                            *)
PositionConsistent ==
    \A s \in PosSymbols :
        LET st == positions[s]
        IN /\ st.quantity = st.bought - st.sold
           /\ st.quantity = 0 <=> st.average = 0

(* Profit is neither made nor lost by bookkeeping: realized profit plus the *)
(* position at its average cost equals the cash that moved, up to less than *)
(* one price unit per share of each average that was rounded.              *)
ProfitMatchesCash ==
    \A s \in PosSymbols :
        LET st == positions[s]
            error == st.realized - (cash[s] + st.quantity * st.average)
        IN llabs(error) <= slack[s]

=============================================================================
