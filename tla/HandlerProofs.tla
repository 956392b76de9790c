--------------------------- MODULE HandlerProofs ---------------------------
(***************************************************************************)
(* Proofs about the two books ExecutionReportHandler writes to.  The orders *)
(* (OrderManager), for any number of orders, any quantities and prices and  *)
(* any sequence of events: the fill accounting, the lifecycle, and how far  *)
(* the integer average may drift.  The positions (PositionManager), for     *)
(* every number of symbols and every sequence of fills.                    *)
(***************************************************************************)
EXTENDS ExecutionReportHandler, TLAPS

(* Flooring division loses less than the divisor. *)
LEMMA DivFloor ==
    ASSUME NEW n \in Nat \ {0}, NEW x \in Nat
    PROVE  /\ x \div n \in Nat /\ (x \div n) * n <= x /\ x - (x \div n) * n <= n - 1
  <1>1. x = n * (x \div n) + (x % n) /\ x \div n \in Nat /\ x % n \in 0 .. (n - 1)
    OBVIOUS
  <1> QED BY <1>1

(* What apply_fill does to an order that has something left to fill. *)
LEMMA ApplyFillEffect ==
    ASSUME NEW o \in OrderType, NEW q \in Nat, NEW p \in Nat, q > 0, p > 0, o.remaining > 0
    PROVE  LET a == AppliedQuantity(o, q)
               n == apply_fill(o, q, p)
           IN /\ a \in Nat \ {0} /\ a <= o.remaining
              /\ n \in OrderType
              /\ n = [o EXCEPT !.filled = o.filled + a, !.remaining = o.remaining - a,
                               !.average = (o.average * o.filled + p * a) \div (o.filled + a)]
  <1> DEFINE a == AppliedQuantity(o, q)
             avg == (o.average * o.filled + p * a) \div (o.filled + a)
  <1>1. /\ o.remaining \in Nat /\ o.filled \in Nat /\ o.average \in Nat
        /\ o.symbol \in Symbols /\ o.side \in Sides /\ o.price \in Prices
        /\ o.quantity \in Quantities /\ o.status \in OrderStatus /\ o.exchange_id \in Nat
    BY DEF OrderType
  <1>2. a \in Nat \ {0} /\ a <= o.remaining
    BY <1>1 DEF AppliedQuantity
  <1> HIDE DEF a
  <1>3. avg \in Nat
    <2>1. o.average * o.filled + p * a \in Nat /\ o.filled + a \in Nat \ {0}
      BY <1>1, <1>2
    <2> QED BY <2>1, DivFloor
  <1>4. apply_fill(o, q, p) = [o EXCEPT !.filled = o.filled + a,
                                        !.remaining = o.remaining - a, !.average = avg]
    BY DEF apply_fill, a
  <1> HIDE DEF avg
  <1>5. o.filled + a \in Nat /\ o.remaining - a \in Nat
    BY <1>1, <1>2
  <1>6. [o EXCEPT !.filled = o.filled + a, !.remaining = o.remaining - a,
                  !.average = avg] \in OrderType
    BY <1>1, <1>3, <1>5 DEF OrderType
  <1> QED BY <1>2, <1>4, <1>6 DEF a, avg

(* The events that carry a quantity. *)
FillEvents == {"PartialFill", "Fill"}

(* A fill event the state machine takes: who it changes and how. *)
LEMMA FillEventEffect ==
    ASSUME NEW o \in OrderType, FillsAddUp(o), NEW q \in Nat, NEW p \in Nat,
           NEW e \in FillEvents, Accepts(o, e, q, p)
    PROVE  LET a == AppliedQuantity(o, q)
               n == apply(o, e, q, p)
           IN /\ n \in OrderType /\ FillsAddUp(n) /\ o.status \in Working
              /\ a \in Nat \ {0} /\ n.filled = o.filled + a /\ n.remaining <= o.remaining
              /\ n.average = (o.average * o.filled + p * a) \div (o.filled + a)
              /\ n.exchange_id = o.exchange_id /\ n.status \in Working \cup {"Filled"}
  <1> DEFINE a == AppliedQuantity(o, q)
             f == apply_fill(o, q, p)
  <1>1. /\ o.status \in Working /\ q > 0 /\ p > 0 /\ o.remaining > 0
        /\ o.filled \in Nat /\ o.remaining \in Nat /\ o.quantity \in Nat
    BY OrderAssumption DEF Accepts, AllowedFrom, FillEvents, OrderType
  <1>2. /\ a \in Nat \ {0} /\ a <= o.remaining /\ f \in OrderType
        /\ f = [o EXCEPT !.filled = o.filled + a, !.remaining = o.remaining - a,
                         !.average = (o.average * o.filled + p * a) \div (o.filled + a)]
    BY <1>1, ApplyFillEffect
  <1> HIDE DEF a, f
  <1>3. /\ f.filled = o.filled + a /\ f.remaining = o.remaining - a
        /\ f.average = (o.average * o.filled + p * a) \div (o.filled + a)
        /\ f.status = o.status /\ f.exchange_id = o.exchange_id /\ f.quantity = o.quantity
    BY <1>2 DEF OrderType
  <1>4. o.filled + o.remaining = o.quantity
    BY <1>1 DEF FillsAddUp, Working
  <1>5. CASE e = "PartialFill"
    <2> DEFINE st == IF f.remaining = 0 THEN "Filled"
                     ELSE IF f.status = "PendingCancel" THEN f.status
                     ELSE "PartiallyFilled"
    <2>1. apply(o, e, q, p) = [f EXCEPT !.status = st]
      BY <1>5 DEF apply, AfterPartialFill, f
    <2>2. st \in {"Filled", "PendingCancel", "PartiallyFilled"} /\ (st = "Filled" <=> f.remaining = 0)
      OBVIOUS
    <2> HIDE DEF st
    <2>3. [f EXCEPT !.status = st] \in OrderType
      BY <1>2, <2>2 DEF OrderType, OrderStatus
    <2>4. FillsAddUp([f EXCEPT !.status = st])
      BY <1>1, <1>2, <1>3, <1>4, <2>2 DEF FillsAddUp, OrderType, Working
    <2> QED BY <1>1, <1>2, <1>3, <2>1, <2>2, <2>3, <2>4 DEF a, OrderType, Working
  <1>6. CASE e = "Fill"
    <2>1. apply(o, e, q, p) = [f EXCEPT !.status = "Filled", !.remaining = 0]
      BY <1>6 DEF apply, AfterFill, f
    <2>2. [f EXCEPT !.status = "Filled", !.remaining = 0] \in OrderType
      BY <1>2 DEF OrderType, OrderStatus
    <2>3. FillsAddUp([f EXCEPT !.status = "Filled", !.remaining = 0])
      BY <1>1, <1>2, <1>3, <1>4 DEF FillsAddUp, OrderType, Working
    <2> QED BY <1>1, <1>2, <1>3, <2>1, <2>2, <2>3 DEF a, OrderType, Working
  <1> QED BY <1>5, <1>6 DEF FillEvents

(* Any other event changes the status only. *)
LEMMA PlainEventEffect ==
    ASSUME NEW o \in OrderType, FillsAddUp(o), NEW e \in OrderEvents \ FillEvents,
           Accepts(o, e, 0, 0)
    PROVE  \E st \in OrderStatus :
              LET n == [o EXCEPT !.status = st]
              IN /\ apply(o, e, 0, 0) = n /\ n \in OrderType /\ FillsAddUp(n)
                 /\ ~is_terminal(o.status)
                 /\ o.status \in Working => st \in Working \cup {"Canceled"} /\ e # "NewAck"
  <1>1. /\ o.filled \in Nat /\ o.remaining \in Nat /\ o.quantity \in Nat
        /\ o.status \in AllowedFrom(e)
    BY OrderAssumption DEF OrderType, Accepts
  <1>2. \A st \in OrderStatus : [o EXCEPT !.status = st] \in OrderType
    BY DEF OrderType
  <1>3. CASE e = "CancelReject"
    <2>1. PICK st \in OrderStatus : st = IF o.filled > 0 THEN "PartiallyFilled" ELSE "Acked"
      BY DEF OrderStatus
    <2>2. apply(o, e, 0, 0) = [o EXCEPT !.status = st] /\ o.status = "PendingCancel"
      BY <1>1, <1>3, <2>1 DEF apply, AfterCancelReject, AllowedFrom
    <2>3. FillsAddUp([o EXCEPT !.status = st])
      BY <1>1, <2>1, <2>2 DEF FillsAddUp, OrderType, Working
    <2> QED BY <1>2, <1>3, <2>1, <2>2, <2>3 DEF is_terminal, Working
  <1>4. CASE e \in {"Submit", "NewAck", "NewReject", "CancelRequest", "CancelAck"}
    <2>1. PICK st \in OrderStatus :
            /\ apply(o, e, 0, 0) = [o EXCEPT !.status = st]
            /\ \/ o.status = "Created" /\ st = "PendingNew" /\ e = "Submit"
               \/ o.status = "PendingNew" /\ st \in {"Acked", "Rejected"}
               \/ /\ o.status \in {"Acked", "PartiallyFilled"} /\ st = "PendingCancel"
                  /\ e = "CancelRequest"
               \/ o.status = "PendingCancel" /\ st = "Canceled" /\ e = "CancelAck"
      BY <1>1, <1>4 DEF apply, AllowedFrom, OrderStatus
    <2>2. FillsAddUp([o EXCEPT !.status = st])
      BY <1>1, <2>1 DEF FillsAddUp, OrderType, Working
    <2> QED BY <1>2, <2>1, <2>2 DEF is_terminal, Working
  <1> QED BY <1>3, <1>4 DEF OrderEvents, FillEvents

(* One more fill: what the rounding of the average can add to its drift. *)
LEMMA DriftStep ==
    ASSUME NEW A \in Nat, NEW f \in Nat, NEW p \in Nat, NEW a \in Nat \ {0},
           NEW n \in Nat, NEW c \in Nat,
           A * f <= n, n - A * f <= c * (IF f = 0 THEN 0 ELSE f - 1)
    PROVE  LET g == f + a
               B == (A * f + p * a) \div g
           IN B * g <= n + p * a /\ (n + p * a) - B * g <= (c + 1) * (g - 1)
  <1> DEFINE g == f + a
             x == A * f + p * a
             B == x \div g
             d == IF f = 0 THEN 0 ELSE f - 1
  <1>1. g \in Nat \ {0} /\ x \in Nat /\ d \in Nat /\ d <= g - 1
    OBVIOUS
  <1>2. B \in Nat /\ B * g <= x /\ x - B * g <= g - 1
    BY <1>1, DivFloor
  <1>3. c * d <= c * (g - 1)
    <2> HIDE DEF d, g
    <2>1. \A m \in Nat : d <= m => c * d <= c * m
      <3> SUFFICES ASSUME NEW m \in Nat, d <= m PROVE c * d <= c * m
        OBVIOUS
      <3>1. c * m = c * d + c * (m - d)
        BY <1>1
      <3>2. c * (m - d) >= 0
        BY <1>1
      <3> QED BY <1>1, <3>1, <3>2
    <2> QED BY <1>1, <2>1
  <1>4. (c + 1) * (g - 1) = c * (g - 1) + (g - 1)
    BY <1>1
  <1>5. n - A * f <= c * d /\ x = A * f + p * a
    OBVIOUS
  <1>6. A * f \in Nat /\ p * a \in Nat /\ c * d \in Nat /\ B * g \in Nat
    BY <1>1, <1>2
  <1> HIDE DEF g, x, B, d
  <1>7. B * g <= n + p * a
    BY <1>2, <1>5, <1>6
  <1>8. (n + p * a) - B * g <= c * d + (g - 1)
    BY <1>1, <1>2, <1>5, <1>6
  <1>9. (n + p * a) - B * g <= (c + 1) * (g - 1)
    BY <1>1, <1>3, <1>4, <1>6, <1>8
  <1> QED BY <1>7, <1>9 DEF g, x, B

-----------------------------------------------------------------------------
(* The three properties are inductive together. *)
OInv == OrdersTypeOK /\ FillAccounting /\ AverageHonest

(* There are no orders at first. *)
LEMMA InitOInv == OrdersInit => OInv
  <1> SUFFICES ASSUME OrdersInit PROVE OInv
    OBVIOUS
  <1>1. orders \in Seq(OrderType) /\ paid \in Seq(Nat) /\ fills \in Seq(Nat)
    BY DEF OrdersInit
  <1>2. Len(orders) = 0 /\ Len(paid) = 0 /\ Len(fills) = 0
    BY DEF OrdersInit
  <1> QED BY <1>1, <1>2 DEF OInv, OrdersTypeOK, FillAccounting, AverageHonest, ClientIds

(* A step that replaces one order by a good one keeps the invariant. *)
LEMMA ReplaceOrder ==
    ASSUME OInv, NEW id \in ClientIds, NEW n \in OrderType, NEW m \in Nat, NEW c \in Nat,
           FillsAddUp(n), AverageOf(n, m, c),
           orders' = [orders EXCEPT ![id] = n], paid' = [paid EXCEPT ![id] = m],
           fills' = [fills EXCEPT ![id] = c]
    PROVE  OInv'
  <1>1. /\ orders \in Seq(OrderType) /\ paid \in Seq(Nat) /\ fills \in Seq(Nat)
        /\ Len(paid) = Len(orders) /\ Len(fills) = Len(orders) /\ id \in 1 .. Len(orders)
    BY DEF OInv, OrdersTypeOK, ClientIds
  <1>2. /\ orders' \in Seq(OrderType) /\ paid' \in Seq(Nat) /\ fills' \in Seq(Nat)
        /\ Len(orders') = Len(orders) /\ Len(paid') = Len(orders) /\ Len(fills') = Len(orders)
    BY <1>1
  <1>3. \A k \in 1 .. Len(orders) :
           IF k = id THEN orders'[k] = n /\ paid'[k] = m /\ fills'[k] = c
           ELSE orders'[k] = orders[k] /\ paid'[k] = paid[k] /\ fills'[k] = fills[k]
    BY <1>1
  <1>4. OrdersTypeOK'
    BY <1>2 DEF OrdersTypeOK
  <1>5. \A k \in 1 .. Len(orders) : FillsAddUp(orders'[k])
    BY <1>3 DEF OInv, FillAccounting, ClientIds
  <1>6. \A k \in 1 .. Len(orders) : AverageOf(orders'[k], paid'[k], fills'[k])
    BY <1>3 DEF OInv, AverageHonest, ClientIds
  <1> QED BY <1>2, <1>4, <1>5, <1>6 DEF OInv, FillAccounting, AverageHonest, ClientIds

(* A good order without fills is added. *)
LEMMA AppendOrder ==
    ASSUME OInv, NEW n \in OrderType, FillsAddUp(n), AverageOf(n, 0, 0),
           orders' = Append(orders, n), paid' = Append(paid, 0), fills' = Append(fills, 0)
    PROVE  OInv'
  <1>1. n \in OrderType /\ FillsAddUp(n) /\ AverageOf(n, 0, 0)
    OBVIOUS
  <1>2. /\ orders \in Seq(OrderType) /\ paid \in Seq(Nat) /\ fills \in Seq(Nat)
        /\ Len(paid) = Len(orders) /\ Len(fills) = Len(orders)
        /\ orders' = Append(orders, n) /\ paid' = Append(paid, 0) /\ fills' = Append(fills, 0)
    BY DEF OInv, OrdersTypeOK
  <1>3. /\ orders' \in Seq(OrderType) /\ paid' \in Seq(Nat) /\ fills' \in Seq(Nat)
        /\ Len(orders') = Len(orders) + 1 /\ Len(paid') = Len(orders) + 1
        /\ Len(fills') = Len(orders) + 1
    BY <1>1, <1>2
  <1>4. \A k \in 1 .. Len(orders) + 1 :
           IF k = Len(orders) + 1 THEN orders'[k] = n /\ paid'[k] = 0 /\ fills'[k] = 0
           ELSE /\ orders'[k] = orders[k] /\ paid'[k] = paid[k] /\ fills'[k] = fills[k]
                /\ k \in 1 .. Len(orders)
    BY <1>1, <1>2
  <1>5. OrdersTypeOK'
    BY <1>3 DEF OrdersTypeOK
  <1>6. \A k \in 1 .. Len(orders) + 1 : FillsAddUp(orders'[k])
    BY <1>1, <1>4 DEF OInv, FillAccounting, ClientIds
  <1>7. \A k \in 1 .. Len(orders) + 1 : AverageOf(orders'[k], paid'[k], fills'[k])
    BY <1>1, <1>4 DEF OInv, AverageHonest, ClientIds
  <1> QED BY <1>3, <1>5, <1>6, <1>7 DEF OInv, FillAccounting, AverageHonest, ClientIds

(* create_order keeps the invariant. *)
LEMMA CreatePreserves ==
    ASSUME OInv, NEW s \in Symbols, NEW d \in Sides, NEW p \in Prices, NEW q \in Quantities,
           create_order(s, d, p, q)
    PROVE  OInv'
  <1> DEFINE n == Order(s, d, p, q)
  <1>1. n \in OrderType /\ FillsAddUp(n) /\ AverageOf(n, 0, 0)
    BY OrderAssumption DEF Order, OrderType, OrderStatus, FillsAddUp, AverageOf, Working
  <1> HIDE DEF n
  <1>2. orders' = Append(orders, n) /\ paid' = Append(paid, 0) /\ fills' = Append(fills, 0)
    BY DEF create_order, n
  <1> QED BY <1>1, <1>2, AppendOrder

(* What the invariant says of one order. *)
LEMMA OrderAt ==
    ASSUME OInv, NEW id \in ClientIds
    PROVE  /\ orders[id] \in OrderType /\ paid[id] \in Nat /\ fills[id] \in Nat
           /\ FillsAddUp(orders[id]) /\ AverageOf(orders[id], paid[id], fills[id])
           /\ paid = [paid EXCEPT ![id] = paid[id]] /\ fills = [fills EXCEPT ![id] = fills[id]]
           /\ \A n : [orders EXCEPT ![id] = n][id] = n
  BY DEF OInv, OrdersTypeOK, FillAccounting, AverageHonest, ClientIds

(* An event without a quantity keeps the invariant. *)
LEMMA PlainEventPreserves ==
    ASSUME OInv, NEW id \in ClientIds, NEW e \in OrderEvents \ FillEvents, apply_event(id, e)
    PROVE  OInv'
  <1>1. Accepts(orders[id], e, 0, 0) /\ UNCHANGED <<paid, fills>>
        /\ orders' = [orders EXCEPT ![id] = apply(orders[id], e, 0, 0)]
    BY DEF apply_event, Takes
  <1>2. PICK st \in OrderStatus :
          LET n == [orders[id] EXCEPT !.status = st]
          IN apply(orders[id], e, 0, 0) = n /\ n \in OrderType /\ FillsAddUp(n)
    BY <1>1, OrderAt, PlainEventEffect
  <1> DEFINE n == [orders[id] EXCEPT !.status = st]
  <1>3. AverageOf(n, paid[id], fills[id])
    BY OrderAt DEF AverageOf, OrderType
  <1>4. /\ n \in OrderType /\ FillsAddUp(n) /\ orders' = [orders EXCEPT ![id] = n]
        /\ paid' = [paid EXCEPT ![id] = paid[id]] /\ fills' = [fills EXCEPT ![id] = fills[id]]
        /\ paid[id] \in Nat /\ fills[id] \in Nat
    BY <1>1, <1>2, OrderAt
  <1> HIDE DEF n
  <1> QED BY <1>3, <1>4, ReplaceOrder

(* So does an acknowledgement, which also brings the venue's id. *)
LEMMA AckPreserves ==
    ASSUME OInv, NEW id \in ClientIds, NEW x \in Nat, on_new_ack(id, x)
    PROVE  OInv'
  <1>1. /\ Accepts(orders[id], "NewAck", 0, 0) /\ UNCHANGED <<paid, fills>>
        /\ orders' = [orders EXCEPT ![id] =
                         [apply(orders[id], "NewAck", 0, 0) EXCEPT !.exchange_id = x]]
    BY DEF on_new_ack, Takes
  <1>2. "NewAck" \in OrderEvents \ FillEvents
    BY DEF OrderEvents, FillEvents
  <1>3. PICK st \in OrderStatus :
          LET n == [orders[id] EXCEPT !.status = st]
          IN apply(orders[id], "NewAck", 0, 0) = n /\ n \in OrderType /\ FillsAddUp(n)
    BY <1>1, <1>2, OrderAt, PlainEventEffect
  <1> DEFINE n == [[orders[id] EXCEPT !.status = st] EXCEPT !.exchange_id = x]
  <1>4. n \in OrderType /\ FillsAddUp(n) /\ AverageOf(n, paid[id], fills[id])
    BY <1>3, OrderAt DEF AverageOf, OrderType, FillsAddUp
  <1>5. /\ orders' = [orders EXCEPT ![id] = n]
        /\ paid' = [paid EXCEPT ![id] = paid[id]] /\ fills' = [fills EXCEPT ![id] = fills[id]]
        /\ paid[id] \in Nat /\ fills[id] \in Nat
    BY <1>1, <1>3, OrderAt
  <1> HIDE DEF n
  <1> QED BY <1>4, <1>5, ReplaceOrder

(* So does a fill of any quantity and price. *)
LEMMA FillEventPreserves ==
    ASSUME OInv, NEW id \in ClientIds, NEW e \in FillEvents, NEW q \in Nat, NEW p \in Nat,
           ApplyFillEvent(id, e, q, p)
    PROVE  OInv'
  <1> DEFINE o == orders[id]
             a == AppliedQuantity(o, q)
             n == apply(o, e, q, p)
  <1>1. /\ Accepts(o, e, q, p) /\ orders' = [orders EXCEPT ![id] = n]
        /\ paid' = [paid EXCEPT ![id] = paid[id] + p * a]
        /\ fills' = [fills EXCEPT ![id] = fills[id] + 1]
    BY DEF ApplyFillEvent, Takes
  <1>2. /\ o \in OrderType /\ paid[id] \in Nat /\ fills[id] \in Nat
        /\ FillsAddUp(o) /\ AverageOf(o, paid[id], fills[id])
    BY OrderAt
  <1> HIDE DEF o
  <1>3. /\ n \in OrderType /\ FillsAddUp(n) /\ a \in Nat \ {0} /\ n.filled = o.filled + a
        /\ n.average = (o.average * o.filled + p * a) \div (o.filled + a)
    BY <1>1, <1>2, FillEventEffect
  <1> HIDE DEF a, n
  <1>4. o.average \in Nat /\ o.filled \in Nat
    BY <1>2 DEF OrderType
  <1>5. LET g == o.filled + a
            B == (o.average * o.filled + p * a) \div g
        IN /\ B * g <= paid[id] + p * a
           /\ (paid[id] + p * a) - B * g <= (fills[id] + 1) * (g - 1)
    BY <1>2, <1>3, <1>4, DriftStep DEF AverageOf
  <1>6. n.filled # 0 /\ paid[id] + p * a \in Nat /\ fills[id] + 1 \in Nat
    BY <1>2, <1>3, <1>4
  <1>7. AverageOf(n, paid[id] + p * a, fills[id] + 1)
    BY <1>3, <1>5, <1>6 DEF AverageOf
  <1> QED BY <1>1, <1>3, <1>6, <1>7, ReplaceOrder

(* Every step keeps the invariant. *)
LEMMA StepOInv == OInv /\ [OrdersNext]_orderVars => OInv'
  <1> SUFFICES ASSUME OInv, [OrdersNext]_orderVars PROVE OInv'
    OBVIOUS
  <1>1. CASE \E s \in Symbols, d \in Sides, p \in Prices, q \in Quantities :
               create_order(s, d, p, q)
    BY <1>1, CreatePreserves
  <1>2. ASSUME NEW id \in ClientIds, NEW e \in OrderEvents \ FillEvents, apply_event(id, e)
        PROVE  OInv'
    BY <1>2, PlainEventPreserves
  <1>3. ASSUME NEW id \in ClientIds, on_new_ack(id, id) PROVE OInv'
    BY <1>3, AckPreserves DEF ClientIds
  <1>4. ASSUME NEW id \in ClientIds, NEW q \in Quantities, NEW p \in Prices,
               on_partial_fill(id, q, p) \/ on_fill(id, q, p)
        PROVE  OInv'
    BY <1>4, FillEventPreserves, OrderAssumption DEF on_partial_fill, on_fill, FillEvents
  <1>5. CASE UNCHANGED orderVars
    BY <1>5 DEF orderVars, OInv, OrdersTypeOK, FillAccounting, AverageHonest, ClientIds
  <1>6. {"Submit", "NewReject", "CancelRequest", "CancelAck", "CancelReject"}
            \subseteq OrderEvents \ FillEvents
    BY DEF OrderEvents, FillEvents
  <1>7. ASSUME NEW id \in ClientIds,
               \/ submit(id) \/ on_new_reject(id) \/ request_cancel(id)
               \/ on_cancel_ack(id) \/ on_cancel_reject(id)
        PROVE  OInv'
    BY <1>2, <1>6, <1>7
       DEF submit, on_new_reject, request_cancel, on_cancel_ack, on_cancel_reject
  <1> QED BY <1>1, <1>3, <1>4, <1>5, <1>7 DEF OrdersNext

-----------------------------------------------------------------------------
(* Type correctness of the order map; in particular no fill makes a         *)
(* remaining quantity negative.                                            *)
THEOREM OrdersTypeCorrect == OrdersSpec => []OrdersTypeOK
  <1>1. OInv => OrdersTypeOK
    BY DEF OInv
  <1> QED BY <1>1, InitOInv, StepOInv, PTL DEF OrdersSpec

(* apply and apply_fill keep status and fill quantities in agreement under  *)
(* every sequence of events.                                               *)
THEOREM OrdersFillAccounting == OrdersSpec => []FillAccounting
  <1>1. OInv => FillAccounting
    BY DEF OInv
  <1> QED BY <1>1, InitOInv, StepOInv, PTL DEF OrdersSpec

(* The truncating average of apply_fill is bounded on both sides.          *)
THEOREM OrdersAverage == OrdersSpec => []AverageHonest
  <1>1. OInv => AverageHonest
    BY DEF OInv
  <1> QED BY <1>1, InitOInv, StepOInv, PTL DEF OrdersSpec

(* What one step may do to one order. *)
Advances(o, n) ==
    /\ is_terminal(o.status) => n = o
    /\ o.status \in Working =>
          /\ n.status \in Working \cup {"Filled", "Canceled"}
          /\ n.exchange_id = o.exchange_id
    /\ n.filled >= o.filled /\ n.remaining <= o.remaining

(* An order that is left alone. *)
LEMMA SameAdvances ==
    ASSUME NEW o \in OrderType PROVE Advances(o, o)
  BY DEF Advances, OrderType, Working

(* An order after an event without a quantity. *)
LEMMA PlainAdvances ==
    ASSUME NEW o \in OrderType, FillsAddUp(o), NEW e \in OrderEvents \ FillEvents,
           Accepts(o, e, 0, 0)
    PROVE  /\ Advances(o, apply(o, e, 0, 0))
           /\ e = "NewAck" => \A x : Advances(o, [apply(o, e, 0, 0) EXCEPT !.exchange_id = x])
  <1>1. PICK st \in OrderStatus :
          /\ apply(o, e, 0, 0) = [o EXCEPT !.status = st] /\ ~is_terminal(o.status)
          /\ o.status \in Working => st \in Working \cup {"Canceled"} /\ e # "NewAck"
    BY PlainEventEffect
  <1> DEFINE n == [o EXCEPT !.status = st]
  <1>2. /\ n.status = st /\ n.filled = o.filled /\ n.remaining = o.remaining
        /\ n.exchange_id = o.exchange_id /\ o.filled \in Nat /\ o.remaining \in Nat
        /\ \A x : LET m == [n EXCEPT !.exchange_id = x]
                  IN m.status = st /\ m.filled = o.filled /\ m.remaining = o.remaining
    BY DEF OrderType
  <1>3. Advances(o, n)
    BY <1>1, <1>2 DEF Advances
  <1>4. ASSUME e = "NewAck", NEW x PROVE Advances(o, [n EXCEPT !.exchange_id = x])
    <2> DEFINE m == [n EXCEPT !.exchange_id = x]
    <2>1. m.filled = o.filled /\ m.remaining = o.remaining
      BY <1>2
    <2>2. o.status \notin Working
      BY <1>1, <1>4
    <2> HIDE DEF m
    <2>3. Advances(o, m)
      BY <1>1, <1>2, <2>1, <2>2 DEF Advances
    <2> QED BY <2>3 DEF m
  <1> QED BY <1>1, <1>3, <1>4

(* An order after a fill. *)
LEMMA FillAdvances ==
    ASSUME NEW o \in OrderType, FillsAddUp(o), NEW q \in Nat, NEW p \in Nat,
           NEW e \in FillEvents, Accepts(o, e, q, p)
    PROVE  Advances(o, apply(o, e, q, p))
  <1> DEFINE n == apply(o, e, q, p)
             a == AppliedQuantity(o, q)
  <1>1. /\ o.status \in Working /\ a \in Nat \ {0} /\ n.filled = o.filled + a
        /\ n.remaining <= o.remaining /\ n.exchange_id = o.exchange_id
        /\ n.status \in Working \cup {"Filled"}
    BY FillEventEffect
  <1> HIDE DEF n, a
  <1>2. o.filled \in Nat
    BY DEF OrderType
  <1>3. ~is_terminal(o.status) /\ n.filled >= o.filled
    BY <1>1, <1>2 DEF is_terminal, Working
  <1> QED BY <1>1, <1>3 DEF Advances, n

(* When one order advances and the others are left alone, all advance. *)
LEMMA OneAdvances ==
    ASSUME OInv, NEW id \in ClientIds, NEW n, Advances(orders[id], n),
           orders' = [orders EXCEPT ![id] = n]
    PROVE  \A k \in ClientIds : Advances(orders[k], orders'[k])
  <1>1. /\ orders \in Seq(OrderType) /\ ClientIds = 1 .. Len(orders)
        /\ \A k \in ClientIds : orders[k] \in OrderType
    BY DEF OInv, OrdersTypeOK, ClientIds
  <1> TAKE k \in ClientIds
  <1>2. CASE k = id
    BY <1>1, <1>2
  <1>3. CASE k # id
    <2>1. orders'[k] = orders[k]
      BY <1>1, <1>3
    <2> QED BY <1>1, <2>1, SameAdvances
  <1> QED BY <1>2, <1>3

(* A new order leaves the others alone. *)
LEMMA AppendAdvances ==
    ASSUME OInv, NEW n, orders' = Append(orders, n)
    PROVE  \A k \in ClientIds : Advances(orders[k], orders'[k])
  <1>1. /\ orders \in Seq(OrderType) /\ ClientIds = 1 .. Len(orders)
        /\ \A k \in ClientIds : orders[k] \in OrderType
    BY DEF OInv, OrdersTypeOK, ClientIds
  <1>2. \A k \in ClientIds : orders'[k] = orders[k]
    BY <1>1
  <1> QED BY <1>1, <1>2, SameAdvances

(* An event without a quantity, whatever the order. *)
LEMMA EventAdvances ==
    ASSUME OInv, NEW id, NEW e \in OrderEvents \ FillEvents, apply_event(id, e)
    PROVE  \A k \in ClientIds : Advances(orders[k], orders'[k])
  <1>1. id \in ClientIds /\ Accepts(orders[id], e, 0, 0)
    BY DEF apply_event, Takes
  <1>2. orders[id] \in OrderType /\ FillsAddUp(orders[id])
    BY <1>1 DEF OInv, OrdersTypeOK, FillAccounting, ClientIds
  <1>3. Advances(orders[id], apply(orders[id], e, 0, 0))
    BY <1>1, <1>2, PlainAdvances
  <1> QED BY <1>1, <1>3, OneAdvances DEF apply_event

(* An acknowledgement, with any exchange id. *)
LEMMA AckAdvances ==
    ASSUME OInv, NEW id, NEW x, on_new_ack(id, x)
    PROVE  \A k \in ClientIds : Advances(orders[k], orders'[k])
  <1>1. "NewAck" \in OrderEvents \ FillEvents
    BY DEF OrderEvents, FillEvents
  <1>2. id \in ClientIds /\ Accepts(orders[id], "NewAck", 0, 0)
    BY DEF on_new_ack, Takes
  <1>3. orders[id] \in OrderType /\ FillsAddUp(orders[id])
    BY <1>2 DEF OInv, OrdersTypeOK, FillAccounting, ClientIds
  <1>4. Advances(orders[id], [apply(orders[id], "NewAck", 0, 0) EXCEPT !.exchange_id = x])
    BY <1>1, <1>2, <1>3, PlainAdvances
  <1> QED BY <1>2, <1>4, OneAdvances DEF on_new_ack

(* A fill, of any quantity at any price. *)
LEMMA FilledAdvances ==
    ASSUME OInv, NEW id, NEW q \in Nat, NEW p \in Nat,
           on_partial_fill(id, q, p) \/ on_fill(id, q, p)
    PROVE  \A k \in ClientIds : Advances(orders[k], orders'[k])
  <1>1. PICK e \in FillEvents : ApplyFillEvent(id, e, q, p)
    BY DEF on_partial_fill, on_fill, FillEvents
  <1>2. id \in ClientIds /\ Accepts(orders[id], e, q, p)
    BY <1>1 DEF ApplyFillEvent, Takes
  <1>3. orders[id] \in OrderType /\ FillsAddUp(orders[id])
    BY <1>2 DEF OInv, OrdersTypeOK, FillAccounting, ClientIds
  <1>4. Advances(orders[id], apply(orders[id], e, q, p))
    BY <1>2, <1>3, FillAdvances
  <1> QED BY <1>1, <1>2, <1>4, OneAdvances DEF ApplyFillEvent

(* The events without a quantity. *)
LEMMA PlainEvents ==
    {"Submit", "NewReject", "CancelRequest", "CancelAck", "CancelReject"}
        \subseteq OrderEvents \ FillEvents
  BY DEF OrderEvents, FillEvents

(* LifecycleMonotone says that all orders advance. *)
LEMMA AllAdvance ==
    ASSUME \A k \in ClientIds : Advances(orders[k], orders'[k])
    PROVE  \A id \in ClientIds :
              LET o == orders[id]  n == orders'[id]
              IN /\ is_terminal(o.status) => n = o
                 /\ o.status \in Working =>
                       /\ n.status \in Working \cup {"Filled", "Canceled"}
                       /\ n.exchange_id = o.exchange_id
                 /\ n.filled >= o.filled /\ n.remaining <= o.remaining
  BY DEF Advances

(* Terminal orders stay as they are, working orders never go back to before *)
(* their acknowledgement, and fills are never taken back.                  *)
THEOREM OrdersLifecycle == OrdersSpec => LifecycleMonotone
  <1> DEFINE Monotone == \A id \in ClientIds :
                LET o == orders[id]  n == orders'[id]
                IN /\ is_terminal(o.status) => n = o
                   /\ o.status \in Working =>
                         /\ n.status \in Working \cup {"Filled", "Canceled"}
                         /\ n.exchange_id = o.exchange_id
                   /\ n.filled >= o.filled /\ n.remaining <= o.remaining
  <1>1. OInv /\ [OrdersNext]_orderVars => [Monotone]_orderVars
    <2> SUFFICES ASSUME OInv, OrdersNext PROVE \A k \in ClientIds : Advances(orders[k], orders'[k])
      BY AllAdvance
    <2>1. CASE \E s \in Symbols, d \in Sides, p \in Prices, q \in Quantities :
                 create_order(s, d, p, q)
      <3>1. PICK n : orders' = Append(orders, n)
        BY <2>1 DEF create_order
      <3> QED BY <3>1, AppendAdvances
    <2>2. ASSUME NEW id \in ClientIds,
                 \/ submit(id) \/ on_new_reject(id) \/ request_cancel(id)
                 \/ on_cancel_ack(id) \/ on_cancel_reject(id)
          PROVE  \A k \in ClientIds : Advances(orders[k], orders'[k])
      BY <2>2, PlainEvents, EventAdvances
         DEF submit, on_new_reject, request_cancel, on_cancel_ack, on_cancel_reject
    <2>3. ASSUME NEW id \in ClientIds, NEW q \in Quantities, NEW p \in Prices,
                 on_partial_fill(id, q, p) \/ on_fill(id, q, p)
          PROVE  \A k \in ClientIds : Advances(orders[k], orders'[k])
      BY <2>3, OrderAssumption, FilledAdvances
    <2> QED BY <2>1, <2>2, <2>3, AckAdvances DEF OrdersNext
  <1> QED BY <1>1, InitOInv, StepOInv, PTL DEF OrdersSpec, LifecycleMonotone

-----------------------------------------------------------------------------
(* PositionConsistent, of one state. *)
StateConsistent(st) ==
    /\ st.quantity = st.bought - st.sold
    /\ st.quantity = 0 <=> st.average = 0

(* How far realized profit and inventory are from the cash that moved. *)
Error(st, money) == st.realized - (money + st.quantity * st.average)

(* Flooring division leaves a remainder. *)
LEMMA FloorRemainder ==
    ASSUME NEW n \in Nat \ {0}, NEW x \in Nat
    PROVE  \E r \in 0 .. (n - 1) : (x \div n) * n = x - r /\ x \div n \in Nat
  <1>1. x = n * (x \div n) + (x % n) /\ x \div n \in Nat /\ x % n \in 0 .. (n - 1)
    OBVIOUS
  <1> QED BY <1>1

(* It is positive when the divisor fits. *)
LEMMA FloorPositive ==
    ASSUME NEW n \in Nat \ {0}, NEW x \in Nat, x >= n
    PROVE  x \div n >= 1
  <1>1. x = n * (x \div n) + (x % n) /\ x \div n \in Nat /\ x % n \in 0 .. (n - 1)
    OBVIOUS
  <1>2. CASE x \div n = 0
    BY <1>1, <1>2
  <1> QED BY <1>1, <1>2

(* A product of positive numbers is at least each of them. *)
LEMMA ProductBound ==
    ASSUME NEW a \in Nat, NEW b \in Nat, a >= 1
    PROVE  a * b >= b
  <1>1. a * b = b + (a - 1) * b
    OBVIOUS
  <1>2. (a - 1) * b >= 0
    OBVIOUS
  <1> QED BY <1>1, <1>2

(* Counted changes the quantity and one of the totals. *)
LEMMA CountedFields ==
    ASSUME NEW st \in PositionState, NEW d \in {"Buy", "Sell"}, NEW f \in Nat
    PROVE  LET m == Counted(st, d, f)
           IN /\ m \in PositionState /\ m.quantity = st.quantity + SignedFill(d, f)
              /\ m.average = st.average /\ m.realized = st.realized
              /\ m.bought = (IF d = "Buy" THEN st.bought + f ELSE st.bought)
              /\ m.sold = (IF d = "Sell" THEN st.sold + f ELSE st.sold)
  <1> DEFINE a == st.quantity + SignedFill(d, f)
             b == IF d = "Buy" THEN st.bought + f ELSE st.bought
             v == IF d = "Sell" THEN st.sold + f ELSE st.sold
             m == Counted(st, d, f)
  <1>1. st.quantity \in Int /\ st.bought \in Nat /\ st.sold \in Nat
    BY DEF PositionState
  <1>2. a \in Int /\ b \in Nat /\ v \in Nat
    BY <1>1 DEF SignedFill
  <1>3. m = [st EXCEPT !.quantity = a, !.bought = b, !.sold = v]
    BY DEF Counted
  <1> HIDE DEF a, b, v, m
  <1>4. /\ m \in PositionState /\ m.quantity = a /\ m.average = st.average
        /\ m.realized = st.realized /\ m.bought = b /\ m.sold = v
    BY <1>2, <1>3 DEF PositionState
  <1> QED BY <1>4 DEF a, b, v, m

(* The fill is on the side of the position: its rounding is all that moves. *)
LEMMA AddToEffect ==
    ASSUME NEW st \in PositionState, StateConsistent(st), NEW d \in {"Buy", "Sell"},
           NEW p \in Nat \ {0}, NEW f \in Nat \ {0}, NEW c \in Int, Opens(st, d)
    PROVE  LET n == AddTo(st, d, p, f)
               e == Error(n, c - p * SignedFill(d, f)) - Error(st, c)
           IN /\ n \in PositionState /\ StateConsistent(n)
              /\ -(llabs(st.quantity) + f - 1) <= e /\ e <= llabs(st.quantity) + f - 1
  <1> DEFINE q == st.quantity
             A == st.average
             k == llabs(q)
             N == k + f
             x == A * k + p * f
             B == x \div N
             n == AddTo(st, d, p, f)
  <1>1. /\ q \in Int /\ A \in Nat /\ st.realized \in Int /\ st.bought \in Nat /\ st.sold \in Nat
        /\ k \in Nat /\ N \in Nat \ {0}
    BY DEF PositionState, llabs
  <1>2. A * k \in Nat /\ p * f \in Nat /\ x \in Nat
    BY <1>1
  <1>3. PICK r \in 0 .. (N - 1) : B * N = x - r /\ B \in Nat
    BY <1>1, <1>2, FloorRemainder
  <1>4. B >= 1
    <2>1. p * f >= f
      BY ProductBound
    <2>2. A * k >= k
      <3>1. CASE k = 0
        BY <1>1, <3>1
      <3>2. CASE k # 0
        <4>1. A >= 1
          BY <1>1, <3>2 DEF StateConsistent, llabs
        <4> QED BY <1>1, <4>1, ProductBound
      <3> QED BY <3>1, <3>2
    <2>3. x >= N
      BY <1>1, <1>2, <2>1, <2>2
    <2> QED BY <1>1, <1>2, <2>3, FloorPositive
  <1>5. /\ n \in PositionState /\ n.quantity = q + SignedFill(d, f)
        /\ n.average = B /\ n.realized = st.realized
        /\ n.bought = (IF d = "Buy" THEN st.bought + f ELSE st.bought)
        /\ n.sold = (IF d = "Sell" THEN st.sold + f ELSE st.sold)
    <2> DEFINE m == Counted(st, d, f)
    <2>1. /\ m \in PositionState /\ m.quantity = q + SignedFill(d, f)
          /\ m.average = A /\ m.realized = st.realized
          /\ m.bought = (IF d = "Buy" THEN st.bought + f ELSE st.bought)
          /\ m.sold = (IF d = "Sell" THEN st.sold + f ELSE st.sold)
      BY CountedFields
    <2>2. n = [m EXCEPT !.average = B]
      BY <2>1 DEF AddTo
    <2> HIDE DEF m, n, B
    <2>3. m.realized \in Int
      BY <1>1, <2>1
    <2>4. /\ n \in PositionState /\ n.quantity = m.quantity /\ n.average = B
          /\ n.realized = m.realized /\ n.bought = m.bought /\ n.sold = m.sold
      BY <1>3, <2>1, <2>2, <2>3 DEF PositionState
    <2> QED BY <2>1, <2>4
  <1> HIDE DEF n, B
  <1>6. CASE d = "Buy"
    <2>1. q >= 0 /\ k = q
      BY <1>1, <1>6 DEF Opens, llabs
    <2>2. n.quantity = q + f /\ n.bought = st.bought + f /\ n.sold = st.sold
      BY <1>5, <1>6 DEF SignedFill
    <2>3. StateConsistent(n)
      BY <1>1, <1>4, <1>3, <1>5, <2>1, <2>2 DEF StateConsistent
    <2>4. Error(n, c - p * f) = st.realized - (c - p * f + (q + f) * B)
      BY <1>5, <2>2 DEF Error
    <2>5. (q + f) * B = A * q + p * f - r
      BY <1>1, <1>3, <2>1
    <2>6. Error(st, c) = st.realized - (c + A * q)
      BY <1>1 DEF Error
    <2>7. Error(n, c - p * f) - Error(st, c) = r
      <3>1. A * q \in Int /\ p * f \in Int /\ r \in Int
        BY <1>1, <1>2, <1>3
      <3> HIDE DEF k, N, x, A, q
      <3> QED BY <1>1, <3>1, <2>4, <2>5, <2>6
    <2> QED BY <1>1, <1>5, <1>6, <2>3, <2>7 DEF SignedFill, n
  <1>7. CASE d = "Sell"
    <2>1. q <= 0 /\ k = -q
      BY <1>1, <1>7 DEF Opens, llabs
    <2>2. n.quantity = q - f /\ n.bought = st.bought /\ n.sold = st.sold + f
      BY <1>1, <1>5, <1>7 DEF SignedFill
    <2>3. StateConsistent(n)
      BY <1>1, <1>4, <1>3, <1>5, <2>1, <2>2 DEF StateConsistent
    <2>4. Error(n, c + p * f) = st.realized - (c + p * f + (q - f) * B)
      BY <1>5, <2>2 DEF Error
    <2>5. (q - f) * B = A * q - p * f + r
      BY <1>1, <1>3, <2>1
    <2>6. Error(st, c) = st.realized - (c + A * q)
      BY <1>1 DEF Error
    <2>7. Error(n, c + p * f) - Error(st, c) = -r
      <3>1. A * q \in Int /\ p * f \in Int /\ r \in Int
        BY <1>1, <1>2, <1>3
      <3> HIDE DEF k, N, x, A, q
      <3> QED BY <1>1, <3>1, <2>4, <2>5, <2>6
    <2>8. c - p * SignedFill(d, f) = c + p * f
      BY <1>7 DEF SignedFill
    <2> QED BY <1>1, <1>5, <2>3, <2>7, <2>8 DEF n
  <1> QED BY <1>6, <1>7

(* The fill is against the position: closing it, wholly or in part, or       *)
(* going through zero conserves the error exactly.                         *)
LEMMA ReduceEffect ==
    ASSUME NEW st \in PositionState, StateConsistent(st), NEW d \in {"Buy", "Sell"},
           NEW p \in Nat \ {0}, NEW f \in Nat \ {0}, NEW c \in Int, ~Opens(st, d)
    PROVE  LET n == Reduce(st, d, p, f)
           IN /\ n \in PositionState /\ StateConsistent(n)
              /\ Error(n, c - p * SignedFill(d, f)) = Error(st, c)
  <1> DEFINE q == st.quantity
             A == st.average
             k == ClosingQuantity(st, f)
             n == Reduce(st, d, p, f)
             g == Gain(st, d, p, f)
             B == AverageAfterClose(st, d, p, f)
  <1>1. /\ q \in Int /\ A \in Nat /\ st.realized \in Int /\ st.bought \in Nat /\ st.sold \in Nat
        /\ q # 0 /\ A # 0 /\ (d = "Buy" => q < 0) /\ (d = "Sell" => q > 0)
    BY DEF PositionState, Opens, StateConsistent
  <1>2. k \in Nat /\ g \in Int /\ B \in Nat
    BY <1>1 DEF ClosingQuantity, llabs, Gain, AverageAfterClose
  <1>3. /\ n \in PositionState /\ n.quantity = q + SignedFill(d, f)
        /\ n.average = B /\ n.realized = st.realized + g
        /\ n.bought = (IF d = "Buy" THEN st.bought + f ELSE st.bought)
        /\ n.sold = (IF d = "Sell" THEN st.sold + f ELSE st.sold)
    <2> DEFINE m == Counted(st, d, f)
    <2>1. /\ m \in PositionState /\ m.quantity = q + SignedFill(d, f)
          /\ m.average = A /\ m.realized = st.realized
          /\ m.bought = (IF d = "Buy" THEN st.bought + f ELSE st.bought)
          /\ m.sold = (IF d = "Sell" THEN st.sold + f ELSE st.sold)
      BY CountedFields
    <2>2. n = [m EXCEPT !.realized = st.realized + g, !.average = B]
      BY <2>1 DEF Reduce
    <2> HIDE DEF m, n, B, g
    <2>3. st.realized + g \in Int
      BY <1>1, <1>2
    <2>4. /\ n \in PositionState /\ n.quantity = m.quantity /\ n.average = B
          /\ n.realized = st.realized + g /\ n.bought = m.bought /\ n.sold = m.sold
      BY <1>2, <2>1, <2>2, <2>3 DEF PositionState
    <2> QED BY <2>1, <2>4
  <1>4. Error(st, c) = st.realized - (c + q * A)
    BY DEF Error
  <1>5. Error(n, c - p * SignedFill(d, f))
            = (st.realized + g) - (c - p * SignedFill(d, f) + n.quantity * B)
    <2> HIDE DEF n, B, g
    <2>1. Error(n, c - p * SignedFill(d, f))
            = n.realized - (c - p * SignedFill(d, f) + n.quantity * n.average)
      BY DEF Error
    <2>2. n.realized = st.realized + g /\ n.average = B
      BY <1>3
    <2> QED BY <2>1, <2>2, Zenon
  <1>6. CASE d = "Buy"
    <2>1. /\ SignedFill(d, f) = f /\ n.quantity = q + f /\ g = (A - p) * k
          /\ B = IF q + f = 0 THEN 0 ELSE IF -q < f THEN p ELSE A
          /\ k = IF -q < f THEN -q ELSE f
      BY <1>1, <1>3, <1>6 DEF SignedFill, Gain, AverageAfterClose, ClosingQuantity, llabs
    <2> HIDE DEF n, g, B, k
    <2>2. StateConsistent(n)
      BY <1>1, <1>3, <1>6, <2>1 DEF StateConsistent
    <2>3. g - (n.quantity * B) + p * f = -(q * A)
      <3> HIDE DEF q, A
      <3>1. CASE -q < f
        <4>1. g = (A - p) * (-q) /\ n.quantity * B = (q + f) * p
          BY <1>1, <2>1, <3>1
        <4> QED BY <1>1, <4>1
      <3>2. CASE -q = f
        <4>1. g = (A - p) * f /\ n.quantity * B = 0
          BY <1>1, <2>1, <3>2
        <4> QED BY <1>1, <3>2, <4>1
      <3>3. CASE -q > f
        <4>1. g = (A - p) * f /\ n.quantity * B = (q + f) * A
          BY <1>1, <2>1, <3>3
        <4> QED BY <1>1, <4>1
      <3> QED BY <1>1, <3>1, <3>2, <3>3
    <2>4. n.quantity * B \in Int /\ p * f \in Int /\ q * A \in Int
      BY <1>1, <1>2, <1>3, <2>1
    <2>5. Error(n, c - p * SignedFill(d, f)) = Error(st, c)
      <3> HIDE DEF q, A
      <3> QED BY <1>1, <1>2, <1>4, <1>5, <2>1, <2>3, <2>4
    <2> QED BY <1>3, <2>2, <2>5 DEF n
  <1>7. CASE d = "Sell"
    <2>1. /\ SignedFill(d, f) = -f /\ n.quantity = q - f /\ g = (p - A) * k
          /\ B = IF q - f = 0 THEN 0 ELSE IF q < f THEN p ELSE A
          /\ k = IF q < f THEN q ELSE f
      BY <1>1, <1>3, <1>7 DEF SignedFill, Gain, AverageAfterClose, ClosingQuantity, llabs
    <2> HIDE DEF n, g, B, k
    <2>2. StateConsistent(n)
      BY <1>1, <1>3, <1>7, <2>1 DEF StateConsistent
    <2>3. g - (n.quantity * B) - p * f = -(q * A)
      <3> HIDE DEF q, A
      <3>1. CASE q < f
        <4>1. g = (p - A) * q /\ n.quantity * B = (q - f) * p
          BY <1>1, <2>1, <3>1
        <4> QED BY <1>1, <4>1
      <3>2. CASE q = f
        <4>1. g = (p - A) * f /\ n.quantity * B = 0
          BY <1>1, <2>1, <3>2
        <4> QED BY <1>1, <3>2, <4>1
      <3>3. CASE q > f
        <4>1. g = (p - A) * f /\ n.quantity * B = (q - f) * A
          BY <1>1, <2>1, <3>3
        <4> QED BY <1>1, <4>1
      <3> QED BY <1>1, <3>1, <3>2, <3>3
    <2>4. n.quantity * B \in Int /\ p * f \in Int /\ q * A \in Int /\ p * (-f) = -(p * f)
      BY <1>1, <1>2, <1>3, <2>1
    <2>5. Error(n, c - p * SignedFill(d, f)) = Error(st, c)
      <3> HIDE DEF q, A
      <3> QED BY <1>1, <1>2, <1>4, <1>5, <2>1, <2>3, <2>4
    <2> QED BY <1>3, <2>2, <2>5 DEF n
  <1> QED BY <1>6, <1>7

(* The three properties are inductive together. *)
PosInv == PositionsTypeOK /\ PositionConsistent /\ ProfitMatchesCash

(* All positions are flat at first. *)
LEMMA InitPosInv == PositionsInit => PosInv
  BY DEF PositionsInit, PosInv, PositionsTypeOK, PositionConsistent, ProfitMatchesCash,
         PositionState, Flat, llabs

(* One fill of any size and price keeps them. *)
LEMMA TradePreserves ==
    ASSUME PosInv, NEW s \in PosSymbols, NEW d \in {"Buy", "Sell"}, NEW p \in Nat, NEW f \in Nat,
           apply_trade(s, d, p, f)
    PROVE  PosInv'
  <1> DEFINE st == positions[s]
             n == Applied(st, d, p, f)
             c == cash[s]
             w == c - p * SignedFill(d, f)
             room == llabs(st.quantity) + f - 1
             z == IF Opens(st, d) THEN slack[s] + room ELSE slack[s]
  <1>1. /\ p \in Nat \ {0} /\ f \in Nat \ {0} /\ st \in PositionState /\ c \in Int
        /\ slack[s] \in Nat /\ StateConsistent(st)
    BY DEF apply_trade, PosInv, PositionsTypeOK, PositionConsistent, StateConsistent
  <1>2. /\ room \in Nat /\ z \in Nat /\ w \in Int
    BY <1>1 DEF PositionState, llabs, SignedFill
  <1>3. -slack[s] <= Error(st, c) /\ Error(st, c) <= slack[s] /\ Error(st, c) \in Int
    <2>1. Error(st, c) \in Int
      BY <1>1 DEF Error, PositionState
    <2>2. llabs(Error(st, c)) <= slack[s]
      BY DEF PosInv, ProfitMatchesCash, Error
    <2> QED BY <1>1, <2>1, <2>2 DEF llabs
  <1>4. /\ n \in PositionState /\ StateConsistent(n)
        /\ -z <= Error(n, w) /\ Error(n, w) <= z
    <2>1. CASE Opens(st, d)
      <3> DEFINE e == Error(n, w) - Error(st, c)
      <3>1. n = AddTo(st, d, p, f)
        BY <2>1 DEF Applied
      <3>2. n \in PositionState /\ StateConsistent(n) /\ -room <= e /\ e <= room
        BY <1>1, <2>1, <3>1, AddToEffect
      <3>3. Error(n, w) \in Int
        <4> HIDE DEF n, w
        <4> QED BY <1>2, <3>2 DEF Error, PositionState
      <3>4. z = slack[s] + room
        BY <2>1
      <3> HIDE DEF n, w, z, room, st, c
      <3> QED BY <1>1, <1>2, <1>3, <3>2, <3>3, <3>4
    <2>2. CASE ~Opens(st, d)
      <3>1. n = Reduce(st, d, p, f)
        BY <2>2 DEF Applied
      <3>2. n \in PositionState /\ StateConsistent(n) /\ Error(n, w) = Error(st, c)
        <4> DEFINE m == Reduce(st, d, p, f)
        <4>1. /\ m \in PositionState /\ StateConsistent(m)
              /\ Error(m, c - p * SignedFill(d, f)) = Error(st, c)
          <5> HIDE DEF st, c
          <5> QED BY <1>1, <2>2, ReduceEffect
        <4> QED BY <3>1, <4>1
      <3>3. z = slack[s]
        BY <2>2
      <3> QED BY <1>3, <3>2, <3>3
    <2> QED BY <2>1, <2>2
  <1>5. /\ positions' = [positions EXCEPT ![s] = n]
        /\ cash' = [cash EXCEPT ![s] = w]
        /\ slack' = [slack EXCEPT ![s] = z]
        /\ trades' = trades + 1
    <2>1. slack[s] + llabs(st.quantity) + f - 1 = slack[s] + room
      BY <1>1 DEF PositionState, llabs
    <2> QED BY <2>1 DEF apply_trade
  <1> HIDE DEF n, w, z
  <1>6. PositionsTypeOK'
    BY <1>1, <1>2, <1>4, <1>5 DEF PosInv, PositionsTypeOK
  <1>7. PositionConsistent'
    BY <1>4, <1>5 DEF PosInv, PositionsTypeOK, PositionConsistent, StateConsistent
  <1>8. ProfitMatchesCash'
    <2>1. ASSUME NEW t \in PosSymbols
          PROVE  llabs(Error(positions'[t], cash'[t])) <= slack'[t]
      <3>1. CASE t = s
        <4>1. positions'[t] = n /\ cash'[t] = w /\ slack'[t] = z
          BY <1>5, <3>1 DEF PosInv, PositionsTypeOK
        <4>2. Error(n, w) \in Int
          BY <1>2, <1>4 DEF Error, PositionState
        <4> QED BY <1>2, <1>4, <4>1, <4>2 DEF llabs
      <3>2. CASE t # s
        <4>1. /\ positions'[t] = positions[t] /\ cash'[t] = cash[t]
              /\ slack'[t] = slack[t]
          BY <1>5, <3>2 DEF PosInv, PositionsTypeOK
        <4> QED BY <4>1 DEF PosInv, ProfitMatchesCash, Error
      <3> QED BY <3>1, <3>2
    <2> QED BY <2>1 DEF ProfitMatchesCash, Error
  <1> QED BY <1>6, <1>7, <1>8 DEF PosInv

(* Every step keeps them. *)
LEMMA StepPosInv == PosInv /\ [PositionsNext]_positionVars => PosInv'
  <1> SUFFICES ASSUME PosInv, [PositionsNext]_positionVars PROVE PosInv'
    OBVIOUS
  <1>1. CASE UNCHANGED positionVars
    BY <1>1 DEF PosInv, positionVars, PositionsTypeOK, PositionConsistent, ProfitMatchesCash
  <1>2. CASE PositionsNext
    BY <1>2, TradePreserves, PositionAssumption DEF PositionsNext
  <1> QED BY <1>1, <1>2

(* They hold always. *)
LEMMA PosInvAlways == PositionsSpec => []PosInv
  BY InitPosInv, StepPosInv, PTL DEF PositionsSpec

(* For any fills whatever, the book of positions stays well typed: no        *)
(* average entry price ever goes negative, whichever way the fills of        *)
(* PositionManager::apply turn the position.                               *)
THEOREM PositionsTypeCorrect == PositionsSpec => []PositionsTypeOK
  <1>1. PosInv => PositionsTypeOK
    BY DEF PosInv
  <1> QED BY <1>1, PosInvAlways, PTL

(* PositionManager::apply keeps quantity and totals in step, and an average  *)
(* exactly while there is a position.                                      *)
THEOREM PositionsConsistent == PositionsSpec => []PositionConsistent
  <1>1. PosInv => PositionConsistent
    BY DEF PosInv
  <1> QED BY <1>1, PosInvAlways, PTL

(* PositionManager::apply creates no profit: realized profit and inventory   *)
(* at cost match the cash that moved within the averages' rounding.        *)
THEOREM PositionsProfit == PositionsSpec => []ProfitMatchesCash
  <1>1. PosInv => ProfitMatchesCash
    BY DEF PosInv
  <1> QED BY <1>1, PosInvAlways, PTL

=============================================================================
