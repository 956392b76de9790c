------------------------- MODULE OrderStateMachine -------------------------
(***************************************************************************)
(* OrderStateMachine (src/oms/order_state_machine.cpp): what an order      *)
(* event does to an order.  An order is a record with the fields of Order  *)
(* (Events.hpp) that the order flow reads.                                 *)
(***************************************************************************)
EXTENDS Integers

Sides == {"Buy", "Sell"}

OrderStatus ==
    {"Created", "PendingNew", "Acked", "PartiallyFilled", "Filled",
     "PendingCancel", "Canceled", "Rejected"}

OrderEvents ==
    {"Submit", "NewAck", "NewReject", "PartialFill", "Fill",
     "CancelRequest", "CancelAck", "CancelReject"}

Working == {"Acked", "PartiallyFilled", "PendingCancel"}

is_terminal(status) == status \in {"Filled", "Canceled", "Rejected"}

is_active(status) == status \in {"PendingNew"} \cup Working

\* Mutant: a cancel acknowledgement is taken in any working state or after the fill.
AllowedFromLateCancel(event) ==
    CASE event = "Submit" -> {"Created"}
      [] event \in {"NewAck", "NewReject"} -> {"PendingNew"}
      [] event \in {"PartialFill", "Fill"} -> Working
      [] event = "CancelRequest" -> {"Acked", "PartiallyFilled"}
      [] event \in {"CancelAck", "CancelReject"} -> {"PendingCancel", "Filled"}

\* Mutant: no fill is taken while a cancel is pending.
AllowedFromNoCrossing(event) ==
    CASE event = "Submit" -> {"Created"}
      [] event \in {"NewAck", "NewReject"} -> {"PendingNew"}
      [] event \in {"PartialFill", "Fill", "CancelRequest"} -> {"Acked", "PartiallyFilled"}
      [] event \in {"CancelAck", "CancelReject"} -> {"PendingCancel"}

\* The statuses in which apply takes the event; in any other it rejects.
AllowedFrom(event) ==
    CASE event = "Submit" -> {"Created"}
      [] event \in {"NewAck", "NewReject"} -> {"PendingNew"}
      [] event \in {"PartialFill", "Fill"} -> Working
      [] event = "CancelRequest" -> {"Acked", "PartiallyFilled"}
      [] event \in {"CancelAck", "CancelReject"} -> {"PendingCancel"}

Accepts(order, event, fill_quantity, fill_price) ==
    /\ order.status \in AllowedFrom(event)
    /\ event \in {"PartialFill", "Fill"} =>
          fill_quantity > 0 /\ fill_price > 0 /\ order.remaining > 0

\* std::min(fill_quantity, order.remaining_quantity)
AppliedQuantity(order, fill_quantity) ==
    IF fill_quantity < order.remaining THEN fill_quantity ELSE order.remaining

\* Mutant: a fill larger than what remains is applied in full.
apply_fill_unclamped(order, fill_quantity, fill_price) ==
    LET filled == order.filled + fill_quantity
    IN [order EXCEPT
          !.filled = filled,
          !.remaining = @ - fill_quantity,
          !.average = (@ * order.filled + fill_price * fill_quantity) \div filled]

\* Mutant: the new average weighs the old one by the new filled quantity.
apply_fill_overweight(order, fill_quantity, fill_price) ==
    LET applied == AppliedQuantity(order, fill_quantity)
        filled == order.filled + applied
    IN [order EXCEPT
          !.filled = filled,
          !.remaining = @ - applied,
          !.average = (@ * filled + fill_price * applied) \div filled]

apply_fill(order, fill_quantity, fill_price) ==
    LET applied == AppliedQuantity(order, fill_quantity)
        filled == order.filled + applied
    IN [order EXCEPT
          !.filled = filled,
          !.remaining = @ - applied,
          !.average = (@ * order.filled + fill_price * applied) \div filled]

\* Mutant: a rejected cancel always makes the order Acked again.
AfterCancelRejectForgets(order) == [order EXCEPT !.status = "Acked"]

\* Back to where the order was before the cancel request.
AfterCancelReject(order) ==
    [order EXCEPT !.status = IF order.filled > 0 THEN "PartiallyFilled" ELSE "Acked"]

\* A partial fill that exhausts the order fills it; a pending cancel stays pending.
AfterPartialFill(order, fill_quantity, fill_price) ==
    LET after == apply_fill(order, fill_quantity, fill_price)
    IN [after EXCEPT !.status = IF after.remaining = 0 THEN "Filled"
                                ELSE IF @ = "PendingCancel" THEN @
                                ELSE "PartiallyFilled"]

\* A Fill ends the order even when it reports less than what remains.
AfterFill(order, fill_quantity, fill_price) ==
    [apply_fill(order, fill_quantity, fill_price) EXCEPT
        !.status = "Filled", !.remaining = 0]

\* The order after an event that Accepts allows.
apply(order, event, fill_quantity, fill_price) ==
    CASE event = "Submit" -> [order EXCEPT !.status = "PendingNew"]
      [] event = "NewAck" -> [order EXCEPT !.status = "Acked"]
      [] event = "NewReject" -> [order EXCEPT !.status = "Rejected"]
      [] event = "PartialFill" -> AfterPartialFill(order, fill_quantity, fill_price)
      [] event = "Fill" -> AfterFill(order, fill_quantity, fill_price)
      [] event = "CancelRequest" -> [order EXCEPT !.status = "PendingCancel"]
      [] event = "CancelAck" -> [order EXCEPT !.status = "Canceled"]
      [] event = "CancelReject" -> AfterCancelReject(order)

=============================================================================
