----------------------- MODULE ExecutionReportHandler -----------------------
(***************************************************************************)
(* ExecutionReportHandler (src/execution/execution_report_handler.cpp):     *)
(* applies an execution report to the OMS and, for a fill, to the          *)
(* positions, unless its key was seen before.                              *)
(***************************************************************************)
EXTENDS OrderManager, PositionManager

VARIABLE seen_reports

handlerVars == <<orderVars, positionVars, seen_reports>>

\* The bits of a byte.
Weights == {1, 2, 4, 8, 16, 32, 64, 128}

Bit(n, weight) == (n \div weight) % 2

\* client_order_id ^ (exchange_order_id + 0x9e3779b97f4a7c15) << 1: 0x15 = 21 is
\* the low byte of the constant.  Below 107 exchange ids only move the low eight
\* bits of the shifted sum, and client ids below 256 only those bits.
MixedIds(client, exch) == [w \in Weights |-> Bit(client, w) # Bit(2 * (exch + 21), w)]

\* Mutant: the ids are left out of the key.
report_key_idless(report) ==
    <<report.type, report.last, report.cumulative, report.leaves>>

\* The ids share the low byte; type and quantities below 2^16 have bits of their own.
report_key(report) ==
    <<MixedIds(report.client, report.exch), report.type,
      report.last, report.cumulative, report.leaves>>

\* Mutant: no report counts as a duplicate.
duplicate_never(report) == FALSE

duplicate(report) == report_key(report) \in seen_reports

remember(report) == seen_reports' = seen_reports \cup {report_key(report)}

\* Mutant: the position moves by the cumulative quantity.
apply_fill_report_cumulative(report) ==
    apply_trade(report.symbol, report.side, report.price, report.cumulative)

\* positions_.apply_fill(report)
apply_fill_report(report) ==
    apply_trade(report.symbol, report.side, report.price, report.last)

\* The switch over exec_type: the OMS takes the report, and with it the positions.
Update(report) ==
    \/ /\ \/ report.type = "NewAck" /\ on_new_ack(report.client, report.exch)
          \/ report.type = "NewReject" /\ on_new_reject(report.client)
          \/ report.type = "CancelAck" /\ on_cancel_ack(report.client)
          \/ report.type = "CancelReject" /\ on_cancel_reject(report.client)
       /\ UNCHANGED positionVars
    \/ /\ \/ report.type = "PartialFill"
             /\ on_partial_fill(report.client, report.last, report.price)
          \/ report.type = "Fill" /\ on_fill(report.client, report.last, report.price)
       /\ apply_fill_report(report)

\* The report is known, new and allowed in the state of its order.
Acceptable(report) ==
    /\ report.client # 0 /\ report.client \in ClientIds
    /\ ~duplicate(report)
    /\ Takes(report.client, report.type, report.last, report.price)

\* A report that is refused leaves no trace, not even its key.
on_report(report) ==
    IF Acceptable(report) THEN Update(report) /\ remember(report)
                          ELSE UNCHANGED handlerVars

HandlerInit == OrdersInit /\ PositionsInit /\ seen_reports = {}

=============================================================================
