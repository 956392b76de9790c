-------------------------- MODULE MCExchangeBatch --------------------------
(* Eight resting sells of one share and a buy of eight: the acknowledgement   *)
(* and two fill reports per trade make seventeen reports, one more than a    *)
(* batch of MaxReports = 16 holds.  The constraint has clients arrive in      *)
(* the order of their ids.                                                 *)
EXTENDS ExchangeSimulator

Limit(client, side, quantity) ==
    [client |-> client, symbol |-> "AAPL", side |-> side, type |-> "Limit",
     price |-> 1, quantity |-> quantity]

MCRequests == {Limit(c, "Sell", 1) : c \in 1 .. 8} \cup {Limit(9, "Buy", 8)}

InOrder == \A x \in DOMAIN ledger : ledger[x].client = x

=============================================================================
