SPECIFICATION FlowSpec
CONSTANTS
    Symbols = {"AAPL"}
    Prices = {0, 1}
    Quantities = {1}
    MaxOrders = 3
    MaxFills = 4
    PosSymbols = {"AAPL"}
    PosPrices = {0, 1}
    PosSizes = {1, 2}
    MaxTrades = 12
    Requests <- MCRequests
    Cancels = {}
    MaxReports = 16
    MaxAccepted = 3
    MaxCancels = 2
CHECK_DEADLOCK FALSE
INVARIANT QuiescentAgreement
