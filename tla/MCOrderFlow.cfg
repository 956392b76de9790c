SPECIFICATION FlowSpec
CONSTANTS
    Symbols = {"AAPL", "SIM"}
    Prices = {0, 1}
    Quantities = {1, 3}
    MaxOrders = 3
    MaxFills = 4
    PosSymbols = {"AAPL", "SIM"}
    PosPrices = {0, 1}
    PosSizes = {1, 3}
    MaxTrades = 12
    Requests <- MCRequests
    Cancels = {}
    MaxReports = 16
    MaxAccepted = 3
    MaxCancels = 2
CONSTRAINT KeysDistinct
INVARIANT FlowTypeOK
INVARIANT EveryFillOnce
INVARIANT QuiescentAgreement
INVARIANT PositionIsFills
PROPERTY AnswersArrive
CHECK_DEADLOCK FALSE
