SPECIFICATION SimSpec
CONSTANTS
    Symbols = {"AAPL", "SIM"}
    Prices <- MCPrices
    Quantities = {10}
    MaxOrders = 40
    MaxFills = 40
    PosSymbols = {"AAPL", "SIM"}
    PosPrices <- MCPrices
    PosSizes = {10}
    MaxTrades = 80
    Requests <- MCRequests
    Cancels = {}
    MaxReports = 16
    MaxAccepted = 40
    MaxCancels = 0
    MdIds = {0, 1, 2, 3, 4, 5, 6, 7, 8, 9, 10, 11, 12, 13, 14, 15, 16, 17, 18, 19, 20}
    MdPrices <- MCPrices
    MdQuantities = {0, 3, 5, 10, 11, 12, 13, 14}
    AllowedSymbols = {"AAPL", "SIM"}
    MaxOrderQuantity = 100
    MaxNotional = 2000000
    MaxAbsPosition = 15
    PriceBandTicks = 10
    MaxOrdersPerWindow = 2
    OrderRateWindow = 2
    TimestampModulus = 1073741824
    StrategySymbol = "AAPL"
    OrderQuantity = 10
    MaxSpread = 10
    GenerateBuy = TRUE
    GenerateSell = TRUE
    NotANumber = NotANumber
    U64Modulus = 1073741824
    Lines <- MCLines
    SyntheticEvents = 20
    MaxEvents = 4
    MaxInvalid = 1
INVARIANT SimTypeOK
INVARIANT RateLimited
INVARIANT SummaryHonest
INVARIANT PositionsBounded
INVARIANT QuiescentAgreement
PROPERTY ImplementsFlow
PROPERTY ReplayProcessed
CHECK_DEADLOCK FALSE
