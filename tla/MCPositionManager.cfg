SPECIFICATION PositionsSpec
CONSTANTS
    PosSymbols = {s1, s2}
    PosPrices = {0, 4, 7}
    PosSizes = {0, 1, 2, 5}
    MaxTrades = 5
INVARIANT PositionsTypeOK
INVARIANT PositionConsistent
INVARIANT ProfitMatchesCash
CHECK_DEADLOCK FALSE
