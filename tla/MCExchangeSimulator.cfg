SPECIFICATION ExchangeSpec
CONSTANTS
    Requests <- MCRequests
    Cancels <- MCCancels
    MaxReports = 16
    MaxAccepted = 4
INVARIANT ExchangeTypeOK
INVARIANT IndexExact
INVARIANT NeverCrossed
INVARIANT ReportsAccount
PROPERTY PriceTimePriority
PROPERTY ProcessReturns
