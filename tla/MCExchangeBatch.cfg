SPECIFICATION ExchangeSpec
CONSTANTS
    Requests <- MCRequests
    Cancels = {}
    MaxReports = 16
    MaxAccepted = 9
CONSTRAINT InOrder
INVARIANT ReportsAccount
