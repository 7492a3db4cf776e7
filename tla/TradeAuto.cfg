SPECIFICATION Spec
CONSTANTS
    MaxInvoices = 2
    RetryMax = 1
    PayTries = 2
    ReplayMax = 1
    Salted = TRUE
    MaxFaults = 2
    MaxRestarts = 1
CHECK_DEADLOCK FALSE
INVARIANTS PaidIsBacked CancelFirst Exposure InFlight
