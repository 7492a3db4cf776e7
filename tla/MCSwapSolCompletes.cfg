SPECIFICATION BotSpec
CONSTANTS
    Settlement = "solana"
    Faults = {}
    RefundWindow = 6
    TermsValid = 3
    InvoiceExpiry = 2
    SwapTimeout = 3
    MinRemaining = 2
    PayBound = 1
    LastReady = 1
    None = None
CHECK_DEADLOCK FALSE
PROPERTIES Completes
