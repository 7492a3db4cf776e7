SPECIFICATION Spec
CONSTANTS
    Settlement = "tao"
    Faults = {}
    RefundWindow = 8
    TermsValid = 3
    InvoiceExpiry = 5
    SwapTimeout = 3
    MinRemaining = 2
    PayBound = 1
    LastReady = 1
    None = None
CHECK_DEADLOCK FALSE
INVARIANTS PaidIsRecoverable
