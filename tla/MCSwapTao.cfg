SPECIFICATION BotSpec
CONSTANTS
    Settlement = "tao"
    Faults = {"maker error", "taker error", "pay fails", "cancel", "maker crash", "taker crash"}
    RefundWindow = 5
    TermsValid = 2
    InvoiceExpiry = 1
    SwapTimeout = 3
    MinRemaining = 2
    PayBound = 1
    LastReady = 0
    None = None
CHECK_DEADLOCK FALSE
INVARIANTS SameDeal RunningTakerIsSafe MakerRecordsTrue PayerKnowsEscrow
PROPERTIES PaysAgainstEscrow EscrowSettles Completes
