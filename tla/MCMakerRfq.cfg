SPECIFICATION Spec
CONSTANTS
    Peer = {"p1", "p2"}
    Trade = {"t1"}
    Key = {"k1", "k2"}
    Rfq <- MCRfqRival
    Swap = {s1, s2}
    MaxTrades = 2
    QuoteValid = 1
    SwapTimeout = 0
    MaxTime = 1
    None = None
SYMMETRY Names
CHECK_DEADLOCK FALSE
INVARIANTS TypeOK OnePerTrade NoHijack LockServes CapacityReturns
