SPECIFICATION TaoSpec
CONSTANTS
    Account = {"maker", "taker"}
    Hash = {"h1", "h2"}
    Preimage = {"p1", "p2"}
    Sha256 <- MCSha256
    Value = {0, 1, 2}
    Salt = {"s1", "s2"}
    Calls <- MCCalls
    Funds <- MCFunds
    MaxTime = 3
INVARIANTS Solvent
PROPERTIES TaoIsHtlc
CHECK_DEADLOCK FALSE
