SPECIFICATION FairSpec
CONSTANTS
    Makers = {m1, m2}
    MaxTrades = 2
    Listen = TRUE
    TaoPair = TRUE
    Bounds <- MCBounds
    Own <- MCOwn
    Offers <- MCOffers
    Quotes <- MCQuotes
    MaxFaults = 1
    None = None
CHECK_DEADLOCK FALSE
INVARIANTS OneMaker WithinFlags Capacity
PROPERTIES Served
