SPECIFICATION RowSpec
CONSTANTS
    MaxFaults = 2
    Null = Null
CHECK_DEADLOCK FALSE
INVARIANTS
    Recoverable
    Listed
PROPERTIES
    SettledIsTrue
    Recorded
