SPECIFICATION Spec
CONSTANTS
    Own = Own
    Theirs = {t1, t2}
    Quotes = {q1, q2}
    MaxLines = 1
    QuoteFromRfqs = FALSE
    MaxFaults = 2
    None = None
    t1 = t1
    t2 = t2
    q1 = q1
    q2 = q2
SYMMETRY Names
CHECK_DEADLOCK FALSE
INVARIANTS OneQuoteAccepted LineSoldOnce LocksReturn
