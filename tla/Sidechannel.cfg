SPECIFICATION FairSpec
CONSTANTS
    Owner = o
    Guests = {g1, g2}
    Texts = {m}
    RelayTtl = 1
    AppPings = TRUE
    MaxFaults = 1
    None = None
CHECK_DEADLOCK FALSE
INVARIANTS AtMostOnce InviteOnly Delivers
PROPERTIES Authorizes
