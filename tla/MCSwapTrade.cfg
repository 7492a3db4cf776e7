SPECIFICATION Spec
CONSTANTS
    Peer = {"maker", "taker"}
    Offer <- MCOffer
    Deal = {"d1", "d2"}
    Hash = {"h1", "h2"}
    Bolt11 = {"b1"}
    Msat <- MCMsat
    Id = {"e1", "e2"}
    Tx = {"x1", "x2"}
    Time <- MCTime
    None = None
INVARIANTS TypeOK EvidenceChain SettledOneWay
PROPERTIES AcceptedFrozen
