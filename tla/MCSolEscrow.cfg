SPECIFICATION Spec
CONSTANTS
    Key = {"maker", "taker", "op"}
    Admin = {"op"}
    Hash = {"h1", "h2"}
    Preimage = {"p1", "p2"}
    Sha256 <- MCSha256
    Amount <- MCAmount
    Bps <- MCBps
    Request <- MCRequest
    Supply <- MCSupply
    MaxTime = 2
    None = None
INVARIANTS VaultBacksEscrow Conserved
PROPERTIES ImplementsHtlc
