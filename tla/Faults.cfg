SPECIFICATION Spec
CONSTANTS
    W = 2
    MaxRetransmit = 1
    Offer <- Pair20
    MaxBlockUnits = 1
    AckEvery = 2
    RetransmitSides = {"client", "server"}
    MaxSteg = 1
    MaxSends <- Pair10
    MaxReplies = 0
    MaxWire <- Pair21
    FaultKinds = {"lose", "transmit", "open", "reopen", "upstream", "axe"}
    MaxFaults = 1
INVARIANTS TypeOK InOrder
CHECK_DEADLOCK FALSE
