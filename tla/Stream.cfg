SPECIFICATION Spec
CONSTANTS
    W = 3
    MaxRetransmit = 1
    Offer <- Pair30
    MaxBlockUnits = 1
    AckEvery = 2
    RetransmitSides = {"client", "server"}
    MaxSteg = 0
    MaxSends <- Pair00
    MaxReplies = 3
    MaxWire <- Pair31
    FaultKinds = {"lose", "transmit", "open", "reopen", "upstream"}
    MaxFaults = 1
INVARIANTS NonceFresh EofTruthful FinIsLast WindowsOverlap ReleasedWasReceived
PROPERTY ImplementsByteStream
CHECK_DEADLOCK FALSE
