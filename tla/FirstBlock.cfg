SPECIFICATION Spec
CONSTANTS
    W = 3
    MaxRetransmit = 1
    Offer <- Pair00
    MaxBlockUnits = 1
    AckEvery = 2
    RetransmitSides = {"client", "server"}
    MaxSteg = 0
    MaxSends <- Pair41
    MaxReplies = 1
    MaxWire <- Pair41
    FaultKinds = {}
    MaxFaults = 0
INVARIANT FirstBlockKept
CHECK_DEADLOCK FALSE
