SPECIFICATION FairSpec
CONSTANTS
    Streams = {1}
    Modes = {"simple","socks"}
    Offer <- Offer11
    MaxConns = 1
    FaultKinds = {"connect", "open", "upstream", "downstream"}
    MaxFaults = 1
    Shutdowns = {"signal", "stdin"}
INVARIANTS LinksAgree ClosedAreCollected ExitIsClean EndOfFileTruthful CrashNeedsError
PROPERTIES SignalEnds DataDelivered
CHECK_DEADLOCK FALSE
