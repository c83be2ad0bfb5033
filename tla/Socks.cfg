SPECIFICATION FairSpec
CONSTANTS
    Requests <- SomeRequests
    Payload <- TwoBytes
    Targets = {1, 2, 3}
    IPv6Len = 5
    SOCKS4_MAX_LENGTH = 15
    MaxAddr = 6
INVARIANTS RequestUnderstood NothingLost
PROPERTIES RequestAnswered
CHECK_DEADLOCK FALSE
