SPECIFICATION FairSpec
CONSTANTS
    Traces <- SomeTraces
    Los = {1, 3}
    hi = 4
    IdxLen = 2
    LenLen = 1
    Short = 8
INVARIANTS DataIntact
 
CHECK_DEADLOCK FALSE
