SPECIFICATION Spec
CONSTANTS
    Conns = {c1, c2}
    Kinds = {"apache", "trace"}
    Types = {"html", "swf"}
    Database <- MCDatabase
    Trace <- MCTrace
    MinCapacity = 1
    MaxMessage = 2
    BufferSize = 8
    Noise = 2
    MinBlock = 1
    CacheSize = 1
    MaxSearch = 2
    MaxFetch = 2
    MaxCandidates = 2
    Documents <- MCDocuments
INVARIANTS CacheCoherent UsableFits GoodMeansSent
PROPERTY TransmitReturns
CHECK_DEADLOCK FALSE
