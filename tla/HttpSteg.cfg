SPECIFICATION Spec
CONSTANTS
    Modules = {"http", "http_apache"}
    Conns = {c1, c2}
    Circuits = {k1}
    Dict <- MCDict
    Stored <- MCStored
    Recorded <- MCRecorded
    Active = {{}, {"pdf"}}
    Covered = {"html", "js"}
    Base = 2
    Blocks <- MCBlocks
    FaultKinds = {}
    MaxFaults = 1
INVARIANTS InSync RequestMeaning
PROPERTY DictArrives
CHECK_DEADLOCK FALSE
