SPECIFICATION FairSpec
CONSTANTS
    Procs = {1, 2}
    Ports = {1, 2}
    CmdLines <- SomeCmdLines
    Files <- SomeFiles
    FaultKinds = {"config", "fork", "disk", "kill", "crash"}
    MaxFaults = 1
INVARIANTS PidfileHeld
PROPERTIES SignalReleases
CHECK_DEADLOCK FALSE
