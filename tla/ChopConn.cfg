SPECIFICATION Spec
CONSTANTS
    Conns = {c1, c2}
    Roles = {"client", "server"}
    Stegs = {"plain", "turns", "http"}
    Proxy = {TRUE, FALSE}
    MaxMessages = 2
    MaxConn = 2
    FaultKinds = {"transmit", "conn", "garbage", "open", "upstream", "graceful", "forced", "covers"}
    MaxFaults = 1
SYMMETRY ConnSymmetry
INVARIANTS LinkedBothWays LonelyCircuitTimed AxeOnlyWithoutRoom TurnKept ChokedWillDrain OrphansOnlyAfterFin CrashHasCause
PROPERTY NotRevived
CHECK_DEADLOCK FALSE
