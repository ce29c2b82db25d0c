SPECIFICATION FairSpec
CONSTANTS
    Threads = {a, b}
    Attempts = 2
    Ops = {"run", "tunnel", "tunnelAt", "closeTunnel", "close"}
    Ports = {1, 2}
    Remotes = {8}
    MaxMasters = 2
    MaxTunnels = 2
    MaxCalls = 3
INVARIANTS OnlyKnownMaster RunsAtMostAttempts TunnelsAreKept
PROPERTIES CloseClosesTunnels EveryCallEnds
CHECK_DEADLOCK FALSE
