SPECIFICATION FairSpec
CONSTANTS
    Clients = {a}
    Starters = {a}
    MaxStarts = 1
    MaxRestarts = 1
    MaxStops = 1
    SpawnMayFail = FALSE
PROPERTIES StopReturns
CHECK_DEADLOCK FALSE
