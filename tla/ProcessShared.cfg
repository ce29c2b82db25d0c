SPECIFICATION FairSpec
CONSTANTS
    Clients = {a, b}
    Starters = {a}
    MaxStarts = 3
    MaxRestarts = 1
    MaxStops = 1
    SpawnMayFail = TRUE
INVARIANTS OneRun OutputBeforeCallback
PROPERTIES StopEndsTheRun StopReturnsUnlessRestarted
CHECK_DEADLOCK FALSE
