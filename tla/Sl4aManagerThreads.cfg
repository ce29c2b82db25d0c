SPECIFICATION FairSpec
CONSTANTS
    Threads = {m, a, b}
    Main = m
    Callers = {m, a}
    Reporters = {a, b}
    Ports = {1, 2}
    Foreign = {1}
    Tries = 2
    MaxReports = 1
    MaxRequests = 2
    MaxSessions = 2
    MaxLaunches = 2
    MaxCalls = 3
INVARIANTS HandedOutOnce  LiveSessionsAreManaged
PROPERTIES FinalizedMeansDone TerminateAllReturns
CHECK_DEADLOCK FALSE
