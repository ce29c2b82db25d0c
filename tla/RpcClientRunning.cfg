SPECIFICATION RunningSpec
CONSTANTS
    Callers = {t1, t2, t3}
    Conns = {c1, c2, c3}
    None = None
    MaxConnections = 1
    Retries = 2
    MaxCalls = 1
    AdbMayFail = FALSE
    ArgsMayBeBad = FALSE
PROPERTIES EveryCallEnds
CHECK_DEADLOCK FALSE
