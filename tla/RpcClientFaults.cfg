SPECIFICATION Spec
CONSTANTS
    Callers = {t1, t2, t3}
    Conns = {c1, c2, c3, c4}
    None = None
    MaxConnections = 2
    Retries = 1
    MaxCalls = 1
    AdbMayFail = TRUE
    ArgsMayBeBad = TRUE
SYMMETRY Symmetry
INVARIANTS ExclusiveUse CapacityRespected OwnAnswer
PROPERTIES PoolSpec
CHECK_DEADLOCK FALSE
