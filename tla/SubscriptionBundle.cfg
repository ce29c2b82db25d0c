SPECIFICATION FairSpec
CONSTANTS
    Threads = {a, b}
    Registrars = {a}
    None = None
    Subs = {"own1", "own2", "other1", "other2"}
    Own = {"own1", "own2"}
    Types = {"child", "base"}
    TypeOf <- MCTypeOf
    OrderOf <- MCOrderOf
    Mro <- MCMro
    MaxPosts = 1
    MaxCalls = 3
INVARIANTS BusIsConsistent BundleMatchesBus
PROPERTIES UndisturbedAreFound EveryCallEnds
CHECK_DEADLOCK FALSE
