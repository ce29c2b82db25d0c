SPECIFICATION Spec
CONSTANTS
    Names = {m, n}
    Handled = {}
    Consumers = {a, b}
    Workers = {}
    Ops = {"pop", "wait", "peek", "popAll", "popEvents", "clear"}
    NoName = NoName
    MaxEvents = 3
    MaxCalls = 1
    MaxStarts = 1
    PollMayFail = TRUE
INVARIANTS NothingLost OldestFirst
CHECK_DEADLOCK FALSE
