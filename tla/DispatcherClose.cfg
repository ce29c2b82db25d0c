SPECIFICATION FairSpec
CONSTANTS
    Names = {m, h}
    Handled = {h}
    Consumers = {a, w}
    Workers = {w}
    Ops = {"pop", "wait", "popAll", "popEvents", "clear"}
    NoName = NoName
    MaxEvents = 1
    MaxCalls = 2
    MaxStarts = 2
    PollMayFail = TRUE
PROPERTIES FreshStart CloseReturns
CHECK_DEADLOCK FALSE
