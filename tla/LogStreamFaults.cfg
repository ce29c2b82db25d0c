SPECIFICATION LSpec
CONSTANTS
    Beds = 2
    Classes = 2
    Tests = 1
    Limit = 2
    Attempts = 1
    HooksMayRaise = TRUE
    MaxLost = 1
    Streams <- MCStreams
    Style <- MCStyle
    TestLog = "test_run"
    MaxCreates = 2
INVARIANTS
    StackIsWhereWeAre
    HandlersFollowTheRun
    NoStaleFiles
CHECK_DEADLOCK FALSE
