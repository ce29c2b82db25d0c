SPECIFICATION FairSpec
CONSTANTS
    BufferSize = 2
    Window = 1
    Settle = 1
    MaxBuffers = 3
    ReadMayFail = TRUE
    DeviceMayFail = TRUE
INVARIANTS ExclusiveDevice RightCalibration ResultIsComplete
PROPERTIES RunReturnsUnlessRaised
CHECK_DEADLOCK FALSE
