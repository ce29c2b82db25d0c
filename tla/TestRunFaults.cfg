SPECIFICATION Spec
CONSTANTS
    Beds = 2
    Classes = 2
    Tests = 3
    Limit = 2
    Attempts = 2
    HooksMayRaise = TRUE
INVARIANTS
    OneRecordPerTest
    CounterTracksRecords
    ClassesAreTornDown
    
    RanIsRecorded
    AbortIsFinal
CHECK_DEADLOCK FALSE
