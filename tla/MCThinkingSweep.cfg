SPECIFICATION SweepSpec
CONSTANTS
    Runs = 2
    MaxInvocations = 2
    MaxRestarts = 1
INVARIANTS
    SweepTypeOK
    MeasuredSweepIsOfItsMode
    TallyIsCurrent
    LogsFollowFiles
PROPERTIES
    WaitsOnlyForBuilds
CHECK_DEADLOCK FALSE
