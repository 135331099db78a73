SPECIFICATION SweepSpec
CONSTANTS
    Runs = 2
    MaxInvocations = 2
    MaxRestarts = 0
INVARIANTS
    SweepIsOfItsMode
CHECK_DEADLOCK FALSE
