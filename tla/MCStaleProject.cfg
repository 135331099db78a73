SPECIFICATION Spec
CONSTANTS
    Runs = 2
    MaxInvocations = 2
INVARIANTS
    PassIsOwnGeneration
CHECK_DEADLOCK FALSE
