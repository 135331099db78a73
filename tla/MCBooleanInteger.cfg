SPECIFICATION FidelitySpec
CONSTANTS
    Cases <- MCCases
    CaseReps = 1
    Emitted <- MCEmitted
INVARIANTS
    OkConforms
CHECK_DEADLOCK FALSE
