SPECIFICATION FullSpec
CONSTANTS
    Levels <- MCLevels
    Reps = 2
    Cases <- MCCases
    CaseReps = 2
    Emitted <- MCEmitted
    Episodes = 3
    Powers <- MCPowers
    MaxInvocations = 2
INVARIANTS
    ThroughputTypeOK
    LevelsDoNotOverlap
    RowsAreWhole
    AllOrNothing
    NothingSentAfterFailure
    OkMeansFaithful
    BooksAgree
    ReportIsComplete
    AgentRunTypeOK
    JudgedOnOwnWork
    ReportIsWhole
PROPERTIES
    EvidenceKept
    ThroughputEnds
    AgentRunEnds
CHECK_DEADLOCK FALSE
