SPECIFICATION Spec
CONSTANTS
    broken = broken
    edited = edited
    fixed = fixed
    MaxTurns = 4
    ReadTools <- MCReadTools
    Projects <- MCProjects
    Passing <- MCPassing
    Pristine = broken
INVARIANTS
    TypeOK
    TranscriptAnswered
    LeftForAReason
    StaleRepliesRepeat
PROPERTIES
    Terminates
    ImplementsContract
CHECK_DEADLOCK FALSE
