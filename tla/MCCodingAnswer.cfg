SPECIFICATION Spec
CONSTANTS
    p = p
    q = q
    Paths <- MCPaths
    MaxTokens = 6
    MaxReasoned = 1
INVARIANTS
    TypeOK
    NothingLost
    AnswerIsWhatWasNotThought
    FilesAreLastBlocks
PROPERTIES
    FilesAccumulate
CHECK_DEADLOCK FALSE
