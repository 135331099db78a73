SPECIFICATION Spec
CONSTANTS
    p = p
    q = q
    Paths <- MCPaths
    MaxTokens = 6
    MaxReasoned = 0
INVARIANTS
    ThinkingIsNotExtracted
CHECK_DEADLOCK FALSE
