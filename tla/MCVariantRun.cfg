SPECIFICATION VariantSpec
CONSTANTS
    Runs = 4
    MaxInvocations = 2
    N = 2
    scala = scala
    rust = rust
    go = go
    Tasks <- MCTasks
    Prompts <- MCPrompts
INVARIANTS
    CountsAreCurrentWherePrompted
CHECK_DEADLOCK FALSE
