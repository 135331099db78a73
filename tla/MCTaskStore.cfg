SPECIFICATION Spec
CONSTANTS
    c1 = c1
    c2 = c2
    c3 = c3
    title = title
    Clients <- MCClients
    Titles <- MCTitles
    Serves <- MCServes
    MaxId = 2
INVARIANTS
    TypeOK
PROPERTIES
    DeletedStaysDeleted
    ImplementsTaskApi
    Answered
