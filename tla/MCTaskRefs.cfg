SPECIFICATION Spec
CONSTANTS
    c1 = c1
    c2 = c2
    title = title
    Clients <- MCClients
    Titles <- MCTitles
    MaxId = 3
INVARIANTS
    TypeOK
    HolesAreInFlight
PROPERTIES
    ImplementsTaskApi
