CONSTANTS
    a = a
    b = b
    c = c
    Modules = {a, b, c}
    NoModule = NoModule
    Graphs <- AllGraphs
    Awaiting <- Awaits
    Unresolvable <- AtMostOne
    MaxImports = 2
SPECIFICATION FairSpec
INVARIANTS
    WellFormed
    RunInTurn
    OutcomesAreTrue
PROPERTIES
    StartedInOrder
    ImportEnds
