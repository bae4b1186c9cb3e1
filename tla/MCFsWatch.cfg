CONSTANTS
    a = a
    b = b
    Copies = {a}
    NoCopy = NoCopy
    Throttled = TRUE
    MaxWatchers = 2
    MaxIds = 2
    MaxChanges = 2
    MaxGen = 2
SPECIFICATION FairSpec
INVARIANTS
    WellFormed
    
    PumpWhileWatching
    ShutdownCloses
PROPERTIES
    SeenWhileOpen
    CloseEnds
    QueuedIsSeen
