CONSTANTS
    MaxSpawns = 1
    Contexts = {c1}
    NoContext = NoContext
    MaxConcurrent = 1
    MaxNesting = 1
    PipeCap = 2
    ReadSize = 2
    Options <- OneOptions
    Programs <- OnePrograms
SPECIFICATION FairSpec
INVARIANTS
    TypeOK
    OutputKept
    DropIsMarked
    UnlistedIsGone
PROPERTIES
    WaitedIsReaped
