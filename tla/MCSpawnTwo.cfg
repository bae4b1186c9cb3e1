CONSTANTS
    MaxSpawns = 2
    Contexts = {c1}
    NoContext = NoContext
    MaxConcurrent = 2
    MaxNesting = 1
    PipeCap = 1
    ReadSize = 1
    Options <- TwoOptions
    Programs <- TwoPrograms
SPECIFICATION Spec
INVARIANTS
    EndedOnce
    TimeoutKills
    PollCursor
