CONSTANTS
    MaxSpawns = 3
    Contexts = {c1, c2}
    NoContext = NoContext
    MaxConcurrent = 1
    MaxNesting = 2
    PipeCap = 1
    ReadSize = 1
    Options <- BareOptions
    Programs <- BarePrograms
SYMMETRY ContextSymmetry
SPECIFICATION Spec
INVARIANT AliveWithinLimit
PROPERTY PromiseStep
