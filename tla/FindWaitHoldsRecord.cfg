CONSTANTS
    MaxSpawns = 1
    Contexts = {c1}
    NoContext = NoContext
    MaxConcurrent = 1
    MaxNesting = 1
    PipeCap = 1
    ReadSize = 1
    Options <- BareOptions
    Programs <- BarePrograms
SPECIFICATION Spec
INVARIANT WaitHoldsRecord
