CONSTANTS
    a = a
    b = b
    c = c
    Modules = {a, b, c}
    NoModule = NoModule
    Graphs <- Chain
    Awaiting <- OneAwaits
    Unresolvable <- NoneBroken
    MaxImports = 2
SPECIFICATION FairSpec
PROPERTY EvaluateRuns
