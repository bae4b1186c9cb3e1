CONSTANTS
    f = f
    g = g
    h = h
    F = F
    miss = miss
    sub = sub
    qg = qg
    lh = lh
    arch = arch
    Names = {f, g, h, F, miss, sub, qg, lh}
    NoName = NoName
    Fold <- CaseFold
    Files = {f, g, h, F, sub, arch}
    Called <- Compiled
    Present = {f, g, h, F, arch}
    Scripts = {f}
    Candidates <- Tried
    Trees <- SomeTrees
    MaxMods = 32
    MaxRequests = 2
SPECIFICATION FairSpec
INVARIANTS
    WellFormed
    AliasesOnly
    ListIsComplete
PROPERTIES
    LoadEnds
