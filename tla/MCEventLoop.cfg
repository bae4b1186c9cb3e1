CONSTANTS
    s1 = s1
    Senders = {s1}
    Modes = {"script", "repl", "daemon", "worker"}
    Delays = {2}
    MaxOps = 3
    MaxEvals = 2
    MaxSent = 2
SPECIFICATION FairSpec
INVARIANTS
    WellFormed
    MessagesKept
    NothingForgotten
PROPERTIES
    DueTimerRuns
    MessageHandled
    LoopEnds
CHECK_DEADLOCK FALSE
