CONSTANTS
    Truncated = Truncated
    Content = {a, b}
    Opaque = {}
    MaxCommits = 2
    ConcurrentEditor = FALSE
    MaxIterations = 1
    EventFaults = TRUE
SPECIFICATION JobSpec
PROPERTY TerminalIsFinal
CHECK_DEADLOCK FALSE
