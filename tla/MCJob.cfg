CONSTANTS
    Truncated = Truncated
    Content = {a, b}
    Opaque = {}
    MaxCommits = 2
    ConcurrentEditor = FALSE
    MaxIterations = 2
    EventFaults = TRUE
SPECIFICATION FairJobSpec
INVARIANTS
    RecordIsSound
    PublishedMeansPublished
    RecordedCommitIsOwed
PROPERTIES
    NoRunIsReplayed
    OutcomeIsFinal
    StopEndsTheJob
CHECK_DEADLOCK FALSE
