CONSTANTS
    Truncated = Truncated
    Content = {a, b, big}
    Opaque = {big}
    MaxCommits = 3
    ConcurrentEditor = FALSE
SPECIFICATION FairSpec
INVARIANTS
    OnlyReviewedIsCommitted
    OpaqueIsNeverCommitted
    PushedIsOnRemote
    StopBoundsWrites
    AmbiguityHasACause
PROPERTIES
    CommitIsTracked
    PublicationReturns
CHECK_DEADLOCK FALSE
