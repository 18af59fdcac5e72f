CONSTANTS
    NoJob = NoJob
    first = first
    second = second
    shared = shared
    own = own
    Workers = {w1, w2}
    Jobs = {first, second, third}
    Repositories = {shared, own}
    RepositoryOf <- SharedRepository
    Resumed = {}
    Mode = "batch"
SPECIFICATION FairSpec
INVARIANTS
    RepositoryExclusion
    WorkIsAccountedFor
    StopReachesEveryJob
PROPERTIES
    ImplementsWorkQueue
    BatchEnds
CHECK_DEADLOCK FALSE
