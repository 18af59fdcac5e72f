CONSTANTS
    NoJob = NoJob
    first = first
    second = second
    shared = shared
    own = own
    Workers = {w1, w2}
    Jobs = {first, second}
    Repositories = {shared, own}
    RepositoryOf <- SharedRepository
    Resumed = {second}
    Mode = "daemon"
SPECIFICATION FairSpec
PROPERTIES
    DaemonServesItsQueue
CHECK_DEADLOCK FALSE
