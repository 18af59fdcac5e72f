SPECIFICATION Spec
CONSTANTS
    Procs = {p1, p2}
    Jobs = {j1, j2}
    shared = shared
    Repos = {shared}
    RepoOf <- SameRepository
    Free = Free
    LegacyJobs = {j1}
    MaxLaunches = 3
    MaxCrashes = 1
    MaxRequests = 2
INVARIANTS
    OneDriver
    DaemonIsKnown
    WorkMeansTheSame
    JobsAreFound
PROPERTIES
    FinishedJobsAreLeftAlone
    
CHECK_DEADLOCK FALSE
