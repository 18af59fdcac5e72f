CONSTANTS
    Clients = {c1}
    i1 = i1
    i2 = i2
    i3 = i3
    Script <- MCScript
    Large <- MCLarge
    MaxBacklog = 1
    MaxActive = 2
    MaxBytes = 2
    MaxJobs = 2
    MaxTurns = 1
    MaxRequests = 3
    MaxCrashes = 1
SPECIFICATION Spec
INVARIANTS
    InstructionsAreKept
    WorkIsBounded
PROPERTIES
    RequestsAreHeard
CHECK_DEADLOCK FALSE
