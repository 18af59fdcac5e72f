CONSTANTS
    Clients = {c1}
    i1 = i1
    i2 = i2
    i3 = i3
    Script <- MCScript
    Large <- MCLarge
    MaxBacklog = 2
    MaxActive = 2
    MaxBytes = 2
    MaxJobs = 2
    MaxTurns = 1
    MaxRequests = 1
    MaxCrashes = 0
SPECIFICATION Spec
INVARIANT
    InstructionsStayWithTheirJob
CHECK_DEADLOCK FALSE
