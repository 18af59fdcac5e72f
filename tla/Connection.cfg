SPECIFICATION Spec
CONSTANTS
    Clients = {c1}
    MaxEvents = 4
    Capacity = 3
    MaxReplayed = 2
    GuardCapacity = 1
    MaxCrashes = 1
    MaxMessageBytes = 5
    Shown = 2
INVARIANTS
    StreamIsExact
    RunningChainIsControllable
    StreamsAreUnderstood
PROPERTIES
    ConnectionsEnd
    JobsNeverWaitForViewers
CHECK_DEADLOCK FALSE
