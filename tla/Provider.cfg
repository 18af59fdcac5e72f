SPECIFICATION Spec
CONSTANTS
    MaxCalls = 2
    MaxCrashes = 1
INVARIANTS
    NothingOutlivesAKill
    ResultsAreTheCalls
PROPERTIES
    CancellationEndsTheCall
CHECK_DEADLOCK FALSE
