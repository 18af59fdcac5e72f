SPECIFICATION Spec
CONSTANTS
    Names = {"a", "b"}
    Spare = {"d1", "d2"}
    Texts = {"x", "y"}
    MaxIterations = 2
    MaxCalls = 2
INVARIANTS
    ConversationIsSound
    WorkspaceIsSound
    CallsAreRead
PROPERTIES
    RunEnds
CHECK_DEADLOCK FALSE
