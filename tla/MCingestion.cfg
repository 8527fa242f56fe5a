SPECIFICATION MidwaySpec
CONSTANTS
    StageCount = 2
    Kinds = {"DATA_PROPOSAL", "HUMAN_INPUT_REQUIRED", "BLOCKED", "INVALID", "MALFORMED"}
    Layouts = {"compact"}
    Intakes = {"first", "other"}
    Entries = {"empty", "filled"}
    MaxRevision = 9
    MaxInputs = 3
    MaxPrompts = 4
    MaxRaws = 3
CHECK_DEADLOCK FALSE
INVARIANTS
    TypeOK
    CompleteIsEarned
    NoOrphanedWork
PROPERTIES
    AcceptsCurrentWork
    ShownBeforeLost
    ResponsesKept
