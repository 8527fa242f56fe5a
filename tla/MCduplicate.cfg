SPECIFICATION Spec
CONSTANTS
    StageCount = 2
    Kinds = {"DATA_PROPOSAL", "INVALID", "MALFORMED"}
    Layouts = {"compact", "indented"}
    Intakes = {"first"}
    Entries = {"empty"}
    MaxRevision = 3
    MaxInputs = 1
    MaxPrompts = 1
    MaxRaws = 2
CHECK_DEADLOCK FALSE
PROPERTY
    ReturningAgainIsHarmless
