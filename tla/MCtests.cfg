SPECIFICATION Spec
CONSTANTS
    SafeMax = 6
    MaxSteps = 7
    MaxItems = 3
    Specifications <- SomeSpecifications
    Inputs <- SomeInputs
    Builds <- TwoBuilds
    Manifested = TRUE
CHECK_DEADLOCK FALSE
INVARIANTS
    TypeOK
    DeterminationEarned
    ValidationIsSound
PROPERTIES
    SettledForGood
    ExecutionsSettle
