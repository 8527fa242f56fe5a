SPECIFICATION Spec
CONSTANTS
    Propositions = {"main", "other"}
    Tests = {"early", "late"}
    Suites <- MCSuites
    Stages = {6, 17, 18, 21, 22, 27}
    EvidenceStages = {17, 22}
    MaxVersion = 2
    MaxEvidence = 3
CHECK_DEADLOCK FALSE
INVARIANTS
    TypeOK
    VerdictsAreExact
    DeferralsAreHonest
    CompletionIsProven
