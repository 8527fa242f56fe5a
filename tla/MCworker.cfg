SPECIFICATION FairSpec
CONSTANTS
    p1 = p1  p2 = p2
    Operations = {p1, p2}
    None = None
    MaxRevision = 3
INVARIANTS TypeOK ResultHoldsCommit
PROPERTIES ReportsAreTrue RequestsSettle
