SPECIFICATION Spec
CONSTANTS
    Tabs = {s1, s2}
    Permitted = 1
    MaxRevision = 7
    s1 = s1  s2 = s2
SYMMETRY TabSymmetry
INVARIANTS TypeOK WithinPermission OutcomesAreTrue
PROPERTIES OutcomesSettle
