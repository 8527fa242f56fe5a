SPECIFICATION Spec
CONSTANTS
    a = a
    b = b
    a1 = a1
    a2 = a2
    b1 = b1
    Tabs = {a, b}
    Threads = {a1, a2, b1}
    Contexts <- PagesOrWorker
    TabOf <- TwoInOne
    Files = {f1}
    MaxEpoch = 2
SYMMETRY Symmetry
INVARIANTS
    TypeOK
    CustodyMeansStored
    DecisionsAreFresh
