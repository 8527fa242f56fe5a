SPECIFICATION Spec
CONSTANTS
    Tabs = {s1, s2}
    Edits = {}
    Events = {o1}
    Views = {v0}
    DefaultView = v0
    None = None
    Commands = {"ATTACH", "OPERATE", "REMOVE", "EXPORT", "IMPORT"}
    MaxCheckpoints = 5
    MaxGeneration = 5
    MaxActivations = 2
    MaxFiles = 1
    BoundaryFails = TRUE
    s1 = s1  s2 = s2  e1 = e1  o1 = o1  v0 = v0  v1 = v1
SYMMETRY TabSymmetry
INVARIANTS TypeOK JournalBound HistoryBindsHead ActiveEntryHoldsWork
PROPERTIES NoLostUpdate RetainedVersionsImmutable ReplacedWorkRetained ImplementsPromise
