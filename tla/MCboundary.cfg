SPECIFICATION Spec
CONSTANTS
    Tabs = {s1, s2}
    Edits = {}
    Events = {}
    Views = {v0}
    DefaultView = v0
    None = None
    Commands = {"ATTACH"}
    MaxCheckpoints = 4
    MaxGeneration = 4
    MaxActivations = 2
    MaxFiles = 2
    BoundaryFails = TRUE
    s1 = s1  s2 = s2  e1 = e1  o1 = o1  v0 = v0  v1 = v1
SYMMETRY TabSymmetry
INVARIANTS ReferredFilesStored
