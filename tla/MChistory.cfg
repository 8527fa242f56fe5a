SPECIFICATION Spec
CONSTANTS
    Tabs = {s1, s2}
    Edits = {e1}
    Events = {}
    Views = {v0, v1}
    DefaultView = v0
    None = None
    Commands = {"WRITE", "UNDO", "REDO", "VIEW"}
    MaxCheckpoints = 5
    MaxGeneration = 5
    MaxActivations = 3
    MaxFiles = 0
    BoundaryFails = FALSE
    s1 = s1  s2 = s2  e1 = e1  o1 = o1  v0 = v0  v1 = v1
SYMMETRY TabSymmetry
INVARIANTS RedoOffersOnce
PROPERTIES ViewsKeepRedo UndoneWorkRedoable
