SPECIFICATION TaskFairSpec
CONSTANTS
    c1 = c1
    c2 = c2
    Controllers = {c1, c2}
    MaxOps = 4
    MayOutlast = TRUE
INVARIANTS
    TaskTypeOK
    DoneUnlessServing
PROPERTIES
    NoTakeWhenQuiet
    QuietLeaves
    CallsReturn
CHECK_DEADLOCK FALSE
