SPECIFICATION Spec
CONSTANTS
    h1 = h1
    h2 = h2
    h3 = h3
    None = None
    Handlers = {h1, h2, h3}
    HasAux = {h3}
    Active = {h3}
    MaxCalls = 8
SYMMETRY Symmetry
INVARIANTS
    EndsAgree
    LinksOnRecord
CHECK_DEADLOCK FALSE
