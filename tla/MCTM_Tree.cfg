SPECIFICATION Spec
CONSTANTS
    u1 = u1
    u2 = u2
    None = None
    Loose = Loose
    Users <- MCUsers
    HasAux <- MCHasAux
    Demuxes = {1, 2}
    Foreign = {257}
    Ids = {0, 1}
    DropBadFrames = TRUE
    MaxCalls = 3
    MaxFrames = 2
    MaxHits = 1
    MaxEvents = 3
    Configured <- MCConfigured
INVARIANTS RoutesAgree OwnFramesInOrder
PROPERTY AllArrive
CHECK_DEADLOCK FALSE
