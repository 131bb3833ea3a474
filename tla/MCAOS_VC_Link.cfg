CONSTANTS
    DataFieldLen = 8
    MaxVCFrameCount = 1
    Shapes <- LinkShapes
    MaxPackets = 2
    Lengths <- TwoLengths
    MaxSizings = 1
    QueueMax = 1
    NoPdu = NoPdu
    NoPacket = NoPacket
    AllowPacketsAfterFill = TRUE
    WireMax = 1
    MaxHits = 2
SPECIFICATION FairSpec
CHECK_DEADLOCK FALSE
INVARIANTS Reassembled NothingElseLost WellCounted
PROPERTY AllArrive
