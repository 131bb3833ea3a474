CONSTANTS
    DataFieldLen = 14
    MaxVCFrameCount = 3
    Shapes <- LiveShapes
    MaxPackets = 3
    MaxUnplugs = 1
    WireMax = 1
    NoFrame = NoFrame
    NoPacket = NoPacket
    DropBadFrames = TRUE
    AllowPacketsAfterFill = TRUE
    OutputPVNs <- AllPVNs
    MaxHits = 0
    MaxIdles = 0
SPECIFICATION FairSpec
CHECK_DEADLOCK FALSE
INVARIANTS HeaderPointerRight CountsSequential
PROPERTY AllArrive
