CONSTANTS
    DataFieldLen = 6
    MaxVCFrameCount = 3
    Shapes <- EncapShapes
    MaxPackets = 3
    MaxUnplugs = 0
    WireMax = 2
    NoFrame = NoFrame
    NoPacket = NoPacket
    DropBadFrames = TRUE
    AllowPacketsAfterFill = TRUE
    OutputPVNs <- AllPVNs
    MaxHits = 2
    MaxIdles = 1
SPECIFICATION Spec
CHECK_DEADLOCK FALSE
INVARIANTS OnlyHeadersRead NothingElseLost
PROPERTY PacketService
