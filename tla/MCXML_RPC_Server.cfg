SPECIFICATION FairSpec
CONSTANTS
    devTcp4Server = devTcp4Server
    devFile = devFile
    modTcp4Receiver = modTcp4Receiver
    modTcp4Transmitter = modTcp4Transmitter
    modFdReceiver = modFdReceiver
    d1 = d1
    d2 = d2
    s1 = s1
    s2 = s2
    None = None
    DevModules <- TheDevModules
    SegModules <- TheSegModules
    Deps <- TheDeps
    Side <- TheSides
    Takes <- TheTakes
    Broken = {modFdReceiver}
    Devices = {d1, d2}
    Segments = {s1, s2}
    Files <- TheFiles
    MaxCalls = 4
    MaxSwitches = 2
INVARIANTS CodeInPlace DeviceRecordsAgree SwitchedAsWritten
PROPERTY SwitchEnds
CHECK_DEADLOCK FALSE
