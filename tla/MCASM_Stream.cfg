CONSTANTS
    Bytes <- Octets
    Marker <- AAB
    ExpectedUnitLength = 2
    AllowedMarkerBitErrors = 1
    Far = 2
    Contents <- TwoContents
    BufferLengths = {1, 2, 3, 4, 7}
    MaxUnits = 3
    MaxHits = 2
    NoUnit = NoUnit
SPECIFICATION StreamSpec
CHECK_DEADLOCK FALSE
INVARIANTS WellFramed InStep
