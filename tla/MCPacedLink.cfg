CONSTANTS
    Intervals = {0, 1, 2}
    FirstInterval = 2
    MaxUnits = 3
    MaxUnit = 3
    MaxAge = 0
    MaxLag = 0
    Nothing = Nothing
    Nobody = Nobody
    MaxTime = 9
    Delays = {0, 1}
    FirstDelay = 0
    FirstReorder = TRUE
    Jitter = 1
    Starts = {1}
    Cycle = 0
    UseTimeStamp = FALSE
    HighWater = 2
    MaxCalls = 1
SPECIFICATION FairSpec
INVARIANTS UnitsInOrder SlotsFilled OneOutOfTurn
PROPERTIES NoneEarly EveryUnitLeaves
