SPECIFICATION FairSpec
CONSTANTS
    Peers = {1, 2}
    Invalid = Invalid
    t1 = t1
    t2 = t2
    Threads = {t1, t2}
    MinFds = 1
    MaxCalls = 2
    MaxNotes = 2
INVARIANTS OneAtATime 
PROPERTY EveryoneServed
CHECK_DEADLOCK FALSE
CONSTRAINT BeforeOverlap
