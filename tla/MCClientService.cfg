CONSTANTS
    Clients = {c1, c2}
    Threads = 2
    Requests <- Some
    MaxRequests = 2
    Pipelining = FALSE
    MaxStalls = 1
    MaxFailures = 1
    FileNames = {"a"}
SPECIFICATION HttpFairSpec
CHECK_DEADLOCK FALSE
INVARIANTS DoneOnceAsAsked FilesWhole
PROPERTY EveryoneAnswered
