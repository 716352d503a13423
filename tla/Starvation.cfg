SPECIFICATION FairSpec
CONSTANTS
    NoPid = NoPid
    NoProcess = NoProcess
    MaxPids = 3
    MaxQueued = 4
CHECK_DEADLOCK FALSE
PROPERTIES
    ReadyRuns
