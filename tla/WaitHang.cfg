SPECIFICATION FairSpec
CONSTANTS
    NumPids = 2
    NoPid = NoPid
    WaitRequests <- MCWaitRequests
PROPERTIES
    WokenWhenChildExits
CHECK_DEADLOCK FALSE
