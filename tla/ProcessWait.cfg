SPECIFICATION Spec
CONSTANTS
    NumPids = 3
    NoPid = NoPid
    WaitRequests <- MCWaitRequests
INVARIANTS
    WaitInv
    ReapedOnce
    FamilyTree
    NoLostWakeup
CHECK_DEADLOCK FALSE
