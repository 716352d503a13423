SPECIFICATION FairSpec
CONSTANTS
    NoMessage = NoMessage
    Message = {m1, m2, m3}
    Size = 2
    Word = 8
INVARIANTS
    NoSlotRace
    RingInv
PROPERTIES
    RefinesFifo
    FullRingDrains
