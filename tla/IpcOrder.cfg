SPECIFICATION FairSpec
CONSTANTS
    Process = {p1, p2}
    NoChannel = NoChannel
    NoMessage = NoMessage
    BufferSize = 2
    MaxChannels = 1
    MaxPending = 2
    ChannelIds = 2
    MaxMessages = 4
    MaxOps = 3
PROPERTIES
    DeliveredInOrder
