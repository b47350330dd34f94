SPECIFICATION Spec
CONSTANTS
    a1 = a1
    a2 = a2
    a3 = a3
    k1 = k1
    k2 = k2
    Noise = Noise
    Addr = {a1, a2, a3}
    Material = {k1}
    MAX_ENTRIES = 2
    U64_MAX = 1
    PeerArg <- TwoNodes
    EpochArg = {0, 31}
    InitOutcome = {}
    ChannelArg <- WideChannel
    PayloadArg <- SmallOnly
    Capacity = {100}
    PolicyArg = {}
    Ending = {}
    Datagram = {}
    ALLOW_CORE_DUMPS = FALSE
PROPERTY SealedChannelFitsU16
