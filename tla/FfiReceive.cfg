SPECIFICATION Spec
CONSTANTS
    a1 = a1
    a2 = a2
    a3 = a3
    k1 = k1
    k2 = k2
    Noise = Noise
    Addr = {a1}
    Material = {k1}
    MAX_ENTRIES = 1
    U64_MAX = 2
    PeerArg <- TwoNodes
    EpochArg = {0}
    InitOutcome = {}
    ChannelArg = {}
    PayloadArg = {}
    Capacity = {0, 100}
    PolicyArg = {}
    Ending = {}
    Datagram <- ReceiveDatagrams
    ALLOW_CORE_DUMPS = FALSE
INVARIANTS
    TypeOK
    RxAccounting
PROPERTIES
    GateSettlesAddressing
    DropIsOpaque
