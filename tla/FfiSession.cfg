SPECIFICATION Spec
CONSTANTS
    a1 = a1
    a2 = a2
    a3 = a3
    k1 = k1
    k2 = k2
    Noise = Noise
    Addr = {a1}
    Material = {k1}
    MAX_ENTRIES = 1
    U64_MAX = 1
    PeerArg <- TwoNodes
    EpochArg = {0}
    InitOutcome <- AnyInit
    ChannelArg = {}
    PayloadArg = {}
    Capacity = {100}
    PolicyArg <- Policies
    Ending = {"exited", "aborted"}
    Datagram <- LogDatagrams
    ALLOW_CORE_DUMPS = FALSE
INVARIANTS
    
    ExitErasesKeys
    CrashLeavesNoCore
PROPERTIES
    CountersNeverDecrease
