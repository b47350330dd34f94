SPECIFICATION Spec
CONSTANTS
    a1 = a1
    a2 = a2
    a3 = a3
    k1 = k1
    k2 = k2
    Noise = Noise
    Addr = {a1, a2, a3}
    Material = {k1, k2}
    MAX_ENTRIES = 2
    U64_MAX = 1
    PeerArg <- TwoNodesAndTooBig
    EpochArg <- TwoEpochsAndTooBig
    InitOutcome = {}
    ChannelArg <- Channels
    PayloadArg <- Payloads
    Capacity = {41, 42}
    PolicyArg = {}
    Ending = {}
    Datagram = {}
    ALLOW_CORE_DUMPS = FALSE
INVARIANTS
    
    HeapHoldsInstalledKeysOnly
    WithinCapacity
PROPERTIES
    SealedFrameOpensAtPeer
    FailureChangesNothing
    NoSilentWipe
    
    ImplementsPeerKeys
