SPECIFICATION LinkSpec
CONSTANTS
    k1 = k1
    k2 = k2
    Noise = Noise
    MAX_ENTRIES = 2
    Node <- Nodes
    Tables <- PairOnly
    Provisioning <- Operators
    Sealer = {7}
    MaxHits = 0
    Channel <- Channels
    PayloadArg <- SmallAndHuge
    RecipientList <- ManyLists
    Damage = {}
    MaxDraws = 2
INVARIANTS
    
    HitlessRotation
PROPERTIES
    FanoutAllOrNothing
CHECK_DEADLOCK FALSE
