SPECIFICATION LinkSpec
CONSTANTS
    k1 = k1
    k2 = k2
    Noise = Noise
    MAX_ENTRIES = 8
    Node <- Nodes
    Tables <- Cluster
    Provisioning = {}
    Sealer = {7, 8}
    MaxHits = 2
    Channel <- Channels
    PayloadArg <- TwoPayloads
    RecipientList <- Lists
    Damage <- AnyDamage
    MaxDraws = 2
INVARIANTS
    LinkTypeOK
    DeliveredWasSent
CHECK_DEADLOCK FALSE
