SPECIFICATION SixSpec
CONSTANTS
    secret = secret
    c1 = c1
    c2 = c2
    Noise = Noise
    MAX_ENTRIES = 8
    MAX_PUT_BYTES = 1024
    MAX_KEYS = 1
    Pair <- Nodes
    LinkKey <- SameKey
    Conn = {c1, c2}
    Home <- Homes
    Command <- Commands
    Body <- Requests
    Stray <- Foreign
    MaxRequests = 2
    MaxRestarts = 1
INVARIANTS
    SixTypeOK
    AnsweredOnce
    PendingHasClient
    OneHome
PROPERTIES
    ImplementsKvService
    EveryForwardSettles
